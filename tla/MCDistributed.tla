--------------------------- MODULE MCDistributed ---------------------------
EXTENDS Distributed

CONSTANTS k1, k2

MCHash == 0 :> 20 @@ 1 :> 30 @@ 2 :> 10

\* The programs of a group of n processes whose items are the given ones, as
\* functions of the process.
Program(n, items) ==
    [r \in Procs |-> IF r < n THEN [i \in DOMAIN items |-> items[i][r] @@ [size |-> n]]
                     ELSE <<>>]

\* The value process 0 gives.
Given(r, v) == IF r = 0 THEN v ELSE None

Opr(k, cached) ==
    [r \in Procs |-> [op |-> "opr_register", key |-> k, is_root |-> r = 1,
                      rank |-> IF cached THEN r ELSE -1, cached |-> cached]]
Shape(k, v) ==
    [r \in Procs |-> [op |-> IF r = 1 THEN "set_output_shape" ELSE "get_output_shape",
                      key |-> k, val |-> IF r = 1 THEN v ELSE None]]
NcclId(k, v) ==
    [r \in Procs |-> [op |-> "bcast_nccluniqueid", key |-> k, rank |-> r, root |-> 0,
                      val |-> Given(r, v)]]
MMBarrier == [r \in Procs |-> [op |-> "group_barrier", rank |-> r]]
Port == [r \in Procs |-> [op |-> "get_mm_server_port", key |-> None]]
Barrier(k) == [r \in Procs |-> [op |-> "barrier", key |-> k]]
BcastVal(k, v) == [r \in Procs |-> [op |-> "bcast_val", key |-> k, val |-> Given(r, v)]]

\* Process 0 gives a value under a key, another process takes it.
Hand(set, get, k, v) ==
    [r \in Procs |-> [op |-> IF r = 0 THEN set ELSE get, key |-> k, val |-> Given(r, v)]]

MCPrograms ==
    { \* init_process_group with the nccl backend, then an operator
      Program(2, <<Port, Barrier(k1), NcclId(k1, 1), Opr(k1, TRUE)>>),
      \* static graphs: shape, operator, and the graph built and run again
      Program(2, <<Shape(k1, 1), Opr(k1, FALSE), Shape(k1, 2), Opr(k1, FALSE)>>),
      Program(3, <<Opr(k1, FALSE)>>),
      Program(3, <<Shape(k1, 1)>>),
      \* imperative execution: cached registrations, a communicator shared by keys
      Program(2, <<Opr(k1, TRUE), Opr(k2, TRUE), Opr(k1, TRUE)>>),
      Program(3, <<MMBarrier, Barrier(k1), Barrier(k1)>>),
      Program(3, <<BcastVal(k1, 1), BcastVal(k1, 2)>>),
      Program(2, <<Hand("user_set", "user_pop", k1, 1), Hand("user_set", "user_get", k2, 2),
                   Hand("set_is_grad", "check_is_grad", k1, 3)>>),
      \* members that expect different sizes, and a group with a member too many
      [r \in Procs |-> IF r = 2 THEN <<>> ELSE <<Opr(k1, FALSE)[r] @@ [size |-> 2 + r]>>],
      [r \in Procs |-> <<Opr(k1, FALSE)[r] @@ [size |-> 2]>>] }

\* Two barriers of the GroupManager in a row.
BarrierTwice == {Program(2, <<MMBarrier, MMBarrier>>)}

\* Two hand-overs of a gradient flag under one key.
FlagTwice ==
    {Program(2, <<Hand("set_is_grad", "check_is_grad", k1, 1),
                  Hand("set_is_grad", "check_is_grad", k1, 2)>>)}

OneBarrier == {Program(2, <<Barrier(k1)>>)}
============================================================================
