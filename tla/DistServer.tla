----------------------------- MODULE DistServer -----------------------------
(***************************************************************************)
(* The Python server of the master process (distributed/server.py): the    *)
(* methods of _Methods, each call in a thread of its own, and the Future   *)
(* of utils/future.py they hand values over with.                          *)
(*                                                                         *)
(* A step is what a thread does under `self.lock`, or one wait, or one     *)
(* operation on a Future or a dictionary outside the lock.  Futures and    *)
(* events are objects: a thread keeps its reference when the dictionary    *)
(* entry is deleted.                                                       *)
(***************************************************************************)
EXTENDS GroupClient, SequencesExt

CONSTANTS
    LossyCalls,     \* the calls whose connection may break; the client repeats them
    MaxLost         \* bound on the connections that break

VARIABLES
    dict,       \* [dictionary name -> [key -> object]]: the _Methods object
    obj,        \* the objects: futures, and the [Future, size] pairs of bcast_val
    counter,    \* dict_barrier_counter, as [key -> count]
    held,       \* held[r]: the object the thread serving r refers to
    lost        \* connections broken so far

methodsVars == <<dict, obj, counter, held, lost>>

MethodsInit ==
    /\ dict = [d \in {"is_grad", "user", "bcast", "barrier"} |-> <<>>]
    /\ obj = <<>>
    /\ counter = <<>>
    /\ held = [r \in Procs |-> 0]
    /\ lost = 0

NewObject(size) == [ready |-> FALSE, ack |-> FALSE, value |-> None, cnt |-> size]

\* dict[d][k] of a defaultdict, under self.lock: thread r refers to the entry,
\* which is made if it is missing.
Lookup(r, d, k, size) ==
    IF k \in DOMAIN dict[d]
    THEN held' = [held EXCEPT ![r] = dict[d][k]] /\ UNCHANGED <<dict, obj>>
    ELSE /\ obj' = Append(obj, NewObject(size))
         /\ dict' = [dict EXCEPT ![d] = (k :> Len(obj) + 1) @@ @]
         /\ held' = [held EXCEPT ![r] = Len(obj) + 1]

Delete(d, k) == [dict EXCEPT ![d] = RestrictDomain(@, LAMBDA x : x # k)]

Key(r) == req[r].key
Op(r) == req[r].op
Object(r) == obj[held[r]]

(***************************************************************************)
(* set_is_grad, check_is_grad, user_set, user_get, user_pop                *)
(***************************************************************************)
FutureDict(r) == IF Op(r) \in {"set_is_grad", "check_is_grad"} THEN "is_grad" ELSE "user"

Find(r) ==
    /\ at[r] = "py" /\ Op(r) \in {"set_is_grad", "check_is_grad",
                                "user_set", "user_get", "user_pop"}
    /\ Lookup(r, FutureDict(r), Key(r), None)
    /\ Goto(r, IF Op(r) \in {"set_is_grad", "user_set"} THEN "f_set" ELSE "f_get")
    /\ UNCHANGED <<counter, lost>> /\ ClientUnchanged

\* Future.set: publish the value; a future with an ack waits for the reader.
FutureSet(r) ==
    /\ at[r] = "f_set"
    /\ obj' = [obj EXCEPT ![held[r]].value = req[r].val, ![held[r]].ready = TRUE]
    /\ Goto(r, IF FutureDict(r) = "is_grad" THEN "f_ack" ELSE "py_ret")
    /\ UNCHANGED <<dict, counter, held, lost>> /\ ClientUnchanged

FutureAcked(r) ==
    /\ at[r] = "f_ack" /\ Object(r).ack
    /\ Goto(r, "py_ret")
    /\ UNCHANGED methodsVars /\ ClientUnchanged

\* Future.get: wait for the value, acknowledge, and then read it.
FutureGet(r) ==
    /\ at[r] = "f_get" /\ Object(r).ready
    /\ obj' = [obj EXCEPT ![held[r]].ack = FutureDict(r) = "is_grad"]
    /\ Goto(r, "f_read")
    /\ UNCHANGED <<dict, counter, held, lost>> /\ ClientUnchanged

FutureRead(r) ==
    /\ at[r] = "f_read"
    /\ at' = [at EXCEPT ![r] = IF Op(r) = "user_get" THEN "py_ret" ELSE "f_del"]
    /\ ret' = [ret EXCEPT ![r] = Object(r).value]
    /\ UNCHANGED methodsVars /\ ClientUnchanged

\* The reader deletes the entry (check_is_grad, user_pop).
FutureDelete(r) ==
    /\ at[r] = "f_del" /\ Key(r) \in DOMAIN dict[FutureDict(r)]
    /\ dict' = Delete(FutureDict(r), Key(r))
    /\ Goto(r, "py_ret")
    /\ UNCHANGED <<obj, counter, held, lost>> /\ ClientUnchanged

(***************************************************************************)
(* bcast_val: [Future(False), size] under the key, dropped by the last     *)
(***************************************************************************)
BcastFind(r) ==
    /\ at[r] = "py" /\ Op(r) = "bcast_val"
    /\ Lookup(r, "bcast", Key(r), req[r].size)
    /\ Goto(r, "b_val")
    /\ UNCHANGED <<counter, lost>> /\ ClientUnchanged

\* The member that has the value sets it, the others wait for it.
BcastValue(r) ==
    /\ at[r] = "b_val"
    /\ \/ /\ req[r].val # None
          /\ obj' = [obj EXCEPT ![held[r]].value = req[r].val, ![held[r]].ready = TRUE]
          /\ Goto(r, "b_count")
       \/ /\ req[r].val = None /\ Object(r).ready
          /\ at' = [at EXCEPT ![r] = "b_count"]
          /\ ret' = [ret EXCEPT ![r] = Object(r).value]
          /\ UNCHANGED obj
    /\ UNCHANGED <<dict, counter, held, lost>> /\ ClientUnchanged

BcastCount(r) ==
    /\ at[r] = "b_count"
    /\ obj' = [obj EXCEPT ![held[r]].cnt = @ - 1]
    /\ dict' = IF obj'[held[r]].cnt = 0 THEN Delete("bcast", Key(r)) ELSE dict
    /\ Goto(r, "py_ret")
    /\ UNCHANGED <<counter, held, lost>> /\ ClientUnchanged

(***************************************************************************)
(* group_barrier                                                           *)
(***************************************************************************)
CounterOf(k) == IF k \in DOMAIN counter THEN counter[k] ELSE 0

\* Under the lock: count the call and refer to the event of the key.
BarrierCount(r) ==
    /\ at[r] = "py" /\ Op(r) = "barrier"
    /\ counter' = (Key(r) :> CounterOf(Key(r)) + 1) @@ counter
    /\ Lookup(r, "barrier", Key(r), None)
    /\ Goto(r, IF counter'[Key(r)] = req[r].size THEN "b_del" ELSE "b_wait")
    /\ UNCHANGED lost /\ ClientUnchanged

\* The last call drops the counter and the event outside the lock, and then
\* sets the event.
BarrierDelCounter(r) ==
    /\ at[r] = "b_del"
    /\ counter' = RestrictDomain(counter, LAMBDA k : k # Key(r))
    /\ Goto(r, "b_set")
    /\ UNCHANGED <<dict, obj, held, lost>> /\ ClientUnchanged

BarrierSet(r) ==
    /\ at[r] = "b_set"
    /\ dict' = Delete("barrier", Key(r))
    /\ obj' = [obj EXCEPT ![held[r]].ready = TRUE]
    /\ Goto(r, "py_ret")
    /\ UNCHANGED <<counter, held, lost>> /\ ClientUnchanged

BarrierWait(r) ==
    /\ at[r] = "b_wait" /\ Object(r).ready
    /\ Goto(r, "py_ret")
    /\ UNCHANGED methodsVars /\ ClientUnchanged

(***************************************************************************)
(* The XML-RPC transport                                                   *)
(***************************************************************************)
GetPort(r) ==
    /\ at[r] = "py" /\ Op(r) = "get_mm_server_port"
    /\ Goto(r, "py_ret")
    /\ UNCHANGED methodsVars /\ ClientUnchanged

\* The answer is sent and the thread ends.
Answer(r) ==
    /\ at[r] = "py_ret"
    /\ Goto(r, "answered")
    /\ held' = [held EXCEPT ![r] = 0]
    /\ UNCHANGED <<dict, obj, counter, lost>> /\ ClientUnchanged

\* The connection of a call breaks after the server has begun to serve it; the
\* client catches the exception, sleeps and calls again.  The thread of the
\* broken call has nothing more to do that another thread could see.
BrokenConnection(r) ==
    /\ at[r] \in {"b_wait", "py_ret"} /\ Op(r) \in LossyCalls /\ lost < MaxLost
    /\ lost' = lost + 1
    /\ held' = [held EXCEPT ![r] = 0]
    /\ Goto(r, "py")
    /\ UNCHANGED <<dict, obj, counter>> /\ ClientUnchanged

MethodStep(r) ==
    \/ Find(r) \/ FutureSet(r) \/ FutureAcked(r) \/ FutureGet(r) \/ FutureRead(r)
    \/ FutureDelete(r) \/ BcastFind(r) \/ BcastValue(r) \/ BcastCount(r)
    \/ BarrierCount(r) \/ BarrierDelCounter(r) \/ BarrierSet(r) \/ BarrierWait(r)
    \/ GetPort(r) \/ Answer(r)
=============================================================================
