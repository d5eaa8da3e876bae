---------------------------- MODULE CompNodeSync ----------------------------
(***************************************************************************)
(* Release of storage that several computing nodes use: the class          *)
(* CompNodeSyncManager of the imperative runtime and its callers.          *)
(*                                                                         *)
(* A computing node is a stream: the host appends kernels and waits for    *)
(* events, the device executes them in order, later.  Freed storage goes   *)
(* back to its own stream, where the next allocation uses it; that is safe *)
(* only if the uses on other streams are finished, or the own stream waits *)
(* for them.  The manager numbers points of each stream (virtual events),  *)
(* records real events at some of them, remembers which numbers of other   *)
(* streams each wait orders before its own, and keeps blobs in queues      *)
(* until the number that the last user gave is passed.                     *)
(*                                                                         *)
(* There are the issuing thread (the interpreter's worker, which also      *)
(* drops tensors), the monitor thread and the devices.  An operator is a   *)
(* program of calls of the manager (todo), and a step is one call.  A call *)
(* that only takes a number is part of the step before it, and the event   *)
(* that do_record() records without m_mtx is part of the step that numbers *)
(* it: with one issuing thread nobody else sees either.                    *)
(***************************************************************************)
EXTENDS Integers, Sequences, FiniteSets, FiniteSetsExt, Functions

CONSTANTS
    Nodes,          \* computing nodes
    Blobs,          \* addresses of Blob objects, each with its tensor
    None,           \* no blob
    BorrowThenCopy, \* whether borrowed tensors are copied to other nodes
    Plans           \* bound: what the client does, in order: kind and node

ASSUME NoneAssumption == None \notin Blobs
ASSUME BorrowAssumption == BorrowThenCopy \in BOOLEAN
ASSUME PlanAssumption ==
    Plans \subseteq
        Seq({"put", "apply", "copy", "borrow", "record", "wait", "drop"} \X Nodes)

VARIABLES
    stream,     \* per node, what was issued: the event each item waits for
    done,       \* per node, how many items the device has executed
    clk,        \* ghost: per node, the items of all nodes before its next item
    next, completed, events, ordering,  \* CompNodeData, by node
    release_queues,         \* by receiver, releaser and number
    host_release_queue,     \* by node and number: the copy that reads the storage
    blob,       \* the Blob objects and their tensors
    held,       \* tensors that the client still has
    dying,      \* the BorrowedBlob whose destructor runs
    todo,       \* calls that the issuing thread still has to make
    reg,        \* the number it got last
    mon,        \* the monitor thread
    locked,     \* a thread waits for m_mtx, which it holds itself
    plan        \* operators still to come

devVars == <<stream, done, clk>>
queueVars == <<release_queues, host_release_queue>>
blobVars == <<blob, held, dying>>
vars == <<devVars, next, completed, events, ordering, queueVars, blobVars,
          todo, reg, mon, locked, plan>>

Zero == [n \in Nodes |-> 0]
Max2(a, b) == IF a < b THEN b ELSE a
Join(v, w) == [n \in Nodes |-> Max2(v[n], w[n])]
Insert(f, t, x) == [k \in DOMAIN f \cup {t} |-> IF k \in DOMAIN f THEN f[k] ELSE x]

\* owner: of a BorrowedBlob; event, init: its m_event, m_initialized;
\* ready: m_produced_at of the tensor.  Ghosts: where the content is written,
\* and where it is read.
NoBlob == [cn |-> CHOOSE n \in Nodes : TRUE, owner |-> None, event |-> 0,
           init |-> FALSE, ready |-> 0, src |-> <<None, 0>>, uses |-> {}]
NewBlob(n, owner) == [NoBlob EXCEPT !.cn = n, !.owner = owner]
Root(b) == IF blob[b].owner = None THEN b ELSE blob[b].owner

Queued(b, queues) ==
    \E n, m \in Nodes : \E t \in DOMAIN queues[n][m] : queues[n][m][t] = b
\* the shared_ptr to b is not the last one
Exists(b) == b \in held \/ Queued(b, release_queues) \/ dying = b
Live(b) == Exists(b) \/ \E c \in Blobs : blob[c].owner = b /\ Exists(c)
FreeSlot == CHOOSE b \in Blobs : ~Live(b)

MonitorInit ==
    [pc |-> "copy", todos |-> [n \in Nodes |-> {}], it |-> Zero,
     num_success |-> Zero, num_attempts |-> Zero]

Init ==
    /\ stream = [n \in Nodes |-> <<>>]
    /\ done = Zero
    /\ clk = [n \in Nodes |-> Zero]
    /\ next = [n \in Nodes |-> 1]
    /\ completed = Zero
    /\ events = [n \in Nodes |-> <<>>]
    /\ ordering = [n \in Nodes |-> <<>>]
    /\ release_queues = [n \in Nodes |-> [m \in Nodes |-> <<>>]]
    /\ host_release_queue = [n \in Nodes |-> <<>>]
    /\ blob = [b \in Blobs |-> NoBlob]
    /\ held = {}
    /\ dying = None
    /\ todo = <<>>
    /\ reg = 0
    /\ mon = MonitorInit
    /\ locked = FALSE
    /\ plan \in Plans

-----------------------------------------------------------------------------
(* The devices (external).                                                 *)

\* an item is the place it waits for; a kernel waits for place 0 of its own node
Issue(n, item, before) ==
    /\ stream' = [stream EXCEPT ![n] = Append(@, item)]
    /\ clk' = [clk EXCEPT ![n] = [Join(@, before) EXCEPT ![n] = Len(stream[n]) + 1]]
    /\ UNCHANGED done

DeviceStep(n) ==
    /\ done[n] < Len(stream[n])
    /\ LET item == stream[n][done[n] + 1] IN done[item[1]] >= item[2]
    /\ done' = [done EXCEPT ![n] = @ + 1]
    /\ UNCHANGED <<stream, clk, next, completed, events, ordering, queueVars,
                   blobVars, todo, reg, mon, locked, plan>>

\* what executing everything issued on n so far implies
RealEvent(n) == [pos |-> Len(stream[n]), clk |-> clk[n]]
Finished(n, e) == done[n] >= e.pos

-----------------------------------------------------------------------------
(* The manager.  Every action but DeviceStep needs m_mtx for a moment.     *)

Call(op, n, b) == [op |-> op, n |-> n, b |-> b, dst |-> "reg"]
CallTo(op, n, b, dst) == [op |-> op, n |-> n, b |-> b, dst |-> dst]
Calling(op) == ~locked /\ todo # <<>> /\ Head(todo).op = op

\* the next number of the node, and where the caller puts it
Numbered(c, st) ==
    LET t == st.next[c.n]
        st1 == [st EXCEPT !.next[c.n] = @ + 1]
    IN  CASE c.dst = "reg" -> [st1 EXCEPT !.reg = t]
          [] c.dst = "ready" -> [st1 EXCEPT !.blob[c.b].ready = t]
          [] c.dst = "event" -> [st1 EXCEPT !.blob[c.b].event = t]

Now == [next |-> next, blob |-> blob, reg |-> reg]

\* the rest of the program, after record() if that comes next
Return(rest, st) ==
    LET numbers == rest # <<>> /\ Head(rest).op = "record"
        end == IF numbers THEN Numbered(Head(rest), st) ELSE st
    IN  /\ todo' = IF numbers THEN Tail(rest) ELSE rest
        /\ next' = end.next /\ blob' = end.blob /\ reg' = end.reg

\* Mutant: any event will do.
LowerBound_Any(n, t) == DOMAIN events[n]

\* events that lower_bound(t) finds
LowerBound(n, t) == {k \in DOMAIN events[n] : k >= t}

\* which event a wait needs: of the tensor, or of the owner at the time of borrowing
Waiter(c) == IF c.op = "wait" THEN c.n ELSE blob[c.b].cn
Waitee(c) == IF c.op = "wait" THEN blob[c.b].cn ELSE blob[Root(c.b)].cn
Awaited(c) == IF c.op = "wait" THEN blob[c.b].ready ELSE blob[c.b].event
IsWait(c) == c.op \in {"wait", "storage"}

\* record(cn, true): do_record()
RecordNow ==
    /\ Calling("record_now")
    /\ LET c == Head(todo)
       IN  /\ events' = [events EXCEPT ![c.n] = Insert(@, next[c.n], RealEvent(c.n))]
           /\ Return(Tail(todo), Numbered(c, Now))
    /\ UNCHANGED <<devVars, completed, ordering, queueVars, held, dying, mon, locked, plan>>

\* Mutant: the last wait so far, which may come after t.
Before_Last(n, t) ==
    LET waits == DOMAIN ordering[n]
    IN  IF waits = {} THEN Zero ELSE ordering[n][Max(waits)]

\* what the last wait of n before number t is ordered after
Before(n, t) ==
    LET waits == {k \in DOMAIN ordering[n] : k < t}
    IN  IF waits = {} THEN Zero ELSE ordering[n][Max(waits)]

\* ReleaseQueue::release() for every releaser
Released(queues, n, upto) ==
    [queues EXCEPT ![n] = [m \in Nodes |-> Restrict(@[m], {t \in DOMAIN @[m] : t > upto[m]})]]

\* BorrowedBlobs that go with the queue entries.  Their destructor calls record(),
\* which locks m_mtx again.
Orphans(queues) ==
    {b \in Blobs : /\ blob[b].owner # None /\ Exists(b)
                   /\ b \notin held /\ dying # b /\ ~Queued(b, queues)}

ReleaseInto(queues) ==
    IF Orphans(queues) = {}
    THEN release_queues' = queues /\ UNCHANGED locked
    ELSE locked' = TRUE /\ UNCHANGED release_queues

\* device_wait(), after get_event(), which records an event if there is none late enough
Wait ==
    /\ ~locked /\ todo # <<>> /\ IsWait(Head(todo))
    /\ LET c == Head(todo)
           w == Waiter(c)
           m == Waitee(c)
           late == LowerBound(m, Awaited(c))
           te == IF late = {} THEN next[m] ELSE Min(late)
           evs == Insert(events[m], te, RealEvent(m))
           tw == next[w]
           ord == Join([Before(w, tw) EXCEPT ![m] = te, ![w] = tw], Before(m, te))
           st == [Now EXCEPT !.next = [next EXCEPT ![m] = IF late = {} THEN @ + 1 ELSE @,
                                                   ![w] = @ + 1],
                             !.blob[c.b].init = (c.op = "storage") \/ @]
       IN  /\ Issue(w, <<m, evs[te].pos>>, evs[te].clk)
           /\ events' = [events EXCEPT ![m] = evs]
           /\ ordering' = [ordering EXCEPT ![w] = Insert(@, tw, ord)]
           /\ ReleaseInto(Released(release_queues, w, ord))
           /\ Return(Tail(todo), st)
    /\ UNCHANGED <<completed, host_release_queue, held, dying, mon, plan>>

\* async_release(cn, reg, blob); the destructor of a BorrowedBlob passes its m_owner
AsyncRelease ==
    /\ Calling("release")
    /\ LET c == Head(todo)
           r == blob[c.b].cn
       IN  release_queues' =
              IF reg <= completed[c.n] THEN release_queues
              ELSE [release_queues EXCEPT ![r][c.n] = Insert(@, reg, c.b)]
    /\ dying' = None
    /\ Return(Tail(todo), [Now EXCEPT !.reg = 0])
    /\ UNCHANGED <<devVars, completed, events, ordering, host_release_queue, held,
                   mon, locked, plan>>

\* async_release(cn, reg, storage)
AsyncReleaseHost ==
    /\ Calling("release_host")
    /\ LET n == Head(todo).n
       IN  host_release_queue' =
              IF reg <= completed[n] THEN host_release_queue
              ELSE [host_release_queue EXCEPT ![n] = Insert(@, reg, Len(stream[n]))]
    /\ Return(Tail(todo), [Now EXCEPT !.reg = 0])
    /\ UNCHANGED <<devVars, completed, events, ordering, release_queues, held, dying,
                   mon, locked, plan>>

\* an operator's kernel on n: reads b, if any, and writes dst
Kernel ==
    /\ Calling("kernel")
    /\ LET c == Head(todo)
           place == <<c.n, Len(stream[c.n]) + 1>>
           read == IF c.b = None THEN blob ELSE [blob EXCEPT ![Root(c.b)].uses = @ \cup {place}]
       IN  /\ Issue(c.n, <<c.n, 0>>, Zero)
           /\ Return(Tail(todo), [Now EXCEPT !.blob = [read EXCEPT ![c.dst].src = place]])
    /\ UNCHANGED <<completed, events, ordering, queueVars, held, dying, mon, locked, plan>>

-----------------------------------------------------------------------------
(* The operators, as the calls that they make.                             *)

\* BorrowedBlob::storage(), called for every input of a kernel
Storage(b) ==
    IF blob[b].owner = None \/ blob[b].init THEN <<>> ELSE <<Call("storage", None, b)>>

\* Tensor::get_ready_event() and device_wait_event()
WaitFor(n, b) ==
    IF blob[b].cn = n THEN <<>>
    ELSE (IF blob[b].ready # 0 THEN <<>> ELSE <<CallTo("record", blob[b].cn, b, "ready")>>)
            \o <<Call("wait", n, b)>>

\* Tensor(HostTensorND)
PutCalls(c, n) ==
    <<CallTo("kernel", n, None, c), Call("record_now", n, None), Call("release_host", n, None)>>

\* an operator with its input on its own node
ApplyCalls(b, c) ==
    LET n == blob[b].cn
    IN  Storage(b) \o <<CallTo("kernel", n, b, c), CallTo("record", n, c, "ready")>>

\* apply_on_physical_tensor() of the mini graph, with the input on another node
CopyCalls(b, c, n) ==
    Storage(b) \o WaitFor(n, b) \o
    <<CallTo("kernel", n, b, c), Call("record", n, None), Call("release", n, b),
      Call("record_now", n, None), CallTo("record", n, c, "ready")>>

BorrowCalls(b, c, n) ==
    <<CallTo("record_now", blob[Root(b)].cn, c, "event"), CallTo("record", n, c, "ready")>>

\* an event of _multistream.py: a tensor without content
BarrierCalls(c, n) == <<CallTo("record_now", n, c, "ready")>>

Planned(kind, n) ==
    /\ todo = <<>> /\ ~locked
    /\ plan # <<>> /\ Head(plan) = <<kind, n>>
    /\ plan' = Tail(plan)

\* the number that a program may begin with is taken at once
Begin(kind, n, calls, st) ==
    /\ calls # <<>>
    /\ Planned(kind, n)
    /\ Return(calls, st)
    /\ UNCHANGED <<devVars, completed, events, ordering, queueVars, dying, mon, locked>>

\* ... with the output in a new blob
BeginNew(kind, n, owner, Calls(_)) ==
    /\ \E b \in Blobs : ~Live(b)
    /\ Begin(kind, n, Calls(FreeSlot), [Now EXCEPT !.blob[FreeSlot] = NewBlob(n, owner)])
    /\ held' = held \cup {FreeSlot}

\* a tensor with content
Input(b) == b \in held /\ blob[Root(b)].src # <<None, 0>>

Put(n) == BeginNew("put", n, None, LAMBDA c : PutCalls(c, n))
Apply(b) == Input(b) /\ BeginNew("apply", blob[b].cn, None, LAMBDA c : ApplyCalls(b, c))
Copy(b, n) ==
    /\ Input(b) /\ blob[b].cn # n
    /\ BorrowThenCopy \/ blob[b].owner = None
    /\ BeginNew("copy", n, None, LAMBDA c : CopyCalls(b, c, n))
Borrow(b, n) ==
    /\ Input(b) /\ blob[b].cn # n
    /\ BeginNew("borrow", n, Root(b), LAMBDA c : BorrowCalls(b, c, n))
RecordBarrier(n) == BeginNew("record", n, None, LAMBDA c : BarrierCalls(c, n))
WaitBarrier(b, n) == b \in held /\ Begin("wait", n, WaitFor(n, b), Now) /\ UNCHANGED held

\* the client drops a tensor; ~BorrowedBlob() if it was the last one
Drop(b) ==
    /\ b \in held
    /\ Planned("drop", blob[b].cn)
    /\ held' = held \ {b}
    /\ IF blob[b].owner = None \/ Queued(b, release_queues)
       THEN UNCHANGED <<dying, next, blob, reg>> /\ todo' = <<>>
       ELSE /\ dying' = b
            /\ Return(<<Call("record_now", blob[b].cn, None),
                        Call("release", blob[b].cn, blob[b].owner)>>, Now)
    /\ UNCHANGED <<devVars, completed, events, ordering, queueVars, mon, locked>>

-----------------------------------------------------------------------------
(* monitor_events().                                                       *)

\* Mutant: rule b is missing.
Attempts_NoMinimum(n) ==
    IF mon.num_success[n] = mon.num_attempts[n] THEN 2 * mon.num_success[n]
    ELSE mon.num_success[n]

\* how many events of n to query: twice as many if all succeeded, at least 1
Attempts(n) ==
    IF mon.num_success[n] = mon.num_attempts[n]
    THEN Max2(1, 2 * mon.num_success[n]) ELSE Max2(1, mon.num_success[n])

MonitorCopy ==
    /\ ~locked /\ mon.pc = "copy"
    /\ mon' = [pc |-> "poll", it |-> Zero, num_success |-> Zero,
               num_attempts |-> [n \in Nodes |-> Attempts(n)],
               todos |-> [n \in Nodes |->
                   {k \in DOMAIN events[n] :
                       Cardinality({j \in DOMAIN events[n] : j <= k}) <= Attempts(n)}]]
    /\ UNCHANGED <<devVars, next, completed, events, ordering, queueVars, blobVars,
                   todo, reg, locked, plan>>

\* without m_mtx, one node after another; after a failure the rest of the node's
\* events are skipped
MonitorPoll ==
    /\ mon.pc = "poll"
    /\ LET good(n) == {k \in mon.todos[n] :
                          \A j \in mon.todos[n] : j <= k => Finished(n, events[n][j])}
       IN  mon' = [mon EXCEPT !.pc = "release",
                              !.todos = [n \in Nodes |-> {}],
                              !.num_success = [n \in Nodes |-> Cardinality(good(n))],
                              !.it = [n \in Nodes |-> IF good(n) = {} THEN 0 ELSE Max(good(n))]]
    /\ UNCHANGED <<devVars, next, completed, events, ordering, queueVars, blobVars,
                   todo, reg, locked, plan>>

\* all queues of the releasers that made progress
MonitorReleased ==
    [q \in Nodes |-> [m \in Nodes |-> Restrict(release_queues[q][m],
        {t \in DOMAIN release_queues[q][m] : t > mon.it[m]})]]

After(f, n) == Restrict(f[n], {t \in DOMAIN f[n] : t > mon.it[n]})

MonitorRelease ==
    /\ ~locked /\ mon.pc = "release"
    /\ ReleaseInto(MonitorReleased)
    /\ completed' = [n \in Nodes |-> IF mon.it[n] = 0 THEN completed[n] ELSE mon.it[n]]
    /\ host_release_queue' = [n \in Nodes |-> After(host_release_queue, n)]
    /\ events' = [n \in Nodes |-> After(events, n)]
    /\ mon' = [mon EXCEPT !.pc = "copy", !.it = Zero]
    /\ UNCHANGED <<devVars, next, ordering, blobVars, todo, reg, plan>>

-----------------------------------------------------------------------------

IssuerStep == RecordNow \/ Wait \/ AsyncRelease \/ AsyncReleaseHost \/ Kernel

Client ==
    \/ \E n \in Nodes : Put(n) \/ RecordBarrier(n)
    \/ \E b \in Blobs : Apply(b) \/ Drop(b)
    \/ \E b \in Blobs, n \in Nodes : Copy(b, n) \/ Borrow(b, n) \/ WaitBarrier(b, n)

Monitor == MonitorCopy \/ MonitorPoll \/ MonitorRelease

Next == IssuerStep \/ Client \/ Monitor \/ \E n \in Nodes : DeviceStep(n)

Spec == Init /\ [][Next]_vars

\* The threads are scheduled and the devices work; the client may stop.
FairSpec ==
    /\ Spec
    /\ WF_vars(IssuerStep) /\ WF_vars(Monitor)
    /\ \A n \in Nodes : WF_vars(DeviceStep(n))

-----------------------------------------------------------------------------

Marks == [Nodes -> Nat]

\* The types of the variables, and the order of the numbers.
TypeOK ==
    /\ done \in Marks /\ next \in Marks /\ completed \in Marks
    /\ held \subseteq Blobs /\ dying \in Blobs \cup {None}
    /\ reg \in Nat /\ locked \in BOOLEAN
    /\ \A n \in Nodes :
          /\ done[n] <= Len(stream[n]) /\ clk[n] \in Marks
          /\ \A t \in DOMAIN events[n] : completed[n] < t /\ t < next[n]
          /\ \A t \in DOMAIN ordering[n] : ordering[n][t] \in Marks

\* an item is executed, or n's next item comes after it anyway
Passed(n, place) ==
    done[place[1]] >= place[2] \/ clk[n][place[1]] >= place[2]

\* copies from the host that still have their storage
HostHeld(n) ==
    Range(host_release_queue[n]) \cup
    (IF todo # <<>> /\ Head(todo).op # "kernel"
           /\ \E i \in DOMAIN todo : todo[i].op = "release_host" /\ todo[i].n = n
     THEN {Len(stream[n])} ELSE {})

\* "hold a blob until a virtual event on a device is completed": when the last
\* reference to a blob goes, every kernel that reads it has been executed, or the
\* stream that gets the memory back waits for it, perhaps through a third stream;
\* the host storage of a copy is kept until the copy has been executed.
ReleaseSafe ==
    [][/\ \A b \in Blobs : Live(b) /\ ~Live(b)' =>
            \A place \in blob[b].uses : Passed(blob[b].cn, place)'
       /\ \A n \in Nodes : \A pos \in HostHeld(n) \ HostHeld(n)' : done[n] >= pos]_vars

\* A kernel is issued on a stream only behind the kernel that writes its input:
\* the first use of a borrowed blob waits for the owner, and an operator across
\* nodes for the tensor's ready event.
ReadsReady ==
    [][\A b \in Blobs : \A place \in blob'[b].uses \ blob[b].uses :
          Passed(place[1], blob[b].src)']_vars

\* A tensor that the client has dropped is freed in the end, whatever streams
\* used it: every number in a release queue is followed by a real event, which
\* the monitor finds.
ReleasedEventually ==
    \A b \in Blobs : (\A c \in held : b # c /\ b # blob[c].owner) ~> ~Live(b)
=============================================================================
