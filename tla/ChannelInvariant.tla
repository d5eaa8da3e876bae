-------------------------- MODULE ChannelInvariant --------------------------
(***************************************************************************)
(* The inductive invariant of the interpreter's channel, with which module *)
(* ChannelProofs proves its safety properties. None of PoolSafe,           *)
(* ValueCorrect, ResultOrError, HostComputeReady and NoLostNotify is       *)
(* inductive: what a command does when the worker gets to it depends on    *)
(* what the client promised when it added the command, and what an entry   *)
(* of m_apply_stack computes on what held when it was put there. IInv says *)
(* what the commands that are still queued, the recorded paths and the     *)
(* entries of the stack may rely on.                                       *)
(***************************************************************************)
EXTENDS Channel

\* the commands that make a tensor
Outputs == {"Put", "ApplyOp"}

\* the tensors a command refers to
Names(c) == {c.dest, c.src} \ {None}

\* Every queued command has its operands, and they are live TensorInfo objects.
CommandInv ==
    \A i \in DOMAIN queue :
        /\ queue[i].dest = None <=> queue[i].op = "SetOption"
        /\ queue[i].src = None <=> queue[i].op # "ApplyOp"
        /\ Names(queue[i]) \subseteq alive

\* The command that makes a tensor comes before every other one that names it;
\* until it is processed the tensor has no value and no path, and it will give
\* the tensor the value a synchronous interpreter would.
OutputInv ==
    \A i \in DOMAIN queue : queue[i].op \in Outputs =>
        LET t == queue[i].dest IN
        /\ queue[i].src # t
        /\ \A j \in DOMAIN queue : t \in Names(queue[j]) => i <= j
        /\ i > 1 \/ wpc \in {"run", "notify"} => info[t].ptr = "null"
        /\ info[t].producer = None /\ ~info[t].evicted /\ ~info[t].allow_delete
        /\ queue[i].op = "Put" => queue[i].v = info[t].want
        /\ queue[i].op = "ApplyOp" => info[t].want = Compute(info[queue[i].src].want)

\* Del is the last command that names its tensor, whose handle is gone.
DelInv ==
    \A i \in DOMAIN queue : queue[i].op = "Del" =>
        /\ queue[i].dest \notin m_valid_handle
        /\ \A j \in DOMAIN queue : queue[i].dest \in Names(queue[j]) => j <= i

\* No command names a tensor that is kept for its users (allow_delete), unless
\* recursive_free() is about to free it as it has no users left.
KeptInv ==
    \A t \in alive : info[t].allow_delete =>
        /\ t \notin m_valid_handle
        /\ \A i \in DOMAIN queue :
              t \in Names(queue[i]) => i = 1 /\ queue[i].op = "Del" /\ Users(t) = {}

\* A TensorInfo is live because of a handle, a queued Del or its users.
HandleInv ==
    /\ alive = m_valid_handle \cup QueuedDel \cup Kept
    /\ worker_dtr => \A t \in Kept \ QueuedDel : Users(t) # {}

\* A recorded path computes the value its tensor is to have from a live input
\* that was made without an error; what is evicted has a path.
PathInv ==
    \A t \in alive :
        /\ info[t].want \in Values
        /\ info[t].producer # None =>
              /\ info[t].producer \in alive
              /\ info[t].want = Compute(info[info[t].producer].want)
              /\ ~PendingOutput(t)
              /\ ~PendingOutput(info[t].producer) /\ ~info[info[t].producer].invalid
        /\ info[t].evicted => info[t].ptr = "null" /\ info[t].producer # None

\* A value known to shape inference (desc.value) is in h_value, or in a Tensor
\* that has had it since its construction and cannot be evicted.
HostInv ==
    \A t \in alive : info[t].desc_value =>
        \/ info[t].h_value # NoValue
        \/ info[t].ptr = "const" /\ info[t].producer = None /\ ~PendingOutput(t)

\* An entry of m_apply_stack computes the value its output is to have.
EntryOK(e) ==
    /\ e.src \in alive /\ e.dest \in alive
    /\ info[e.dest].want = Compute(info[e.src].want)
    /\ ~PendingOutput(e.src) /\ ~info[e.src].invalid
    /\ e.recomp => ~PendingOutput(e.dest)

\* Every entry does, unless it names a TensorInfo that has been freed.
EntryInv ==
    \A i \in DOMAIN m_apply_stack : ~Dangling(m_apply_stack[i]) => EntryOK(m_apply_stack[i])

\* The stack is flushed for the first command; the operator of an ApplyOp is on
\* it until its output is there.  Entries under the operator of the command, and
\* all entries between two commands, are paths that StartRegen left without
\* computing them.
StackInv ==
    /\ m_apply_stack # <<>> => m_applying
    /\ wpc = "flush" => m_apply_stack # <<>> /\ queue # <<>> /\ Head(queue).op # "Put"
    /\ wpc = "notify" => queue # <<>> /\ Head(queue).op = "GetValue"
    /\ wpc = "flush" /\ Head(queue).op = "ApplyOp" =>
          /\ ~info[Src].invalid
          /\ (\E i \in DOMAIN m_apply_stack : ~m_apply_stack[i].recomp) \/ info[Dest].ptr # "null"
    /\ \A i \in DOMAIN m_apply_stack :
          LET e == m_apply_stack[i] IN
          ~e.recomp => /\ wpc \in {"flush", "crashed"}
                       /\ Head(queue).op = "ApplyOp" /\ e.src = Src /\ e.dest = Dest
                       /\ \A j \in 1 .. i - 1 : m_apply_stack[j].recomp

\* The worker holds the value of the input of the operator it runs, at the top of
\* the stack or in the command.
HeldInv ==
    held # NoValue =>
        IF wpc = "flush" THEN ~Dangling(Top) /\ held = info[Top.src].want
        ELSE /\ wpc = "run" /\ queue # <<>> /\ Head(queue).op = "ApplyOp" /\ ~worker_dtr
             /\ ~info[Src].invalid /\ held = info[Src].want

\* A call that waits does so on a valid handle; while it sleeps, m_waitee names
\* its tensor, and no result or error is there that it was not notified of.
WaitInv ==
    /\ call.t \in IF call.pc \in {"enter", "add", "wait", "stop"} THEN m_valid_handle ELSE {None}
    /\ asleep => call.pc = "wait" /\ m_waitee = call.t
    /\ NoLostNotify

QueueCore == CommandInv /\ OutputInv /\ DelInv /\ KeptInv /\ HandleInv
ValueCore == PathInv /\ HostInv /\ ValueCorrect /\ ResultOrError
StackCore == EntryInv /\ StackInv
Core == QueueCore /\ ValueCore /\ StackCore

\* What client and worker rely on between any two of their critical sections:
\* see the conjuncts above.
IInv == TypeOK /\ Core /\ HeldInv /\ WaitInv
-----------------------------------------------------------------------------
(* What the lemmas say of a step, and parts of the invariant that they     *)
(* treat separately.                                                       *)

\* The fields that only the calls of the client decide.
SameDesc(x) ==
    /\ info'[x].want = info[x].want /\ info'[x].h_value = info[x].h_value
    /\ info'[x].desc_value = info[x].desc_value

\* The queue has lost its first command.
QueueMoved ==
    \A i \in DOMAIN queue' :
        i + 1 \in DOMAIN queue /\ queue'[i] = queue[i + 1] /\ i \in Nat /\ i >= 1

\* The fields that neither computing nor evicting a tensor changes.
Described(x) ==
    /\ SameDesc(x)
    /\ info'[x].producer = info[x].producer /\ info'[x].invalid = info[x].invalid
    /\ info'[x].allow_delete = info[x].allow_delete

\* The fields that say where the value of a tensor is.
SameValue(x) ==
    /\ info'[x].evicted = info[x].evicted /\ info'[x].val = info[x].val
    /\ info'[x].ptr = info[x].ptr

\* What the end of free() does to the tensors: d is kept for its users, with its
\* value or evicted, and the others are as before.
Retired(d) ==
    /\ \A x \in alive : /\ SameDesc(x) /\ info'[x].invalid = info[x].invalid
                        /\ info'[x].producer = info[x].producer
    /\ \A x \in alive \ {d} : SameValue(x) /\ info'[x].allow_delete = info[x].allow_delete
    /\ info'[d].allow_delete
    /\ \/ SameValue(d)
       \/ info'[d].evicted /\ info'[d].ptr = "null" /\ info[d].producer # None

\* A tensor keeps its value, or loses one that can be computed again.
Keeps(x) ==
    /\ SameDesc(x)
    /\ info'[x].producer = info[x].producer /\ info'[x].invalid = info[x].invalid
    /\ info'[x].allow_delete = info[x].allow_delete
    /\ \/ /\ info'[x].evicted = info[x].evicted /\ info'[x].val = info[x].val
          /\ info'[x].ptr = "null" <=> info[x].ptr = "null"
          /\ info[x].ptr = "const" => info'[x].ptr = "const"
       \/ info'[x].evicted /\ info'[x].ptr = "null" /\ info[x].producer # None

\* A tensor keeps what it has, or gets its value.
Computed(x) ==
    \/ /\ info'[x].evicted = info[x].evicted /\ info'[x].val = info[x].val
       /\ info'[x].ptr = info[x].ptr
    \/ /\ info[x].ptr = "null" /\ ~info'[x].evicted
       /\ info'[x].val = info[x].want /\ info'[x].ptr = "dev"

\* The fields of an entry of m_apply_stack.
EntryType == [src : Tensors, dest : Tensors \cup {None}, idx : 0 .. 1, recomp : BOOLEAN]

\* What StackInv says of entry i while the stack is flushed.
EntryAt(i) ==
    LET e == m_apply_stack[i] IN
    ~e.recomp => /\ Head(queue).op = "ApplyOp" /\ e.src = Src /\ e.dest = Dest
                 /\ \A j \in 1 .. i - 1 : m_apply_stack[j].recomp

\* What StackInv says of an ApplyOp for which the stack is flushed.
HeadAt ==
    Head(queue).op = "ApplyOp" =>
        /\ ~info[Src].invalid
        /\ (\E i \in DOMAIN m_apply_stack : ~m_apply_stack[i].recomp) \/ info[Dest].ptr # "null"

\* What TypeOK says of the fields of TensorInfo.
InfoOK ==
    /\ info \in [Tensors -> TensorInfo]
    /\ \A t \in Tensors : info[t].val = NoValue <=> info[t].ptr = "null"

\* What TypeOK says of the other variables.
RestOK ==
    /\ m_valid_handle \subseteq Tensors /\ alive \subseteq Tensors
    /\ wpc \in {"run", "flush", "notify", "crashed"}
    /\ held \in Values \cup {NoValue}
    /\ m_applying \in BOOLEAN /\ m_worker_exc \in BOOLEAN /\ asleep \in BOOLEAN
    /\ m_waitee \in Tensors \cup {None}
    /\ call \in [pc : {"idle", "enter", "add", "wait", "stop", "sync", "close"},
                 t : Tensors \cup {None}, prop : Props, regen : BOOLEAN]
    /\ m_status \in {"RUNING", "CLOSED"} /\ mode \in Modes
    /\ client_dtr \in BOOLEAN /\ worker_dtr \in BOOLEAN

\* The parts of TypeOK that a step of the client can disturb.
Kinds == InfoOK /\ queue \in Seq(Commands) /\ m_apply_stack \in Seq(EntryType)
=============================================================================
