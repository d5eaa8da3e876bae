------------------------------ MODULE Channel -------------------------------
(***************************************************************************)
(* The imperative interpreter's channel (ChannelImpl): one client thread   *)
(* hands commands on tensors to one worker thread and gets handles back    *)
(* before anything is computed.  Only get_value(), get_shape(),            *)
(* get_dev_tensor(), sync() and close() wait for the worker.               *)
(*                                                                         *)
(* Every public call holds the spinlock m_spin from entry to return, so at *)
(* most one is in progress and a single client thread stands for all of    *)
(* them.  A step of either thread is one critical section of m_mutex.  The *)
(* work queue is taken by its specification, TaskFifo: commands run in the *)
(* order they were added.                                                  *)
(*                                                                         *)
(* With the options that dtr.enable() sets, tensors can be evicted, by     *)
(* drop() or when memory is short, and are computed again when needed.  An *)
(* operator has one input and one output, so a ComputePath is known by its *)
(* output, its input is the field "producer" of that output, and ref_cnt   *)
(* is the number of the tensor's users.  Which tensor is evicted depends   *)
(* on sizes and times that are left out: any that is not pinned may be.    *)
(***************************************************************************)
EXTENDS Integers, Sequences, FiniteSets

CONSTANTS
    Tensors,        \* the TensorInfo objects of the pool
    None,           \* the null TensorInfo*
    Values,         \* what a tensor can hold
    NoValue,        \* an empty HostTensorND
    Compute(_),     \* the operator, on values
    Inputs,         \* the values the client puts
    Smalls,         \* whether tensors are small enough to be known on the host
    Modes,          \* how the channel is used, see mode below
    MaxQueue,       \* bound on the commands pending in the work queue
    MaxLeft         \* nothing throws while m_apply_stack holds so many old entries

ASSUME NoneAssumption == None \notin Tensors
ASSUME NoValueAssumption == NoValue \notin Values
ASSUME InputsAssumption == Inputs \subseteq Values
ASSUME SmallsAssumption == Smalls \subseteq BOOLEAN
ASSUME ComputeAssumption == \A v \in Values : Compute(v) \in Values

\* dtr: dtr.enable() has been called; disable: dtr.disable() may be called;
\* fail: Put and the first run of an operator can throw; level: async_level.
\* dtr.disable() after an operator has thrown is left out.
ASSUME ModesAssumption ==
    Modes \subseteq {m \in [dtr : BOOLEAN, disable : BOOLEAN, fail : BOOLEAN, level : 0 .. 2] :
                       ~(m.disable /\ m.fail)}

TensorInfo ==
    [ptr : {"null",         \* no Tensor
            "dev",          \* a Tensor without a host value
            "fetched",      \* with a host value copied from the device
            "const"},       \* with a host value since its construction
     val : Values \cup {NoValue},       \* the value behind ptr
     invalid : BOOLEAN,
     evicted : BOOLEAN,                 \* evict_type = DROP
     allow_delete : BOOLEAN,
     producer : Tensors \cup {None},    \* input of the ComputePath it comes from
     shape : BOOLEAN,                   \* desc.layout.ndim # 0
     desc_value : BOOLEAN,              \* desc.value is known
     h_value : Values \cup {NoValue},
     want : Values \cup {NoValue}]      \* what a synchronous interpreter computes

NewInfo ==
    [ptr |-> "null", val |-> NoValue, invalid |-> FALSE, evicted |-> FALSE,
     allow_delete |-> FALSE, producer |-> None, shape |-> FALSE, desc_value |-> FALSE,
     h_value |-> NoValue, want |-> NoValue]

Commands ==
    [op : {"Put", "ApplyOp", "Del", "Drop", "GetValue", "StartRegen", "StopRegen",
           "SetOption"},
     dest : Tensors \cup {None}, src : Tensors \cup {None}, v : Values \cup {NoValue}]

\* the TensorProp a call waits for
Props == {"HostValue", "Shape", "DevValue"}

VARIABLES
    info,                   \* the fields of each TensorInfo
    alive,                  \* TensorInfo objects taken from m_pool
    m_valid_handle,         \* handles the client may use
    call,                   \* the client's call in progress
    m_status, mode,
    client_dtr, worker_dtr, \* the DTR options of the two threads
    queue,                  \* the commands, the one being processed first
    wpc,                    \* where the worker is in process_one_task()
    m_apply_stack, m_applying,
    held,                   \* the input that do_apply_op() has a reference to
    m_waitee, m_worker_exc,
    asleep                  \* the client is blocked in m_cv.wait()

handleVars == <<alive, m_valid_handle>>
optionVars == <<m_status, mode, client_dtr, worker_dtr>>
stackVars == <<m_apply_stack, m_applying, held>>
workerVars == <<wpc, stackVars>>
waitVars == <<m_waitee, m_worker_exc, asleep>>
vars == <<info, handleVars, call, optionVars, queue, workerVars, waitVars>>

Idle == [pc |-> "idle", t |-> None, prop |-> "Shape", regen |-> FALSE]

Init ==
    /\ info = [t \in Tensors |-> NewInfo]
    /\ alive = {} /\ m_valid_handle = {}
    /\ call = Idle /\ m_status = "RUNING"
    /\ mode \in Modes /\ client_dtr = mode.dtr /\ worker_dtr = mode.dtr
    /\ queue = <<>> /\ wpc = "run"
    /\ m_apply_stack = <<>> /\ m_applying = FALSE /\ held = NoValue
    /\ m_waitee = None /\ m_worker_exc = FALSE /\ asleep = FALSE

-----------------------------------------------------------------------------
(* The client thread.                                                      *)

Command(op, dest, src, v) == [op |-> op, dest |-> dest, src |-> src, v |-> v]

\* m_worker.add_task()
AddTask(cmd) ==
    /\ Len(queue) < MaxQueue
    /\ queue' = Append(queue, cmd)

\* entry of a public call: m_spin is free and the channel is open
Enter == call = Idle /\ m_status = "RUNING"

\* alloc() and init(): a TensorInfo from the pool with what is known of it
NewTensor(t, fields) ==
    /\ t \notin alive
    /\ alive' = alive \cup {t}
    /\ m_valid_handle' = m_valid_handle \cup {t}
    /\ info' = [info EXCEPT ![t] = fields]

\* put_impl(HostTensorND): a small value is kept in h_value and desc as well
PutImpl(t, v, wanted, small) ==
    /\ NewTensor(t, [NewInfo EXCEPT !.shape = TRUE, !.want = wanted, !.desc_value = small,
                                    !.h_value = IF small THEN v ELSE NoValue])
    /\ AddTask(Command("Put", t, None, v))
    /\ call' = IF mode.level = 0 THEN [Idle EXCEPT !.pc = "sync"] ELSE Idle
    /\ UNCHANGED <<optionVars, workerVars, waitVars>>

Put(t, v, small) == Enter /\ PutImpl(t, v, v, small)

\* put(DeviceTensorND, HostTensorND): produced at once, by the client
PutDevice(t, v, small) ==
    /\ Enter
    /\ NewTensor(t, [NewInfo EXCEPT !.shape = TRUE, !.want = v, !.desc_value = small,
                                    !.val = v, !.ptr = IF small THEN "const" ELSE "dev"])
    /\ UNCHANGED <<call, optionVars, queue, workerVars, waitVars>>

\* apply_op(GetVarShape) on a known shape: the answer is put from the host
GetVarShape(s, t, v) ==
    /\ Enter /\ TRUE \in Smalls
    /\ s \in m_valid_handle /\ info[s].shape
    /\ PutImpl(t, v, v, TRUE)

\* what dispatch_default_cpu() can read: try_get_value() refuses a value whose
\* copy from the device has not finished
HostValues(s) ==
    (IF info[s].ptr = "const" THEN {info[s].val} ELSE {info[s].h_value})
        \cup (IF info[s].ptr = "fetched" THEN {info[s].val} ELSE {})

\* dispatch_default_cpu(): the client computes the operator from host values
DispatchDefaultCpu(s, t) ==
    /\ Enter
    /\ s \in m_valid_handle /\ ~info[s].invalid /\ info[s].desc_value
    /\ \E v \in HostValues(s) \ {NoValue} :
          PutImpl(t, Compute(v), Compute(info[s].want), TRUE)

\* Mutant: the host value of the input is taken for the output's.
OutputHValue_Input(s, known) == IF known = "value" THEN info[s].want ELSE NoValue

\* "make sure desc's value is consistent with h_value"
OutputHValue(s, known) == IF known = "value" THEN Compute(info[s].want) ELSE NoValue

\* dispatch_kernel(): shape inference may or may not find the output's shape,
\* and its value; an output with unknown shape is not validated
DispatchKernel(s, t, known) ==
    /\ Enter
    /\ s \in m_valid_handle /\ ~info[s].invalid
    /\ known # "nothing" => info[s].shape
    /\ known = "value" => TRUE \in Smalls
    /\ NewTensor(t, [NewInfo EXCEPT !.shape = known # "nothing",
                                    !.desc_value = known = "value",
                                    !.h_value = OutputHValue(s, known),
                                    !.want = Compute(info[s].want)])
    /\ AddTask(Command("ApplyOp", t, s, NoValue))
    /\ call' = IF mode.level = 0 \/ (mode.level = 1 /\ known = "nothing")
               THEN [Idle EXCEPT !.pc = "sync"] ELSE Idle
    /\ UNCHANGED <<optionVars, workerVars, waitVars>>

\* Mutant: the handle stays valid.
DelImpl_KeepsHandle(t) ==
    /\ AddTask(Command("Del", t, None, NoValue))
    /\ UNCHANGED <<info, handleVars, optionVars, workerVars, waitVars>>

\* del_impl()
DelImpl(t) ==
    /\ m_valid_handle' = m_valid_handle \ {t}
    /\ AddTask(Command("Del", t, None, NoValue))
    /\ UNCHANGED <<info, alive, optionVars, workerVars, waitVars>>

Del(t) == Enter /\ t \in m_valid_handle /\ DelImpl(t) /\ UNCHANGED call

Drop(t) ==
    /\ Enter /\ client_dtr
    /\ t \in m_valid_handle
    /\ AddTask(Command("Drop", t, None, NoValue))
    /\ UNCHANGED <<info, handleVars, call, optionVars, workerVars, waitVars>>

\* set_option() as dtr.disable() calls it, for its three options together
SetOption ==
    /\ Enter /\ client_dtr /\ mode.disable
    /\ client_dtr' = FALSE
    /\ AddTask(Command("SetOption", None, None, NoValue))
    /\ UNCHANGED <<info, handleVars, call, m_status, mode, worker_dtr, workerVars, waitVars>>

Available(t, prop) ==
    info[t].ptr \in IF prop = "HostValue" THEN {"fetched", "const"}
                                          ELSE {"dev", "fetched", "const"}

\* get_value(), get_shape() and get_dev_tensor() up to wait_tensor(): what they
\* look at is read without m_mutex
EnterWait(t, prop) ==
    /\ Enter
    /\ t \in m_valid_handle
    /\ prop = "HostValue" => ~info[t].invalid
    /\ prop = "Shape" => ~info[t].shape
    /\ call' = [pc |-> "enter", t |-> t, prop |-> prop, regen |-> FALSE]
    /\ UNCHANGED <<info, handleVars, optionVars, queue, workerVars, waitVars>>

\* check_worker_exc_unsafe() throws: the call ends with AsyncError
ThrowAsyncError ==
    /\ m_worker_exc
    /\ m_worker_exc' = FALSE /\ m_waitee' = None
    /\ call' = Idle

\* one round of m_cv.wait() with its predicate
WaitRound ==
    \/ ThrowAsyncError /\ UNCHANGED asleep
    \/ /\ ~m_worker_exc /\ Available(call.t, call.prop)
       /\ m_waitee' = None
       /\ call' = IF call.regen THEN [call EXCEPT !.pc = "stop"] ELSE Idle
       /\ UNCHANGED <<asleep, m_worker_exc>>
    \/ /\ ~m_worker_exc /\ ~Available(call.t, call.prop)
       /\ asleep' = TRUE
       /\ m_waitee' = call.t
       /\ call' = [call EXCEPT !.pc = "wait"]
       /\ UNCHANGED m_worker_exc

\* wait_tensor() up to its first unlock: the client says what it waits for
\* before it asks the worker for it
WaitBegin ==
    /\ call.pc = "enter"
    /\ m_waitee = None
    /\ IF call.prop # "Shape" /\ ~Available(call.t, call.prop)
       THEN /\ m_waitee' = call.t
            /\ call' = [call EXCEPT !.pc = "add"]
            /\ UNCHANGED <<asleep, m_worker_exc>>
       ELSE WaitRound
    /\ UNCHANGED <<info, handleVars, optionVars, queue, workerVars>>

\* wait_tensor(): the command that makes the property available is added with
\* m_mutex released
WaitAdd ==
    /\ call.pc = "add"
    /\ AddTask(Command(IF call.prop = "HostValue" THEN "GetValue" ELSE "StartRegen",
                       call.t, None, NoValue))
    /\ call' = [call EXCEPT !.pc = "wait", !.regen = call.prop = "DevValue"]
    /\ UNCHANGED <<info, handleVars, optionVars, workerVars, waitVars>>

WaitCheck ==
    /\ call.pc = "wait" /\ ~asleep
    /\ WaitRound
    /\ UNCHANGED <<info, handleVars, optionVars, queue, workerVars>>

SpuriousWakeup ==
    /\ asleep /\ asleep' = FALSE
    /\ UNCHANGED <<info, handleVars, call, optionVars, queue, workerVars, m_waitee,
                   m_worker_exc>>

\* wait_tensor(): the tensor is unpinned again after a wait for DevValue
WaitStop ==
    /\ call.pc = "stop"
    /\ AddTask(Command("StopRegen", call.t, None, NoValue))
    /\ call' = Idle
    /\ UNCHANGED <<info, handleVars, optionVars, workerVars, waitVars>>

Sync ==
    /\ Enter
    /\ call' = [Idle EXCEPT !.pc = "sync"]
    /\ UNCHANGED <<info, handleVars, optionVars, queue, workerVars, waitVars>>

Close ==
    /\ Enter
    /\ call' = [Idle EXCEPT !.pc = "close"]
    /\ UNCHANGED <<info, handleVars, optionVars, queue, workerVars, waitVars>>

\* close() deletes the handles the client still has, in any order
CloseDel(t) == call.pc = "close" /\ t \in m_valid_handle /\ DelImpl(t) /\ UNCHANGED call

\* sync_impl() after wait_all_task_finish(); close() ends in it too
SyncImpl ==
    /\ call.pc = "sync" \/ (call.pc = "close" /\ m_valid_handle = {})
    /\ queue = <<>>
    /\ \/ ThrowAsyncError /\ UNCHANGED m_status
       \/ /\ ~m_worker_exc
          /\ call' = Idle
          /\ m_status' = IF call.pc = "close" THEN "CLOSED" ELSE m_status
          /\ UNCHANGED <<m_worker_exc, m_waitee>>
    /\ UNCHANGED <<info, handleVars, mode, client_dtr, worker_dtr, queue, workerVars, asleep>>

-----------------------------------------------------------------------------
(* The worker thread.                                                      *)

Dest == Head(queue).dest
Src == Head(queue).src
Processing(op) == wpc = "run" /\ queue # <<>> /\ Head(queue).op = op

\* the command has been processed
Done == queue' = Tail(queue) /\ wpc' = "run"

\* Mutant: nobody is woken.
NotifyTensor_Never(t) == asleep' = asleep

\* notify_tensor_unsafe()
NotifyTensor(t) == asleep' = (asleep /\ t # m_waitee)

\* produce_tensor(): the fields of a tensor that gets a value
Produced(fields, pointer, v) ==
    [fields EXCEPT !.ptr = pointer, !.val = v, !.shape = TRUE, !.evicted = FALSE]

\* the catch block of process_one_task()
Catch ==
    /\ info' = [info EXCEPT ![Dest].invalid = @ \/ Head(queue).op \in {"Put", "ApplyOp"}]
    /\ m_worker_exc' = TRUE
    /\ NotifyTensor(m_waitee)
    /\ Done
    /\ UNCHANGED <<handleVars, call, optionVars, m_waitee>>

PutValue(cmd) == cmd.v

DoPut ==
    /\ Processing("Put")
    /\ info' = [info EXCEPT ![Dest] =
                   Produced(@, IF @.h_value = NoValue THEN "dev" ELSE "const",
                            PutValue(Head(queue)))]
    /\ NotifyTensor(Dest)
    /\ Done
    /\ UNCHANGED <<handleVars, call, optionVars, stackVars, m_waitee, m_worker_exc>>

DoPutFails ==
    /\ mode.fail /\ Len(m_apply_stack) < MaxLeft
    /\ Processing("Put") /\ Catch /\ UNCHANGED stackVars

\* Mutant: the output is not marked.
Poison_Forgotten(t) == info' = info

Poison(t) == info' = [info EXCEPT ![t].invalid = TRUE]

\* ApplyOp on an input that an earlier error made unusable
DoApplyInvalid ==
    /\ Processing("ApplyOp")
    /\ info[Src].invalid
    /\ Poison(Dest)
    /\ Done
    /\ UNCHANGED <<handleVars, call, optionVars, stackVars, waitVars>>

\* do_apply_op() begins with a reference to its input, which keeps the value
\* whatever is evicted until the operator has run
HoldInput(s) ==
    /\ held = NoValue /\ info[s].ptr # "null"
    /\ held' = info[s].val
    /\ UNCHANGED <<info, handleVars, call, optionVars, queue, wpc, m_apply_stack, m_applying,
                   waitVars>>

\* ApplyOp without DTR: do_apply_op() at once
DoApplyHold ==
    /\ Processing("ApplyOp") /\ ~worker_dtr
    /\ ~info[Src].invalid
    /\ HoldInput(Src)

\* the output is produced and no path is recorded
DoApplyOp ==
    /\ Processing("ApplyOp") /\ held # NoValue
    /\ info' = [info EXCEPT ![Dest] = Produced(@, "dev", Compute(held))]
    /\ held' = NoValue
    /\ NotifyTensor(Dest)
    /\ Done
    /\ UNCHANGED <<handleVars, call, optionVars, m_apply_stack, m_applying, m_waitee,
                   m_worker_exc>>

\* the operator throws, or do_apply_op() finds no "input tensor ptr"
DoApplyFails ==
    /\ Processing("ApplyOp") /\ ~worker_dtr
    /\ ~info[Src].invalid
    /\ IF held = NoValue THEN info[Src].ptr = "null" ELSE mode.fail
    /\ held' = NoValue
    /\ Catch /\ UNCHANGED <<m_apply_stack, m_applying>>

Entry(s, t, recomp) == [src |-> s, dest |-> t, idx |-> 0, recomp |-> recomp]

\* ApplyOp with DTR: the operator goes on the stack, which is flushed
DoApplyStack ==
    /\ Processing("ApplyOp") /\ worker_dtr
    /\ ~info[Src].invalid
    /\ m_apply_stack' = Append(m_apply_stack, Entry(Src, Dest, FALSE))
    /\ m_applying' = TRUE
    /\ wpc' = "flush"
    /\ UNCHANGED <<info, handleVars, call, optionVars, queue, held, waitVars>>

Missing(t) == info[t].ptr = "null" /\ info[t].evicted

Top == m_apply_stack[Len(m_apply_stack)]
Below == SubSeq(m_apply_stack, 1, Len(m_apply_stack) - 1)

\* an entry of the stack that names a TensorInfo freed in the meantime
Dangling(e) == None \in {e.src, e.dest}

\* flush_apply_stack(): an input of the top is missing; its path goes on top
FlushInput ==
    /\ wpc = "flush" /\ ~Dangling(Top) /\ held = NoValue
    /\ Top.idx = 0 /\ Missing(Top.src) /\ info[Top.src].producer # None
    /\ m_apply_stack' = Below \o <<[Top EXCEPT !.idx = 1],
                                   Entry(info[Top.src].producer, Top.src, TRUE)>>
    /\ UNCHANGED <<info, handleVars, call, optionVars, queue, wpc, m_applying, held, waitVars>>

\* the top of the stack is next for do_apply_op()
FlushHold ==
    /\ wpc = "flush" /\ ~Dangling(Top)
    /\ Top.idx = 1 \/ ~Missing(Top.src)
    /\ HoldInput(Top.src)

\* do_apply_op() leaves alone an output that is there already
Applied(e) ==
    IF info[e.dest].ptr # "null" THEN info
    ELSE [info EXCEPT ![e.dest] = Produced(@, "dev", Compute(held))]

\* flush_apply_stack(): the top is computed.  When the stack is empty an ApplyOp
\* records its path, unless its operator cannot be computed again or its output
\* is small, and any other command goes on.
FlushApply ==
    /\ wpc = "flush" /\ held # NoValue
    /\ m_apply_stack' = Below /\ held' = NoValue
    /\ m_applying' = (Below # <<>>)
    /\ NotifyTensor(IF info[Top.dest].ptr = "null" THEN Top.dest ELSE None)
    /\ IF Below = <<>> /\ Head(queue).op = "ApplyOp"
       THEN /\ \E p \in IF worker_dtr THEN {Src, None} ELSE {None} :
                  info' = [Applied(Top) EXCEPT ![Dest].producer = p]
            /\ Done
       ELSE /\ info' = Applied(Top)
            /\ wpc' = IF Below = <<>> THEN "run" ELSE "flush"
            /\ UNCHANGED queue
    /\ UNCHANGED <<handleVars, call, optionVars, m_waitee, m_worker_exc>>

\* the operator of the ApplyOp command throws: its entry has been popped, but
\* m_applying stays set
FlushFails ==
    /\ wpc = "flush" /\ held # NoValue /\ ~Top.recomp
    /\ mode.fail /\ Len(Below) < MaxLeft
    /\ m_apply_stack' = Below /\ held' = NoValue
    /\ Catch
    /\ UNCHANGED m_applying

\* TensorInfo::pinned: with DTR on, the inputs of the operators on the stack;
\* pins that an exception leaves behind are forgotten
Pinned == IF worker_dtr THEN {m_apply_stack[i].src : i \in DOMAIN m_apply_stack} ELSE {}

\* Mutant: a tensor without a computing path is dropped too.
CanDrop_Any(t) == ~info[t].evicted

CanDrop(t) == info[t].producer # None /\ ~info[t].evicted

\* do_drop() and release_tensor()
DoDrop(t) ==
    info' = IF CanDrop(t)
            THEN [info EXCEPT ![t].evicted = TRUE, ![t].ptr = "null", ![t].val = NoValue]
            ELSE info

\* auto_evict(), at the begin of do_apply_op() or when an output is allocated,
\* which evicts after dtr.disable() too
AutoEvict(t) ==
    /\ held # NoValue \/ Processing("Put")
    /\ t \in alive \ Pinned
    /\ CanDrop(t) /\ info[t].ptr # "null"
    /\ DoDrop(t)
    /\ UNCHANGED <<handleVars, call, optionVars, queue, workerVars, waitVars>>

\* Drop: not of an unusable tensor
DoUserDrop ==
    /\ Processing("Drop")
    /\ IF info[Dest].invalid THEN UNCHANGED info ELSE DoDrop(Dest)
    /\ Done
    /\ UNCHANGED <<handleVars, call, optionVars, stackVars, waitVars>>

DoSetOption ==
    /\ Processing("SetOption")
    /\ worker_dtr' = FALSE
    /\ Done
    /\ UNCHANGED <<info, handleVars, call, m_status, mode, client_dtr, stackVars, waitVars>>

\* Mutant: the check of "invalid" is missing.
NothingToDo_Stop == Processing("StopRegen")

NothingToDo ==
    \/ Processing("StopRegen")
    \/ (Processing("GetValue") \/ Processing("StartRegen")) /\ info[Dest].invalid

\* GetValue and StartRegen of an unusable tensor return without notifying
DoNothing ==
    /\ NothingToDo
    /\ Done
    /\ UNCHANGED <<info, handleVars, call, optionVars, stackVars, waitVars>>

\* regenerate() in a command: the stack is flushed unless m_applying is set
Regenerate(t) ==
    /\ info[t].producer # None /\ ~m_applying
    /\ m_apply_stack' = Append(m_apply_stack, Entry(info[t].producer, t, TRUE))
    /\ m_applying' = TRUE
    /\ wpc' = "flush"

\* GetValue or StartRegen of an evicted tensor
DoRegenerate ==
    /\ Processing("GetValue") \/ Processing("StartRegen")
    /\ ~info[Dest].invalid /\ Missing(Dest)
    /\ Regenerate(Dest)
    /\ UNCHANGED <<info, handleVars, call, optionVars, queue, held, waitVars>>

\* GetValue: fetch_value() runs without m_mutex, the notification comes later
DoFetchValue ==
    /\ Processing("GetValue")
    /\ ~info[Dest].invalid /\ info[Dest].ptr # "null"
    /\ info' = [info EXCEPT ![Dest].ptr = IF @ = "dev" THEN "fetched" ELSE @]
    /\ wpc' = "notify"
    /\ UNCHANGED <<handleVars, call, optionVars, queue, stackVars, waitVars>>

\* the end of GetValue and of StartRegen
DoNotify ==
    /\ \/ wpc = "notify"
       \/ Processing("StartRegen") /\ ~info[Dest].invalid /\ ~Missing(Dest)
    /\ NotifyTensor(Dest)
    /\ Done
    /\ UNCHANGED <<info, handleVars, call, optionVars, stackVars, m_waitee, m_worker_exc>>

\* StartRegen after an operator threw: m_applying is still set, so the path goes
\* on the stack but is not computed
DoStartRegenBusy ==
    /\ Processing("StartRegen")
    /\ ~info[Dest].invalid /\ Missing(Dest) /\ m_applying
    /\ m_apply_stack' = Append(m_apply_stack, Entry(info[Dest].producer, Dest, TRUE))
    /\ NotifyTensor(Dest)
    /\ Done
    /\ UNCHANGED <<info, handleVars, call, optionVars, m_applying, held, m_waitee,
                   m_worker_exc>>

\* The worker uses a null or a dangling pointer and the program ends: GetValue
\* of a tensor that regenerate() did not compute as m_applying was still set, or
\* an entry that DoStartRegenBusy left on the stack
Crash ==
    /\ \/ Processing("GetValue") /\ ~info[Dest].invalid /\ Missing(Dest) /\ m_applying
       \/ wpc = "flush" /\ Dangling(Top)
    /\ wpc' = "crashed"
    /\ UNCHANGED <<info, handleVars, call, optionVars, queue, stackVars, waitVars>>

\* Mutant: nothing is kept for the users of a tensor.
Users_None(t) == {}

\* tensors computed from t by a recorded path
Users(t) == {u \in alive : info[u].producer = t}

\* free() with DTR of a tensor with users: it is evicted and stays until the
\* last of them is freed
DoFreeLater ==
    /\ Processing("Del") /\ worker_dtr /\ Users(Dest) # {}
    /\ info' = [info EXCEPT ![Dest].allow_delete = TRUE,
                            ![Dest].evicted = @ \/ CanDrop(Dest),
                            ![Dest].ptr = IF CanDrop(Dest) THEN "null" ELSE @,
                            ![Dest].val = IF CanDrop(Dest) THEN NoValue ELSE @]
    /\ Done
    /\ UNCHANGED <<handleVars, call, optionVars, stackVars, waitVars>>

\* detach_users() after DTR was disabled: a user's output that is evicted is
\* computed while its input still exists
DoDetachRegenerate(u) ==
    /\ Processing("Del") /\ ~worker_dtr /\ u \in Users(Dest)
    /\ info[u].evicted /\ Regenerate(u)
    /\ UNCHANGED <<info, handleVars, call, optionVars, queue, held, waitVars>>

DoDetach(u) ==
    /\ Processing("Del") /\ ~worker_dtr /\ u \in Users(Dest)
    /\ ~info[u].evicted
    /\ info' = [info EXCEPT ![u].producer = None]
    /\ UNCHANGED <<handleVars, call, optionVars, queue, workerVars, waitVars>>

\* the input that recursive_free() frees after t
FreedNext(t) ==
    {s \in alive : worker_dtr /\ info[t].producer = s /\ info[s].allow_delete
                        /\ Users(s) = {t}}

\* recursive_free() and real_free(): the TensorInfo goes back to the pool, from
\* which it comes back newly constructed; recursive_free() goes on with the input
\* that is not needed any more, as a Del of it would
DoFree ==
    /\ Processing("Del") /\ Users(Dest) = {}
    /\ alive' = alive \ {Dest}
    /\ info' = [info EXCEPT ![Dest] = NewInfo]
    /\ m_apply_stack' = [i \in DOMAIN m_apply_stack |->
                            IF Dest \in {m_apply_stack[i].src, m_apply_stack[i].dest}
                            THEN [m_apply_stack[i] EXCEPT !.dest = None]
                            ELSE m_apply_stack[i]]
    /\ IF FreedNext(Dest) = {} THEN Done
       ELSE /\ \E s \in FreedNext(Dest) : queue' = [queue EXCEPT ![1].dest = s]
            /\ UNCHANGED wpc
    /\ UNCHANGED <<m_valid_handle, call, optionVars, m_applying, held, waitVars>>

-----------------------------------------------------------------------------
Calls ==
    \/ \E t \in Tensors, v \in Inputs, b \in Smalls : Put(t, v, b) \/ PutDevice(t, v, b)
    \/ \E s, t \in Tensors, v \in Inputs : GetVarShape(s, t, v)
    \/ \E s, t \in Tensors : DispatchDefaultCpu(s, t)
    \/ \E s, t \in Tensors, known \in {"nothing", "shape", "value"} :
          DispatchKernel(s, t, known)
    \/ \E t \in Tensors : Del(t) \/ Drop(t)
    \/ \E t \in Tensors, prop \in Props : EnterWait(t, prop)
    \/ SetOption \/ Sync \/ Close

\* the rest of a call once it has begun
Continue ==
    /\ wpc # "crashed"
    /\ \/ WaitBegin \/ WaitAdd \/ WaitCheck \/ WaitStop \/ SyncImpl
       \/ \E t \in Tensors : CloseDel(t)

WorkerStep ==
    \/ DoPut \/ DoPutFails
    \/ DoApplyInvalid \/ DoApplyHold \/ DoApplyOp \/ DoApplyFails \/ DoApplyStack
    \/ FlushInput \/ FlushHold \/ FlushApply \/ FlushFails
    \/ \E t \in Tensors : AutoEvict(t)
    \/ DoUserDrop \/ DoSetOption
    \/ DoNothing \/ DoRegenerate \/ DoFetchValue \/ DoNotify \/ DoStartRegenBusy \/ Crash
    \/ DoFreeLater \/ \E u \in Tensors : DoDetachRegenerate(u) \/ DoDetach(u)
    \/ DoFree

\* the program ends
Ended == (m_status = "CLOSED" \/ wpc = "crashed") /\ UNCHANGED vars

Next == (wpc # "crashed" /\ Calls) \/ Continue \/ WorkerStep \/ SpuriousWakeup \/ Ended

Spec == Init /\ [][Next]_vars

\* both threads run whenever they can
FairSpec == Spec /\ WF_vars(Continue) /\ WF_vars(WorkerStep)
-----------------------------------------------------------------------------
(* Properties.                                                             *)

\* Every field of ChannelImpl and TensorInfo keeps its type, and ptr is null
\* exactly when there is no value behind it.
TypeOK ==
    /\ info \in [Tensors -> TensorInfo]
    /\ \A t \in Tensors : info[t].val = NoValue <=> info[t].ptr = "null"
    /\ m_valid_handle \subseteq Tensors /\ alive \subseteq Tensors
    /\ queue \in Seq(Commands) /\ wpc \in {"run", "flush", "notify", "crashed"}
    /\ m_apply_stack \in Seq([src : Tensors, dest : Tensors \cup {None}, idx : 0 .. 1,
                              recomp : BOOLEAN])
    /\ held \in Values \cup {NoValue}
    /\ m_applying \in BOOLEAN /\ m_worker_exc \in BOOLEAN /\ asleep \in BOOLEAN
    /\ m_waitee \in Tensors \cup {None}
    /\ call \in [pc : {"idle", "enter", "add", "wait", "stop", "sync", "close"},
                 t : Tensors \cup {None}, prop : Props, regen : BOOLEAN]
    /\ m_status \in {"RUNING", "CLOSED"} /\ mode \in Modes
    /\ client_dtr \in BOOLEAN /\ worker_dtr \in BOOLEAN

QueuedDel == {queue[i].dest : i \in {j \in DOMAIN queue : queue[j].op = "Del"}}
Kept == {t \in alive : info[t].allow_delete}

\* A TensorInfo goes back to the pool (real_free) exactly once, when nothing
\* refers to it any more: no queued command, no call in progress and no recorded
\* path names a freed one.  With DTR on, a deleted tensor is kept exactly as
\* long as another one may have to be computed from it.
PoolSafe ==
    /\ \A i \in DOMAIN queue :
          /\ queue[i].op # "SetOption" => queue[i].dest \in alive
          /\ queue[i].op = "ApplyOp" => queue[i].src \in alive
    /\ call.t # None => call.t \in alive
    /\ \A t \in alive : info[t].producer \in alive \cup {None}
    /\ alive = m_valid_handle \cup QueuedDel \cup Kept
    /\ m_valid_handle \cap (QueuedDel \cup Kept) = {}
    /\ worker_dtr => \A t \in Kept \ QueuedDel : Users(t) # {}

\* Asynchronous execution, host computation, eviction and recomputation together
\* give each tensor the value that executing every call at once would.
ValueCorrect ==
    \A t \in alive :
        /\ info[t].ptr # "null" => info[t].val = info[t].want
        /\ info[t].h_value \in {info[t].want, NoValue}

PendingOutput(t) ==
    \E i \in DOMAIN queue : queue[i].op \in {"Put", "ApplyOp"} /\ queue[i].dest = t

\* Once the command that makes a tensor has been processed, the tensor has a
\* value, can be computed again from a recorded path, or is marked unusable.
\* This is what GetValue relies on when it dereferences ptr after regenerate(),
\* and apply_op() at async_level 0 when it dereferences ptr after sync_impl().
ResultOrError ==
    \A t \in alive :
        \/ PendingOutput(t) \/ info[t].invalid \/ info[t].ptr # "null"
        \/ info[t].evicted /\ info[t].producer # None

\* The assertion "Invalid input tensor ptr!" of do_apply_op() never fails when
\* the operator is run without the stack.
ApplyInputInMemory ==
    Processing("ApplyOp") /\ ~worker_dtr /\ ~info[Src].invalid /\ held = NoValue =>
        info[Src].ptr # "null"

\* "We assign h_value before drop ptr": the assertion of dispatch_default_cpu()
\* never fails, whatever was evicted in the meantime.
HostComputeReady ==
    \A t \in m_valid_handle :
        info[t].desc_value => info[t].h_value # NoValue \/ info[t].ptr = "const"

\* The client never sleeps on a result or an error that is already there,
\* unless the worker is about to notify it.
NoLostNotify ==
    asleep => /\ ~m_worker_exc
              /\ Available(call.t, call.prop) => wpc = "notify" /\ Dest = m_waitee

\* "for reuse interpreter_for_py after some exception tests": after an AsyncError
\* the channel goes on working, the worker uses no null or dangling pointer.
UsableAfterError == wpc # "crashed"

\* the client is in wait_tensor()
Waiting == call.pc \in {"enter", "add", "wait", "stop"}

\* an operator that threw under DTR has left m_applying set
LeftApplying == m_applying /\ wpc # "flush"

\* A wait ends, whatever is evicted, fails or is deleted meanwhile, except of a
\* tensor that is unusable (GetValue and StartRegen return early), or that is
\* evicted and will not be computed: get_shape() does not ask for it, and after an
\* operator threw under DTR, m_applying stays set and regenerate() only pushes.
WaitsEnd ==
    Waiting ~> \/ ~Waiting \/ wpc = "crashed" \/ info[call.t].invalid
               \/ info[call.t].evicted /\ (call.prop = "Shape" \/ LeftApplying)

\* sync() and close() return, and so does every call that waits for them, unless
\* the program ends first.
SyncReturns == (call.pc \in {"sync", "close"}) ~> (call.pc = "idle" \/ wpc = "crashed")

\* get_value() answers or throws, as its check of "invalid" intends: "tensor is
\* unusable due to previous error".
GetValueReturns ==
    (call.pc = "wait" /\ call.prop = "HostValue") ~> (call.pc = "idle")
=============================================================================
