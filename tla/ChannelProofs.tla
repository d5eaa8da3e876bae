---------------------------- MODULE ChannelProofs ---------------------------
(***************************************************************************)
(* The safety properties of the channel hold for every value of its        *)
(* constants. The calls of the client keep its inductive invariant, and so *)
(* does the protocol by which it waits for the worker: one lemma per call, *)
(* and for the waiting client one for the steps of either thread. The      *)
(* steps of the worker keep the types; with the lemmas of ChannelLemmas    *)
(* and ChannelCommands on the worker's steps the inductive invariant       *)
(* follows, and from it each property.                                     *)
(***************************************************************************)
EXTENDS ChannelCommands

USE ZenonT(20) DEF Core, QueueCore, ValueCore, StackCore

-----------------------------------------------------------------------------
(* A tensor, or a command, is added.                                       *)

\* put() and apply_op(): a new tensor, and the command that will make it at the
\* end of the queue.
LEMMA NewOutput ==
    ASSUME TypeOK, Core, wpc # "crashed",
           NEW t \in Tensors, NEW f \in TensorInfo, NEW c \in Commands,
           t \notin alive, alive' = alive \cup {t}, m_valid_handle' = m_valid_handle \cup {t},
           info' = [info EXCEPT ![t] = f], queue' = Append(queue, c),
           c.op \in Outputs, c.dest = t,
           c.op = "Put" => c.src = None /\ c.v = f.want,
           c.op = "ApplyOp" => c.src \in m_valid_handle /\ f.want = Compute(info[c.src].want),
           f.ptr = "null", f.producer = None, ~f.evicted, ~f.allow_delete, f.want \in Values,
           f.h_value \in {f.want, NoValue}, f.desc_value => f.h_value # NoValue,
           UNCHANGED <<wpc, m_apply_stack, m_applying, worker_dtr>>
    PROVE  Core'
<1> DEFINE n == Len(queue) + 1
<1>1. /\ alive \subseteq Tensors /\ m_valid_handle \subseteq alive /\ None \notin Tensors
      /\ QueuedDel \cup Kept \subseteq alive
  BY Basics
<1>2. /\ DOMAIN queue' = DOMAIN queue \cup {n} /\ n \notin DOMAIN queue
      /\ \A i \in DOMAIN queue : queue'[i] = queue[i] /\ i < n
      /\ queue'[n] = c /\ queue' # <<>>
      /\ queue # <<>> => Head(queue') = Head(queue)
  BY AppendFacts, SMT DEF TypeOK
<1>3. info'[t] = f /\ \A x \in Tensors : x # t => info'[x] = info[x]
  BY DEF TypeOK
<1>4. /\ \A x : PendingOutput(x)' <=> PendingOutput(x) \/ x = t
      /\ ~PendingOutput(t)
  BY <1>1, <1>2, SMT DEF PendingOutput, CommandInv, Names, Outputs
<1>5. \A x \in alive : Users(x)' = Users(x)
  BY <1>1, <1>3, SMT DEF Users
<1>6. QueuedDel' = QueuedDel /\ Kept' = Kept
  BY <1>1, <1>2, <1>3, SMT DEF QueuedDel, Kept, Outputs
<1>7. CommandInv'
  BY <1>1, <1>2, SMT DEF CommandInv, Names, Outputs
<1>8. OutputInv'
  BY <1>1, <1>2, <1>3, SMT DEF CommandInv, OutputInv, Names, Outputs
<1>9. DelInv'
  BY <1>1, <1>2, SMT DEF CommandInv, DelInv, Names, Outputs
<1>10. KeptInv'
  BY <1>1, <1>2, <1>3, <1>5, SMT DEF CommandInv, KeptInv, Names, Outputs
<1>11. HandleInv'
  BY <1>1, <1>5, <1>6 DEF HandleInv
<1>12. PathInv'
  BY <1>1, <1>3, <1>4, SMT DEF PathInv
<1>13. HostInv'
  BY <1>1, <1>3, <1>4, SMT DEF HostInv
<1>14. EntryInv'
  BY <1>1, <1>3, <1>4, SMT DEF EntryInv, EntryOK, Dangling
<1>15. StackInv'
  BY <1>1, <1>2, <1>3, TailFacts, SMT DEF TypeOK, StackInv, EntryInv, EntryOK, CommandInv, Dangling,
     Dest, Src, Names
<1>16. ValueCorrect' /\ ResultOrError'
  BY <1>1, <1>3, <1>4, SMT DEF ValueCorrect, ResultOrError
<1> QED
  BY <1>7, <1>8, <1>9, <1>10, <1>11, <1>12, <1>13, <1>14, <1>15, <1>16

\* put() of a device tensor: a new tensor that has its value.
LEMMA NewDevice ==
    ASSUME TypeOK, Core, wpc # "crashed",
           NEW t \in Tensors, NEW f \in TensorInfo,
           t \notin alive, alive' = alive \cup {t}, m_valid_handle' = m_valid_handle \cup {t},
           info' = [info EXCEPT ![t] = f],
           f.ptr # "null", f.producer = None, ~f.evicted, ~f.allow_delete,
           f.want \in Values, f.val = f.want, f.h_value = NoValue, f.desc_value => f.ptr = "const",
           UNCHANGED <<queue, wpc, m_apply_stack, m_applying, worker_dtr>>
    PROVE  Core'
<1>1. /\ alive \subseteq Tensors /\ m_valid_handle \subseteq alive /\ None \notin Tensors
      /\ QueuedDel \cup Kept \subseteq alive
  BY Basics
<1>3. info'[t] = f /\ \A x \in Tensors : x # t => info'[x] = info[x]
  BY DEF TypeOK
<1>4. /\ \A x : PendingOutput(x)' <=> PendingOutput(x)
      /\ ~PendingOutput(t)
  BY <1>1 DEF PendingOutput, CommandInv, Names, Outputs
<1>5. \A x \in alive : Users(x)' = Users(x)
  BY <1>1, <1>3, SMT DEF Users
<1>6. QueuedDel' = QueuedDel /\ Kept' = Kept
  BY <1>1, <1>3, SMT DEF QueuedDel, Kept
<1>7. CommandInv' /\ DelInv'
  BY <1>1 DEF CommandInv, DelInv, Names
<1>8. OutputInv'
  BY <1>1, <1>3, SMT DEF CommandInv, OutputInv, Names, Outputs
<1>10. KeptInv'
  BY <1>1, <1>3, <1>5, SMT DEF CommandInv, KeptInv, Names
<1>11. HandleInv'
  BY <1>1, <1>5, <1>6 DEF HandleInv
<1>12. PathInv' /\ HostInv'
  BY <1>1, <1>3, <1>4, SMT DEF PathInv, HostInv
<1>14. EntryInv'
  BY <1>1, <1>3, <1>4, SMT DEF EntryInv, EntryOK, Dangling
<1>15. StackInv'
  BY <1>1, <1>3, TailFacts, SMT DEF TypeOK, StackInv, EntryInv, EntryOK, CommandInv, Dangling, Dest,
     Src, Names
<1>16. ValueCorrect' /\ ResultOrError'
  BY <1>1, <1>3, <1>4, SMT DEF ValueCorrect, ResultOrError
<1> QED
  BY <1>7, <1>8, <1>10, <1>11, <1>12, <1>14, <1>15, <1>16

\* Any other command, on a handle that stays valid or, for Del, is given up with
\* it: no later command can name the tensor.
LEMMA NewCommand ==
    ASSUME TypeOK, Core, wpc # "crashed", NEW c \in Commands,
           queue' = Append(queue, c),
           c.op \notin Outputs, c.src = None, c.dest = None <=> c.op = "SetOption",
           c.dest # None => c.dest \in m_valid_handle,
           m_valid_handle' = IF c.op = "Del" THEN m_valid_handle \ {c.dest} ELSE m_valid_handle,
           UNCHANGED <<info, alive, wpc, m_apply_stack, m_applying, worker_dtr>>
    PROVE  Core'
<1> DEFINE n == Len(queue) + 1
<1>1. /\ alive \subseteq Tensors /\ m_valid_handle \subseteq alive /\ None \notin Tensors
      /\ QueuedDel \cup Kept \subseteq alive
  BY Basics
<1>2. /\ DOMAIN queue' = DOMAIN queue \cup {n} /\ n \notin DOMAIN queue
      /\ \A i \in DOMAIN queue : queue'[i] = queue[i] /\ i < n
      /\ queue'[n] = c /\ queue' # <<>>
      /\ queue # <<>> => Head(queue') = Head(queue)
  BY AppendFacts, SMT DEF TypeOK
<1>4. \A x : PendingOutput(x)' <=> PendingOutput(x)
  BY <1>1, <1>2 DEF PendingOutput, Outputs
<1>5. \A x \in alive : Users(x)' = Users(x)
  BY DEF Users
<1>6. /\ QueuedDel' = IF c.op = "Del" THEN QueuedDel \cup {c.dest} ELSE QueuedDel
      /\ Kept' = Kept
  BY <1>1, <1>2, SMT DEF QueuedDel, Kept
<1>7. CommandInv'
  BY <1>1, <1>2, SMT DEF CommandInv, Names, Outputs
<1>8. OutputInv'
  BY <1>1, <1>2, SMT DEF CommandInv, OutputInv, Names, Outputs
<1>9. DelInv'
  BY <1>1, <1>2, SMT DEF CommandInv, DelInv, Names
<1>10. KeptInv'
  BY <1>1, <1>2, <1>5, SMT DEF CommandInv, KeptInv, Names
<1>11. HandleInv'
  <2>1. alive' = m_valid_handle' \cup QueuedDel' \cup Kept'
    BY <1>1, <1>6 DEF HandleInv, CommandInv
  <2>2. Kept' \ QueuedDel' \subseteq Kept \ QueuedDel
    BY <1>6
  <2> QED BY <1>1, <1>5, <2>1, <2>2 DEF HandleInv
<1>12. PathInv' /\ HostInv'
  BY <1>4 DEF PathInv, HostInv
<1>14. EntryInv'
  BY <1>4 DEF EntryInv, EntryOK, Dangling
<1>15. StackInv'
  BY <1>2, SMT DEF StackInv, EntryInv, EntryOK, Dangling, Dest, Src
<1>16. ValueCorrect' /\ ResultOrError'
  BY <1>4 DEF ValueCorrect, ResultOrError
<1> QED
  BY <1>7, <1>8, <1>9, <1>10, <1>11, <1>12, <1>14, <1>15, <1>16

\* A step that leaves what the invariant is about alone.
LEMMA CoreFrame ==
    ASSUME Core, UNCHANGED <<info, handleVars, queue, wpc, m_apply_stack, m_applying, worker_dtr>>
    PROVE  Core'
<1> USE DEF handleVars
<1>1. CommandInv' /\ OutputInv' /\ DelInv'
  BY DEF CommandInv, OutputInv, DelInv
<1>2. KeptInv' /\ HandleInv'
  BY SMT DEF KeptInv, HandleInv, Users, QueuedDel, Kept
<1>3. PathInv' /\ HostInv'
  BY SMT DEF PathInv, HostInv, PendingOutput
<1>4. ValueCorrect' /\ ResultOrError'
  BY DEF ValueCorrect, ResultOrError, PendingOutput
<1>5. EntryInv'
  BY DEF EntryInv, EntryOK, PendingOutput, Dangling
<1>6. StackInv'
  BY DEF StackInv, Dangling, Dest, Src
<1> QED BY <1>1, <1>2, <1>3, <1>4, <1>5, <1>6

\* A new tensor, with or without a command.
LEMMA NewTypes ==
    ASSUME TypeOK, NEW t \in Tensors, NEW f \in TensorInfo, f.val = NoValue <=> f.ptr = "null",
           info' = [info EXCEPT ![t] = f],
           queue' = queue \/ \E c \in Commands : queue' = Append(queue, c),
           m_apply_stack' = m_apply_stack
    PROVE  Kinds'
<1>1. InfoOK /\ queue \in Seq(Commands) /\ m_apply_stack \in Seq(EntryType)
  BY TypeParts
<1>2. InfoOK'
  BY <1>1, InfoUpdate
<1>3. queue' \in Seq(Commands)
  <2>1. ASSUME NEW c \in Commands, queue' = Append(queue, c) PROVE queue' \in Seq(Commands)
    BY <1>1, <2>1, AppendFacts
  <2> QED BY <1>1, <2>1
<1> QED BY <1>1, <1>2, <1>3 DEF Kinds

-----------------------------------------------------------------------------
(* The calls.                                                              *)

\* put_impl(): put() of a host value keeps the invariant.
LEMMA PutImplStep ==
    ASSUME TypeOK, Core, wpc # "crashed", NEW t \in Tensors, NEW v \in Values, NEW b \in BOOLEAN,
           PutImpl(t, v, v, b)
    PROVE  Core' /\ Kinds'
<1> DEFINE f == [NewInfo EXCEPT !.shape = TRUE, !.want = v, !.desc_value = b,
                                    !.h_value = IF b THEN v ELSE NoValue]
           c == Command("Put", t, None, v)
<1>1. /\ t \notin alive /\ alive' = alive \cup {t} /\ m_valid_handle' = m_valid_handle \cup {t}
      /\ info' = [info EXCEPT ![t] = f] /\ queue' = Append(queue, c)
      /\ UNCHANGED <<wpc, m_apply_stack, m_applying, worker_dtr>>
  BY DEF PutImpl, NewTensor, AddTask, optionVars, workerVars, stackVars
<1>2. /\ f \in TensorInfo /\ f.ptr = "null" /\ f.producer = None /\ ~f.evicted /\ ~f.allow_delete
      /\ f.want = v /\ f.h_value \in {f.want, NoValue} /\ f.desc_value = b
      /\ f.h_value = (IF b THEN v ELSE NoValue) /\ f.val = NoValue
  BY DEF NewInfo, TensorInfo
<1>3. c \in Commands /\ c.op = "Put" /\ c.dest = t /\ c.src = None /\ c.v = v
  BY DEF Command, Commands
<1> HIDE DEF f, c
<1>4. f.desc_value => f.h_value # NoValue
  BY <1>2, NoValueAssumption
<1>5. Core'
  BY <1>1, <1>2, <1>3, <1>4, NewOutput DEF Outputs
<1>6. Kinds'
  BY <1>1, <1>2, <1>3, NewTypes
<1> QED BY <1>5, <1>6

\* put() of a device tensor keeps the invariant.
LEMMA PutDeviceStep ==
    ASSUME TypeOK, Core, wpc # "crashed", NEW t \in Tensors, NEW v \in Inputs, NEW b \in Smalls,
           PutDevice(t, v, b)
    PROVE  Core' /\ Kinds'
<1> DEFINE f == [NewInfo EXCEPT !.shape = TRUE, !.want = v, !.desc_value = b,
                                    !.val = v, !.ptr = IF b THEN "const" ELSE "dev"]
<1>1. /\ t \notin alive /\ alive' = alive \cup {t} /\ m_valid_handle' = m_valid_handle \cup {t}
      /\ info' = [info EXCEPT ![t] = f]
      /\ UNCHANGED <<queue, wpc, m_apply_stack, m_applying, worker_dtr>>
  BY DEF PutDevice, NewTensor, optionVars, workerVars, stackVars
<1>2. v \in Values /\ b \in BOOLEAN
  BY InputsAssumption, SmallsAssumption
<1>3. /\ f \in TensorInfo /\ f.ptr = (IF b THEN "const" ELSE "dev") /\ f.producer = None
      /\ ~f.evicted /\ ~f.allow_delete
      /\ f.want = v /\ f.h_value = NoValue /\ f.desc_value = b /\ f.val = v
  BY <1>2 DEF NewInfo, TensorInfo
<1> HIDE DEF f
<1>4. f.ptr # "null" /\ (f.desc_value => f.ptr = "const") /\ f.want \in Values /\ v # NoValue
  BY <1>2, <1>3, NoValueAssumption
<1>5. Core'
  BY <1>1, <1>3, <1>4, NewDevice
<1>6. Kinds'
  BY <1>1, <1>3, <1>4, NewTypes
<1> QED BY <1>5, <1>6

\* dispatch_default_cpu() keeps the invariant: it computes from a correct value.
LEMMA CpuStep ==
    ASSUME TypeOK, Core, wpc # "crashed", NEW s \in Tensors, NEW t \in Tensors,
           DispatchDefaultCpu(s, t)
    PROVE  Core' /\ Kinds'
<1>1. PICK v \in HostValues(s) \ {NoValue} : PutImpl(t, Compute(v), Compute(info[s].want), TRUE)
  BY DEF DispatchDefaultCpu
<1>2. s \in alive
  BY Basics DEF DispatchDefaultCpu
<1>3. v = info[s].want
  BY <1>1, <1>2 DEF HostValues, ValueCorrect
<1>4. Compute(v) \in Values
  BY <1>2, <1>3, ComputeAssumption DEF PathInv
<1> QED BY <1>1, <1>3, <1>4, PutImplStep

\* dispatch_kernel() keeps the invariant.
LEMMA KernelStep ==
    ASSUME TypeOK, Core, wpc # "crashed", NEW s \in Tensors, NEW t \in Tensors,
           NEW known \in {"nothing", "shape", "value"}, DispatchKernel(s, t, known)
    PROVE  Core' /\ Kinds'
<1>1. s \in m_valid_handle /\ s \in alive
  BY Basics DEF DispatchKernel
<1>2. PICK w \in Values : w = Compute(info[s].want)
  BY <1>1, ComputeAssumption DEF PathInv
<1> DEFINE h == IF known = "value" THEN w ELSE NoValue
           f == [NewInfo EXCEPT !.shape = known # "nothing", !.desc_value = known = "value",
                                !.h_value = h, !.want = w]
           c == Command("ApplyOp", t, s, NoValue)
<1>3. /\ t \notin alive /\ alive' = alive \cup {t} /\ m_valid_handle' = m_valid_handle \cup {t}
      /\ info' = [info EXCEPT ![t] = f] /\ queue' = Append(queue, c)
      /\ UNCHANGED <<wpc, m_apply_stack, m_applying, worker_dtr>>
  BY <1>2 DEF DispatchKernel, OutputHValue, NewTensor, AddTask, optionVars, workerVars, stackVars
<1>4. /\ f \in TensorInfo /\ f.ptr = "null" /\ f.producer = None /\ ~f.evicted /\ ~f.allow_delete
      /\ f.want = w /\ f.h_value = h /\ f.desc_value = (known = "value") /\ f.val = NoValue
  BY DEF NewInfo, TensorInfo
<1>5. c \in Commands /\ c.op = "ApplyOp" /\ c.dest = t /\ c.src = s
  BY DEF Command, Commands
<1> HIDE DEF f, c
<1>6. f.h_value \in {f.want, NoValue} /\ (f.desc_value => f.h_value # NoValue)
  BY <1>4, NoValueAssumption
<1>7. Core'
  BY <1>1, <1>2, <1>3, <1>4, <1>5, <1>6, NewOutput DEF Outputs
<1>8. Kinds'
  BY <1>3, <1>4, <1>5, NewTypes
<1> QED BY <1>7, <1>8

\* A call that only adds a command keeps the invariant.
LEMMA AddStep ==
    ASSUME TypeOK, Core, wpc # "crashed", NEW op \in {"Del", "Drop", "GetValue", "StartRegen",
           "StopRegen"},
           NEW t \in m_valid_handle, AddTask(Command(op, t, None, NoValue)),
           m_valid_handle' = IF op = "Del" THEN m_valid_handle \ {t} ELSE m_valid_handle,
           UNCHANGED <<info, alive, wpc, m_apply_stack, m_applying, worker_dtr>>
    PROVE  Core' /\ Kinds'
<1> DEFINE c == Command(op, t, None, NoValue)
<1>1. t \in Tensors /\ t # None
  BY Basics
<1>2. c \in Commands /\ c.op = op /\ c.dest = t /\ c.src = None
  BY <1>1 DEF Command, Commands
<1>3. queue' = Append(queue, c)
  BY DEF AddTask
<1> HIDE DEF c
<1>4. Core'
  BY <1>1, <1>2, <1>3, NewCommand DEF Outputs
<1>5. Kinds'
  BY <1>2, <1>3, TypeParts, AppendFacts DEF Kinds, InfoOK
<1> QED BY <1>4, <1>5

\* set_option() keeps the invariant.
LEMMA OptionStep ==
    ASSUME TypeOK, Core, wpc # "crashed", SetOption
    PROVE  Core' /\ Kinds'
<1> DEFINE c == Command("SetOption", None, None, NoValue)
<1>1. c \in Commands /\ c.op = "SetOption" /\ c.dest = None /\ c.src = None
  BY DEF Command, Commands
<1>2. /\ queue' = Append(queue, c) /\ m_valid_handle' = m_valid_handle
      /\ UNCHANGED <<info, alive, wpc, m_apply_stack, m_applying, worker_dtr>>
  BY DEF SetOption, AddTask, handleVars, workerVars, stackVars
<1> HIDE DEF c
<1>3. Core'
  BY <1>1, <1>2, NewCommand DEF Outputs
<1>4. Kinds'
  BY <1>1, <1>2, TypeParts, AppendFacts DEF Kinds, InfoOK
<1> QED BY <1>3, <1>4

\* A step of a call that waits keeps the invariant.
LEMMA FrameStep ==
    ASSUME TypeOK, Core, UNCHANGED <<info, handleVars, queue, workerVars, worker_dtr>>
    PROVE  Core' /\ Kinds'
<1>1. Core'
  BY CoreFrame DEF workerVars, stackVars
<1>2. Kinds'
  BY TypeParts DEF Kinds, InfoOK, workerVars, stackVars
<1> QED BY <1>1, <1>2

\* The first step of every public call keeps the invariant.
LEMMA CallsStep ==
    ASSUME TypeOK, Core, wpc # "crashed", Calls
    PROVE  Core' /\ Kinds'
<1>1. ASSUME NEW t \in Tensors, NEW v \in Inputs, NEW b \in Smalls, Put(t, v, b) PROVE Core' /\ Kinds'
  BY <1>1, PutImplStep, InputsAssumption, SmallsAssumption DEF Put
<1>2. ASSUME NEW s \in Tensors, NEW t \in Tensors, NEW v \in Inputs, GetVarShape(s, t, v) PROVE Core' /\ Kinds'
  BY <1>2, PutImplStep, InputsAssumption DEF GetVarShape
<1>3. ASSUME NEW t \in Tensors, Del(t) PROVE Core' /\ Kinds'
  BY <1>3, AddStep DEF Del, DelImpl, optionVars, workerVars, stackVars
<1>4. ASSUME NEW t \in Tensors, Drop(t) PROVE Core' /\ Kinds'
  BY <1>4, AddStep DEF Drop, handleVars, optionVars, workerVars, stackVars
<1>5. CASE Sync \/ Close \/ \E t \in Tensors, prop \in Props : EnterWait(t, prop)
  BY <1>5, FrameStep DEF Sync, Close, EnterWait, optionVars
<1> QED BY <1>1, <1>2, <1>3, <1>4, <1>5, PutDeviceStep, CpuStep, KernelStep, OptionStep DEF Calls

\* The later steps of a call keep the invariant: wait_tensor() and close() add
\* commands on handles that are still valid.
LEMMA ContinueStep ==
    ASSUME TypeOK, Core, WaitInv, Continue
    PROVE  Core' /\ Kinds'
<1>1. ASSUME NEW t \in Tensors, CloseDel(t) PROVE Core' /\ Kinds'
  BY <1>1, AddStep DEF CloseDel, DelImpl, Continue, optionVars, workerVars, stackVars
<1>2. wpc # "crashed" /\ (call.pc \in {"add", "stop"} => call.t \in m_valid_handle)
  BY DEF Continue, WaitInv
<1>3. CASE WaitAdd
  <2>1. PICK t \in m_valid_handle, op \in {"GetValue", "StartRegen"} : AddTask(Command(op, t, None, NoValue))
    BY <1>2, <1>3 DEF WaitAdd
  <2> QED BY <1>2, <1>3, <2>1, AddStep DEF WaitAdd, handleVars, optionVars, workerVars, stackVars
<1>4. CASE WaitStop
  <2>1. PICK t \in m_valid_handle : AddTask(Command("StopRegen", t, None, NoValue))
    BY <1>2, <1>4 DEF WaitStop
  <2> QED BY <1>2, <1>4, <2>1, AddStep DEF WaitStop, handleVars, optionVars, workerVars, stackVars
<1>5. CASE WaitBegin \/ WaitCheck \/ SyncImpl
  BY <1>5, FrameStep DEF WaitBegin, WaitCheck, SyncImpl, optionVars
<1> QED BY <1>1, <1>3, <1>4, <1>5 DEF Continue

\* The client does not disturb the operator that runs: it adds commands at the
\* end of the queue, and what it makes is new.
LEMMA ClientHeld ==
    ASSUME TypeOK, Core, HeldInv, Calls \/ Continue \/ SpuriousWakeup
    PROVE  HeldInv'
<1> USE DEF Calls, Continue, SpuriousWakeup, Put, PutImpl, PutDevice, GetVarShape,
            DispatchDefaultCpu, DispatchKernel, Del, DelImpl, Drop, SetOption, EnterWait,
            WaitBegin, WaitAdd, WaitCheck, WaitStop, Sync, Close, CloseDel, SyncImpl
<1>1. UNCHANGED <<held, wpc, m_apply_stack, worker_dtr>>
  BY DEF optionVars, workerVars, stackVars
<1>2. queue' = queue \/ \E c : queue' = Append(queue, c)
  BY DEF AddTask
<1>3. info' = info \/ \E t \in Tensors : t \notin alive /\ \E f : info' = [info EXCEPT ![t] = f]
  BY DEF NewTensor
<1>4. queue # <<>> => queue' # <<>> /\ Head(queue') = Head(queue)
  <2>1. ASSUME NEW c, queue' = Append(queue, c), queue # <<>>
        PROVE  queue' # <<>> /\ Head(queue') = Head(queue)
    BY <2>1, HeadStays, Basics
  <2> QED BY <1>2, <2>1
<1>5. \A x \in alive : info'[x] = info[x]
  BY <1>3, Basics DEF TypeOK
<1> QED BY <1>1, <1>4, <1>5, HeldKept

\* The fields of the client, m_waitee and m_worker_exc keep their types.
LEMMA ClientRest ==
    ASSUME TypeOK, Calls \/ Continue \/ SpuriousWakeup
    PROVE  RestOK'
<1>1. RestOK
  BY TypeParts
<1> DEFINE CallType == [pc : {"idle", "enter", "add", "wait", "stop", "sync", "close"},
                        t : Tensors \cup {None}, prop : Props, regen : BOOLEAN]
<1>2. call' \in CallType
  <2>1. call \in CallType /\ Idle \in CallType
    BY <1>1 DEF RestOK, Idle, Props
  <2>2. /\ [Idle EXCEPT !.pc = "sync"] \in CallType /\ [Idle EXCEPT !.pc = "close"] \in CallType
        /\ [call EXCEPT !.pc = "stop"] \in CallType /\ [call EXCEPT !.pc = "wait"] \in CallType
        /\ [call EXCEPT !.pc = "add"] \in CallType
        /\ [call EXCEPT !.pc = "wait", !.regen = call.prop = "DevValue"] \in CallType
    BY <2>1
  <2>3. CASE \E t \in Tensors, prop \in Props : EnterWait(t, prop)
    BY <2>3, SMT DEF EnterWait
  <2>4. CASE ~\E t \in Tensors, prop \in Props : EnterWait(t, prop)
    <3> HIDE DEF CallType
    <3> QED BY <2>1, <2>2, <2>4 DEF Calls, Continue, SpuriousWakeup, Put, PutImpl,
               PutDevice, GetVarShape, DispatchDefaultCpu, DispatchKernel, Del, DelImpl, Drop,
               SetOption, WaitBegin, WaitAdd, WaitCheck, WaitStop, WaitRound, ThrowAsyncError,
               Sync, Close, CloseDel, SyncImpl
  <2> QED BY <2>3, <2>4
<1> USE DEF Calls, Continue, SpuriousWakeup, Put, PutImpl, PutDevice, GetVarShape,
            DispatchDefaultCpu, DispatchKernel, Del, DelImpl, Drop, SetOption, EnterWait,
            WaitBegin, WaitAdd, WaitCheck, WaitStop, Sync, Close, CloseDel, SyncImpl
<1>3. UNCHANGED <<wpc, m_applying, held, mode, worker_dtr>>
  BY DEF optionVars, workerVars, stackVars
<1>4. m_valid_handle' \subseteq Tensors /\ alive' \subseteq Tensors
  BY <1>1 DEF RestOK, NewTensor, handleVars
<1>5. m_status' \in {"RUNING", "CLOSED"} /\ client_dtr' \in BOOLEAN
  BY <1>1 DEF RestOK, optionVars
<1>6. m_worker_exc' \in BOOLEAN /\ asleep' \in BOOLEAN /\ m_waitee' \in Tensors \cup {None}
  BY <1>1 DEF RestOK, WaitRound, ThrowAsyncError, waitVars
<1> QED BY <1>1, <1>2, <1>3, <1>4, <1>5, <1>6 DEF RestOK

-----------------------------------------------------------------------------
(* The client waits for the worker.                                        *)

HIDE DEF Core, QueueCore, ValueCore, StackCore

\* While the client sleeps the worker has still to produce what it waits for, or
\* is about to notify it: no step of the worker makes a property available, or
\* sets m_worker_exc, without notify_tensor_unsafe() on it.
LEMMA WorkerWait ==
    ASSUME TypeOK, Core, HeldInv, WaitInv, WorkerStep
    PROVE  WaitInv'
<1>1. UNCHANGED <<m_valid_handle, call, m_waitee>>
  BY DEF WorkerStep, DoPut, DoPutFails, DoApplyInvalid, DoApplyOp, DoApplyFails,
     DoApplyStack, FlushInput, FlushApply, FlushFails, AutoEvict, DoUserDrop, DoSetOption,
     DoNothing, DoRegenerate, DoFetchValue, DoNotify, DoStartRegenBusy, Crash, DoFreeLater,
     DoDetachRegenerate, DoDetach, DoFree, DoApplyHold, FlushHold, HoldInput, Catch, handleVars,
     waitVars
<1>2. asleep' => asleep /\ ~m_worker_exc'
  BY DEF WaitInv, NoLostNotify, WorkerStep, DoPut, DoPutFails, DoApplyInvalid, DoApplyOp,
     DoApplyFails, DoApplyStack, FlushInput, FlushApply, FlushFails, AutoEvict, DoUserDrop,
     DoSetOption, DoNothing, DoRegenerate, DoFetchValue, DoNotify, DoStartRegenBusy, Crash,
     DoFreeLater, DoDetachRegenerate, DoDetach, DoFree, DoApplyHold, FlushHold, HoldInput, Catch,
     NotifyTensor, waitVars
<1>3. SUFFICES ASSUME asleep', asleep, NEW t \in Tensors, t = call.t, t = m_waitee,
                      (info'[t].ptr # info[t].ptr /\ info'[t].ptr # "null") \/ Available(t,
           call.prop)
               PROVE  wpc' = "notify" /\ Dest' = t
  <2>1. asleep => call.t \in m_valid_handle /\ m_waitee = call.t /\ call.pc = "wait"
    BY DEF WaitInv
  <2>2. m_valid_handle \subseteq Tensors
    BY DEF TypeOK
  <2> QED BY <1>1, <1>2, <1>3, <2>1, <2>2 DEF WaitInv, NoLostNotify, Available
<1>4. CASE wpc = "notify"
  <2>1. DoNotify
    BY <1>4 DEF WorkerStep, DoPut, DoPutFails, DoApplyInvalid, DoApplyHold, DoApplyOp, DoApplyFails,
       DoApplyStack, FlushHold, FlushInput, FlushApply, FlushFails, AutoEvict, DoUserDrop,
       DoSetOption, DoNothing, NothingToDo, DoRegenerate, DoFetchValue, DoStartRegenBusy, Crash,
       DoFreeLater, DoDetachRegenerate, DoDetach, DoFree, Processing, HeldInv
  <2>2. info' = info /\ asleep' = (asleep /\ Dest # m_waitee)
    BY <2>1 DEF DoNotify, NotifyTensor
  <2>3. Dest = m_waitee
    BY <1>3, <2>2 DEF WaitInv, NoLostNotify
  <2> QED BY <1>3, <2>2, <2>3
<1>5. CASE wpc # "notify"
  <2>1. info'[t].ptr # info[t].ptr /\ info'[t].ptr # "null" /\ info \in [Tensors -> TensorInfo]
    BY <1>3, <1>5 DEF WaitInv, NoLostNotify, TypeOK
  <2>2. CASE DoPut \/ DoApplyOp
    <3>1. asleep' = (asleep /\ Dest # m_waitee) /\ \E r : info' = [info EXCEPT ![Dest] = r]
      BY <2>2 DEF DoPut, DoApplyOp, NotifyTensor
    <3> QED BY <1>3, <2>1, <3>1
  <2>3. CASE FlushApply
    <3>1. /\ asleep' = (asleep /\ (IF info[Top.dest].ptr = "null" THEN Top.dest ELSE None) # m_waitee)
          /\ info' = Applied(Top) \/ \E p : info' = [Applied(Top) EXCEPT ![Dest].producer = p]
      BY <2>3 DEF FlushApply, NotifyTensor
    <3>2. Applied(Top)[t] = info[t] /\ Applied(Top) \in [Tensors -> {Applied(Top)[x] : x \in Tensors}]
      BY <1>3, <2>1, <3>1 DEF Applied
    <3>3. info'[t] = info[t] \/ \E p : info'[t] = [info[t] EXCEPT !.producer = p]
      BY <3>1, <3>2
    <3>4. info[t] \in TensorInfo
      BY <2>1
    <3>5. info'[t].ptr = info[t].ptr
      BY <3>3, <3>4 DEF TensorInfo
    <3> QED BY <2>1, <3>5
  <2>4. CASE DoFetchValue
    <3>1. /\ wpc' = "notify" /\ queue' = queue
          /\ info' = [info EXCEPT ![Dest].ptr = IF @ = "dev" THEN "fetched" ELSE @]
      BY <2>4 DEF DoFetchValue
    <3>2. t = Dest
      BY <2>1, <3>1
    <3> QED BY <3>1, <3>2 DEF Dest
  <2>5. CASE DoPutFails \/ DoApplyFails \/ FlushFails \/ DoApplyInvalid
    <3>1. info'[t].ptr = info[t].ptr
      <4>1. \E c : info' = [info EXCEPT ![Dest].invalid = c]
        BY <2>5 DEF DoPutFails, DoApplyFails, FlushFails, DoApplyInvalid, Catch, Poison
      <4>2. info[t] \in TensorInfo
        BY <2>1
      <4> QED BY <2>1, <4>1, <4>2, SMT DEF TensorInfo
    <3> QED BY <2>1, <3>1
  <2>6. CASE DoUserDrop \/ \E x \in Tensors : AutoEvict(x)
    <3>1. info' = info \/ \E x : info' = [info EXCEPT ![x].evicted = TRUE, ![x].ptr = "null", ![x].val = NoValue]
      BY <2>6 DEF DoUserDrop, AutoEvict, DoDrop
    <3>2. PICK x : info' = [info EXCEPT ![x].evicted = TRUE, ![x].ptr = "null", ![x].val = NoValue]
      BY <2>1, <3>1
    <3>3. CASE x # t
      BY <2>1, <3>2, <3>3
    <3>4. CASE x = t
      <4>1. info'[t] = [info[t] EXCEPT !.evicted = TRUE, !.ptr = "null", !.val = NoValue] /\ info[t] \in TensorInfo
        BY <2>1, <3>2, <3>4
      <4> QED BY <2>1, <4>1, DropRecord
    <3> QED BY <3>3, <3>4
  <2>7. CASE DoFreeLater
    <3>1. PICK x, c : info' = [info EXCEPT ![x].allow_delete = TRUE, ![x].evicted = @ \/ c,
                           ![x].ptr = IF c THEN "null" ELSE @, ![x].val = IF c THEN NoValue ELSE @]
      BY <2>7 DEF DoFreeLater
    <3>2. CASE x # t
      BY <2>1, <3>1, <3>2
    <3>3. CASE x = t
      <4>1. PICK r \in TensorInfo : r = info[t]
        BY <2>1
      <4>2. info'[t] = [r EXCEPT !.allow_delete = TRUE, !.evicted = r.evicted \/ c,
                           !.ptr = IF c THEN "null" ELSE r.ptr,
           !.val = IF c THEN NoValue ELSE r.val]
        BY <2>1, <3>1, <3>3, <4>1
      <4>3. info'[t].ptr = IF c THEN "null" ELSE r.ptr
        BY <4>2 DEF TensorInfo
      <4> QED BY <2>1, <4>1, <4>3
    <3> QED BY <3>2, <3>3
  <2>8. CASE DoFree
    <3>1. info' = [info EXCEPT ![Dest] = NewInfo]
      BY <2>8 DEF DoFree
    <3> QED BY <2>1, <3>1 DEF NewInfo
  <2>9. CASE \E u \in Tensors : DoDetach(u)
    <3>1. PICK u \in Tensors : info' = [info EXCEPT ![u].producer = None]
      BY <2>9 DEF DoDetach
    <3>2. info'[t] = info[t] \/ info'[t] = [info[t] EXCEPT !.producer = None]
      BY <2>1, <3>1
    <3>3. info[t] \in TensorInfo
      BY <2>1
    <3>4. info'[t].ptr = info[t].ptr
      BY <3>2, <3>3 DEF TensorInfo
    <3> QED BY <2>1, <3>4
  <2>10. CASE \/ DoApplyHold \/ DoApplyStack \/ FlushInput \/ FlushHold \/ DoSetOption \/ DoNothing
              \/ DoRegenerate \/ DoNotify \/ DoStartRegenBusy \/ Crash
              \/ \E u \in Tensors : DoDetachRegenerate(u)
    BY <2>1, <2>10 DEF DoApplyHold, DoApplyStack, FlushInput, FlushHold, HoldInput, DoSetOption,
       DoNothing, DoRegenerate, DoNotify, DoStartRegenBusy, Crash, DoDetachRegenerate
  <2> QED BY <2>2, <2>3, <2>4, <2>5, <2>6, <2>7, <2>8, <2>9, <2>10 DEF WorkerStep
<1> QED BY <1>4, <1>5

\* The client goes to sleep only after it has seen, with m_mutex held, that there
\* is neither a result nor an error.
LEMMA ClientWait ==
    ASSUME TypeOK, WaitInv, (wpc # "crashed" /\ Calls) \/ Continue \/ SpuriousWakeup
    PROVE  WaitInv'
<1>1. CASE Calls
  <2>3. call = Idle /\ asleep' = asleep
    BY <1>1 DEF Calls, Put, PutImpl, PutDevice, GetVarShape, DispatchDefaultCpu,
       DispatchKernel, Del, DelImpl, Drop, SetOption, EnterWait, Sync, Close, Enter, waitVars
  <2>1. call = Idle /\ ~asleep /\ asleep' = asleep
    BY <2>3 DEF WaitInv, Idle
  <2>2. \/ call' \in {Idle, [Idle EXCEPT !.pc = "sync"], [Idle EXCEPT !.pc = "close"]}
        \/ \E t \in m_valid_handle, prop \in Props :
              call' = [pc |-> "enter", t |-> t, prop |-> prop,
           regen |-> FALSE] /\ m_valid_handle' = m_valid_handle
    BY <1>1, <2>1 DEF Calls, Put, PutImpl, PutDevice, GetVarShape, DispatchDefaultCpu,
       DispatchKernel, Del, DelImpl, Drop, SetOption, EnterWait, Sync, Close, handleVars
  <2> QED BY <2>1, <2>2, SMT DEF WaitInv, Idle, NoLostNotify
<1>2. CASE SpuriousWakeup
  BY <1>2 DEF WaitInv, NoLostNotify, SpuriousWakeup, handleVars
<1>3. CASE Continue
  <2>1. ~asleep
    BY <1>3 DEF Continue, WaitBegin, WaitAdd, WaitCheck, WaitStop, SyncImpl, CloseDel, WaitInv
  <2>2. CASE WaitBegin \/ WaitCheck
    <3>1. /\ call.t \in m_valid_handle /\ UNCHANGED <<info, m_valid_handle>>
          /\ \/ call' = Idle /\ asleep' = asleep
             \/ call' = [call EXCEPT !.pc = "stop"] /\ asleep' = asleep
             \/ call' = [call EXCEPT !.pc = "add"] /\ asleep' = asleep
             \/ /\ call' = [call EXCEPT !.pc = "wait"] /\ m_waitee' = call.t
                /\ ~m_worker_exc /\ m_worker_exc' = m_worker_exc /\ ~Available(call.t, call.prop)
      BY <2>2 DEF WaitBegin, WaitCheck, WaitRound, ThrowAsyncError, WaitInv, handleVars
    <3>2. call \in [pc : {"idle", "enter", "add", "wait", "stop", "sync", "close"},
                 t : Tensors \cup {None}, prop : Props, regen : BOOLEAN]
      BY DEF TypeOK
    <3>3. CASE call' = Idle /\ asleep' = asleep
      BY <2>1, <3>3 DEF Idle, WaitInv, NoLostNotify
    <3>4. CASE call' \in {[call EXCEPT !.pc = "stop"], [call EXCEPT !.pc = "add"]} /\ asleep' = asleep
      BY <2>1, <3>1, <3>2, <3>4 DEF WaitInv, NoLostNotify
    <3>5. CASE /\ call' = [call EXCEPT !.pc = "wait"] /\ m_waitee' = call.t
               /\ ~m_worker_exc /\ m_worker_exc' = m_worker_exc /\ ~Available(call.t, call.prop)
      <4>1. call'.pc = "wait" /\ call'.t = call.t /\ call'.prop = call.prop
        BY <3>2, <3>5
      <4> QED BY <3>1, <3>5, <4>1, SMT DEF WaitInv, NoLostNotify, Available
    <3> QED BY <3>1, <3>3, <3>4, <3>5
  <2>3. CASE WaitAdd
    <3>1. /\ call.t \in m_valid_handle /\ asleep' = asleep /\ m_valid_handle' = m_valid_handle
          /\ call'.pc = "wait" /\ call'.t = call.t
      BY <2>3 DEF WaitAdd, WaitInv, TypeOK, handleVars, waitVars
    <3> QED BY <2>1, <3>1 DEF WaitInv, NoLostNotify
  <2>4. CASE WaitStop \/ SyncImpl
    BY <2>1, <2>4, SMT DEF WaitStop, SyncImpl, ThrowAsyncError, WaitInv, NoLostNotify, Idle, waitVars
  <2>5. CASE \E t \in Tensors : CloseDel(t)
    BY <2>1, <2>5, SMT DEF CloseDel, DelImpl, WaitInv, NoLostNotify, waitVars
  <2> QED BY <1>3, <2>2, <2>3, <2>4, <2>5 DEF Continue
<1> QED BY <1>1, <1>2, <1>3

-----------------------------------------------------------------------------
(* The worker keeps the types.                                             *)

USE DEF Core, QueueCore, ValueCore, StackCore

\* Put keeps the types.
LEMMA PutTypes ==
    ASSUME InfoOK, wpc \in {"run", "flush"}, DoPut, Core, TypeOK
    PROVE  InfoOK'
<1>1. queue # <<>> /\ Head(queue).op = "Put"
  BY DEF DoPut, Processing
<1>2. PICK t \in Tensors : t = Dest /\ t \in alive
  BY <1>1, HeadFacts, Basics
<1>3. Head(queue).v \in Values
  <2>1. Head(queue).v = info[t].want
    BY <1>1, <1>2, HeadFacts
  <2> QED BY <1>2, <2>1 DEF PathInv
<1>4. PICK p \in {"dev", "const"} : p = IF info[t].h_value = NoValue THEN "dev" ELSE "const"
  OBVIOUS
<1>5. info' = [info EXCEPT ![t] = Produced(info[t], p, Head(queue).v)]
  BY <1>2, <1>4 DEF DoPut, PutValue
<1>6. info[t] \in TensorInfo /\ Head(queue).v # NoValue
  BY <1>3, NoValueAssumption DEF InfoOK
<1>7. /\ Produced(info[t], p, Head(queue).v) \in TensorInfo
      /\ Produced(info[t], p, Head(queue).v).val = Head(queue).v
      /\ Produced(info[t], p, Head(queue).v).ptr = p
  BY <1>3, <1>6, ProducedRecord, SMT
<1> QED BY <1>5, <1>6, <1>7, InfoUpdate

\* do_drop() keeps the types.
LEMMA DropTypes ==
    ASSUME InfoOK, NEW t \in Tensors, DoDrop(t)
    PROVE  InfoOK'
<1>1. CASE CanDrop(t)
  <2>1. info' = [info EXCEPT ![t] = [info[t] EXCEPT !.evicted = TRUE, !.ptr = "null", !.val = NoValue]]
    BY <1>1 DEF DoDrop
  <2>2. PICK r \in TensorInfo : r = info[t]
    BY DEF InfoOK
  <2>3. [r EXCEPT !.evicted = TRUE, !.ptr = "null", !.val = NoValue] \in TensorInfo
    BY DEF TensorInfo
  <2> QED BY <2>1, <2>2, <2>3, DropRecord, InfoUpdate
<1>2. CASE ~CanDrop(t)
  BY <1>2 DEF DoDrop, InfoOK
<1> QED BY <1>1, <1>2

\* Marking a tensor unusable keeps the types.
LEMMA MarkTypes ==
    ASSUME InfoOK, NEW t \in Tensors, NEW c \in BOOLEAN, info' = [info EXCEPT ![t].invalid = @ \/ c]
    PROVE  InfoOK'
<1>1. PICK r \in TensorInfo : r = info[t]
  BY DEF InfoOK
<1>2. info' = [info EXCEPT ![t] = [r EXCEPT !.invalid = @ \/ c]]
  BY <1>1
<1>3. [r EXCEPT !.invalid = @ \/ c] \in TensorInfo
  BY DEF TensorInfo
<1>4. [r EXCEPT !.invalid = @ \/ c].val = r.val /\ [r EXCEPT !.invalid = @ \/ c].ptr = r.ptr
  BY DEF TensorInfo
<1>5. r.val = NoValue <=> r.ptr = "null"
  BY <1>1 DEF InfoOK
<1>6. PICK q \in TensorInfo : q = [r EXCEPT !.invalid = @ \/ c] /\ q.val = r.val /\ q.ptr = r.ptr
  BY <1>3, <1>4
<1>7. info' = [info EXCEPT ![t] = q] /\ (q.val = NoValue <=> q.ptr = "null")
  BY <1>2, <1>5, <1>6
<1> QED BY <1>6, <1>7, InfoUpdate

\* do_apply_op() keeps the types.
LEMMA AppliedTypes ==
    ASSUME InfoOK, NEW t \in Tensors, NEW v \in Values,
           NEW a, a = [info EXCEPT ![t] = Produced(@, "dev", Compute(v))]
    PROVE  /\ a \in [Tensors -> TensorInfo]
           /\ \A x \in Tensors : a[x].val = NoValue <=> a[x].ptr = "null"
<1>1. PICK w \in Values : w = Compute(v) /\ w # NoValue
  BY ComputeAssumption, NoValueAssumption
<1>2. PICK r \in TensorInfo : r = info[t]
  BY DEF InfoOK
<1>3. PICK q \in TensorInfo : q = Produced(r, "dev", w) /\ q.val = w /\ q.ptr = "dev"
  <2>1. w \in Values \cup {NoValue} /\ "dev" \in {"dev", "const"}
    OBVIOUS
  <2>2. /\ Produced(r, "dev", w) \in TensorInfo
        /\ Produced(r, "dev", w).val = w /\ Produced(r, "dev", w).ptr = "dev"
    BY <2>1, ProducedRecord
  <2> QED BY <2>2
<1>4. a = [info EXCEPT ![t] = q]
  BY <1>1, <1>2, <1>3
<1> QED BY <1>1, <1>3, <1>4 DEF InfoOK

\* flush_apply_stack() keeps the types.
LEMMA FlushTypes ==
    ASSUME TypeOK, Core, HeldInv, InfoOK, FlushApply
    PROVE  InfoOK'
<1>1. wpc = "flush" /\ held # NoValue /\ held \in Values
  BY DEF FlushApply, TypeOK
<1>2. Top.dest \in Tensors /\ queue # <<>>
  <2>1. Top.dest \in Tensors
    BY <1>1, TopApplied
  <2> QED BY <1>1, <2>1 DEF StackInv
<1>3. PICK a : a = Applied(Top)
  OBVIOUS
<1>4. /\ a \in [Tensors -> TensorInfo]
      /\ \A x \in Tensors : a[x].val = NoValue <=> a[x].ptr = "null"
  <2>1. CASE info[Top.dest].ptr # "null"
    BY <1>3, <2>1 DEF Applied, InfoOK
  <2>2. CASE info[Top.dest].ptr = "null"
    BY <1>1, <1>2, <1>3, <2>2, AppliedTypes DEF Applied
  <2> QED BY <2>1, <2>2
<1>5. CASE info' = a
  BY <1>4, <1>5 DEF InfoOK
<1>6. CASE Head(queue).op = "ApplyOp" /\ \E p \in {Src, None} : info' = [a EXCEPT ![Dest].producer = p]
  <2>1. PICK t \in Tensors, p \in Tensors \cup {None} : t = Dest /\ info' = [a EXCEPT ![t].producer = p]
    <3>1. Dest \in Tensors /\ Src \in Tensors
      BY <1>2, <1>6, HeadFacts, Basics
    <3> QED BY <1>6, <3>1
  <2>2. PICK r \in TensorInfo : r = a[t]
    BY <1>4
  <2>3. info' = [a EXCEPT ![t] = [r EXCEPT !.producer = p]]
    BY <2>1, <2>2
  <2>4. LET q == [r EXCEPT !.producer = p] IN q \in TensorInfo /\ q.val = r.val /\ q.ptr = r.ptr
    BY PathRecord
  <2> QED BY <1>4, <2>2, <2>3, <2>4 DEF InfoOK
<1> QED BY <1>3, <1>5, <1>6 DEF FlushApply

\* fetch_value() keeps the types.
LEMMA FetchTypes ==
    ASSUME TypeOK, Core, InfoOK, DoFetchValue
    PROVE  InfoOK'
<1>1. PICK t \in Tensors : t = Dest
  BY HeadFacts, Basics DEF DoFetchValue, Processing
<1>2. PICK r \in TensorInfo : r = info[t]
  BY DEF InfoOK
<1>3. info' = [info EXCEPT ![t] = [r EXCEPT !.ptr = IF r.ptr = "dev" THEN "fetched" ELSE r.ptr]]
  BY <1>1, <1>2 DEF DoFetchValue
<1>4. LET q == [r EXCEPT !.ptr = IF r.ptr = "dev" THEN "fetched" ELSE r.ptr]
      IN  q \in TensorInfo /\ q.val = r.val /\ (q.ptr = "null" <=> r.ptr = "null")
  BY DEF TensorInfo
<1>5. r.val = NoValue <=> r.ptr = "null"
  BY <1>2 DEF InfoOK
<1> QED BY <1>3, <1>4, <1>5, InfoUpdate

\* Del keeps the types.
LEMMA DelTypes ==
    ASSUME TypeOK, Core, InfoOK, DoFreeLater \/ DoFree \/ \E u \in Tensors : DoDetach(u)
    PROVE  InfoOK'
<1>1. PICK t \in Tensors : t = Dest
  BY DelHead DEF DoFreeLater, DoFree, DoDetach
<1>2. CASE DoFreeLater
  <2>1. PICK c \in BOOLEAN : c = CanDrop(t)
    BY DEF CanDrop
  <2>2. PICK r \in TensorInfo : r = info[t]
    BY DEF InfoOK
  <2>3. info' = [info EXCEPT ![t] =
                   [r EXCEPT !.allow_delete = TRUE, !.evicted = r.evicted \/ c,
                             !.ptr = IF c THEN "null" ELSE r.ptr,
                             !.val = IF c THEN NoValue ELSE r.val]]
    BY <1>1, <1>2, <2>1, <2>2 DEF DoFreeLater
  <2>4. LET q == [r EXCEPT !.allow_delete = TRUE, !.evicted = r.evicted \/ c,
                             !.ptr = IF c THEN "null" ELSE r.ptr,
                             !.val = IF c THEN NoValue ELSE r.val]
        IN  /\ q \in TensorInfo
            /\ q.val = (IF c THEN NoValue ELSE r.val) /\ q.ptr = (IF c THEN "null" ELSE r.ptr)
    BY DEF TensorInfo
  <2>5. r.val = NoValue <=> r.ptr = "null"
    BY <2>2 DEF InfoOK
  <2> QED BY <2>3, <2>4, <2>5, InfoUpdate
<1>3. CASE DoFree
  <2>1. NewInfo \in TensorInfo /\ NewInfo.val = NoValue /\ NewInfo.ptr = "null"
    BY DEF NewInfo, TensorInfo
  <2> QED BY <1>1, <1>3, <2>1, InfoUpdate DEF DoFree
<1>4. CASE \E u \in Tensors : DoDetach(u)
  <2>1. PICK u \in Tensors : info' = [info EXCEPT ![u].producer = None]
    BY <1>4 DEF DoDetach
  <2>2. PICK r \in TensorInfo : r = info[u]
    BY DEF InfoOK
  <2>3. info' = [info EXCEPT ![u] = [r EXCEPT !.producer = None]]
    BY <2>1, <2>2
  <2>4. LET q == [r EXCEPT !.producer = None] IN q \in TensorInfo /\ q.val = r.val /\ q.ptr = r.ptr
    BY PathRecord
  <2>5. r.val = NoValue <=> r.ptr = "null"
    BY <2>2 DEF InfoOK
  <2> QED BY <2>3, <2>4, <2>5, InfoUpdate
<1> QED BY <1>2, <1>3, <1>4

\* Every step of the worker keeps the types of the fields of TensorInfo.
LEMMA WorkerInfo ==
    ASSUME TypeOK, Core, HeldInv, InfoOK, WorkerStep
    PROVE  InfoOK'
<1>1. CASE DoPut
  BY <1>1, PutTypes DEF DoPut, Processing
<1>2. CASE DoPutFails \/ DoApplyFails \/ FlushFails
  <2>1. queue # <<>> /\ Head(queue).op \in Outputs /\ Catch
    <3>1. CASE DoPutFails \/ DoApplyFails
      BY <3>1 DEF DoPutFails, DoApplyFails, Processing, Outputs
    <3>2. CASE FlushFails
      <4>1. wpc = "flush" /\ ~Top.recomp /\ Catch
        BY <3>2 DEF FlushFails
      <4>2. Len(m_apply_stack) \in DOMAIN m_apply_stack /\ Top = m_apply_stack[Len(m_apply_stack)]
        BY <4>1, TopFacts
      <4> QED BY <4>1, <4>2 DEF Outputs, StackInv
    <3> QED BY <1>2, <3>1, <3>2
  <2>2. PICK t \in Tensors : t = Dest
    BY <2>1, HeadFacts, Basics DEF Outputs
  <2>3. info' = [info EXCEPT ![t].invalid = @ \/ TRUE]
    BY <2>1, <2>2 DEF Catch, Outputs
  <2> QED BY <2>3, MarkTypes
<1>3. CASE DoApplyInvalid
  <2>1. PICK t \in Tensors : t = Dest
    BY <1>3, HeadFacts, Basics DEF DoApplyInvalid, Processing
  <2>2. info' = [info EXCEPT ![t].invalid = @ \/ TRUE]
    BY <1>3, <2>1 DEF DoApplyInvalid, Poison
  <2> QED BY <2>2, MarkTypes
<1>4. CASE DoApplyOp
  <2>1. PICK t \in Tensors : t = Dest
    BY <1>4, HeadFacts, Basics DEF DoApplyOp, Processing
  <2>2. held \in Values
    BY <1>4 DEF DoApplyOp, TypeOK
  <2>3. info' = [info EXCEPT ![t] = Produced(@, "dev", Compute(held))]
    BY <1>4, <2>1 DEF DoApplyOp
  <2> QED BY <2>2, <2>3, AppliedTypes DEF InfoOK
<1>5. CASE \E t \in Tensors : AutoEvict(t)
  BY <1>5, DropTypes DEF AutoEvict
<1>6. CASE DoUserDrop
  <2>1. Dest \in Tensors
    BY <1>6, HeadFacts, Basics DEF DoUserDrop, Processing
  <2> QED BY <1>6, <2>1, DropTypes DEF DoUserDrop, InfoOK
<1>7. CASE \/ DoApplyHold \/ DoApplyStack \/ FlushInput \/ FlushHold \/ DoSetOption \/ DoNothing
           \/ DoRegenerate \/ DoNotify \/ DoStartRegenBusy \/ Crash
           \/ \E u \in Tensors : DoDetachRegenerate(u)
  <2>1. info' = info
    BY <1>7 DEF DoApplyHold, DoApplyStack, FlushInput, FlushHold, HoldInput, DoSetOption, DoNothing,
       DoRegenerate, DoNotify, DoStartRegenBusy, Crash, DoDetachRegenerate
  <2> QED BY <2>1 DEF InfoOK
<1> QED BY <1>1, <1>2, <1>3, <1>4, <1>5, <1>6, <1>7, FlushTypes, FetchTypes, DelTypes DEF WorkerStep

\* Every step of the worker leaves a queue of commands.
LEMMA WorkerQueue ==
    ASSUME TypeOK, Core, WorkerStep
    PROVE  queue' \in Seq(Commands)
<1>1. ASSUME queue # <<>> PROVE Tail(queue) \in Seq(Commands)
  BY <1>1, TailFacts, Basics
<1>2. CASE ~DoFree
  <2>1. wpc = "flush" => queue # <<>>
    BY DEF StackInv
  <2>2. wpc = "notify" => queue # <<>>
    BY DEF StackInv
  <2>3. queue' = queue \/ (queue # <<>> /\ queue' = Tail(queue))
    BY <1>2, <2>1, <2>2 DEF WorkerStep, DoPut, DoPutFails, DoApplyInvalid, DoApplyHold, DoApplyOp,
       DoApplyFails, DoApplyStack, FlushInput, FlushHold, FlushApply, FlushFails, AutoEvict,
       DoUserDrop, DoSetOption, DoNothing, DoRegenerate, DoFetchValue, DoNotify, DoStartRegenBusy,
       Crash, DoFreeLater, DoDetachRegenerate, DoDetach, NothingToDo, Processing, Catch, Done,
       HoldInput
  <2> QED BY <1>1, <2>3, Basics
<1>3. CASE DoFree
  <2>1. CASE FreedNext(Dest) = {}
    <3>1. queue # <<>> /\ queue' = Tail(queue)
      BY <1>3, <2>1 DEF DoFree, Done, Processing
    <3> QED BY <1>1, <3>1
  <2>2. CASE FreedNext(Dest) # {}
    <3>1. PICK s \in alive : queue' = [queue EXCEPT ![1].dest = s]
      BY <1>3, <2>2 DEF DoFree, FreedNext
    <3>2. queue[1] \in Commands /\ 1 \in DOMAIN queue /\ s \in Tensors
      BY <1>3, HeadFacts, Basics DEF DoFree, Processing
    <3>3. PICK c \in Commands : c = [queue[1] EXCEPT !.dest = s]
      BY <3>2 DEF Commands
    <3>4. queue' = [queue EXCEPT ![1] = c]
      BY <3>1, <3>3
    <3> QED BY <3>2, <3>4, Basics, SMT
  <2> QED BY <2>1, <2>2
<1> QED BY <1>2, <1>3

\* Every step of the worker leaves a stack of entries.
LEMMA WorkerStack ==
    ASSUME TypeOK, Core, WorkerStep
    PROVE  m_apply_stack' \in Seq(EntryType)
<1>1. m_apply_stack \in Seq(EntryType)
  BY TypeParts
<1>2. CASE \/ DoPut \/ DoPutFails \/ DoApplyInvalid \/ DoApplyHold \/ DoApplyOp \/ DoApplyFails
           \/ FlushHold \/ DoUserDrop \/ DoSetOption \/ DoNothing \/ DoFetchValue \/ DoNotify \/ Crash \/ DoFreeLater
           \/ (\E t \in Tensors : AutoEvict(t)) \/ \E u \in Tensors : DoDetach(u)
  <2>1. m_apply_stack' = m_apply_stack
    BY <1>2 DEF DoPut, DoPutFails, DoApplyInvalid, DoApplyHold, DoApplyOp, DoApplyFails, FlushHold,
       HoldInput, DoUserDrop, DoSetOption, DoNothing, DoFetchValue, DoNotify, Crash, DoFreeLater,
       AutoEvict, DoDetach, stackVars, workerVars
  <2> QED BY <1>1, <2>1
<1>3. ASSUME NEW e \in EntryType, m_apply_stack' = Append(m_apply_stack, e)
      PROVE  m_apply_stack' \in Seq(EntryType)
  BY <1>1, <1>3, AppendFacts
<1>4. CASE DoApplyStack
  <2>1. Src \in Tensors /\ Dest \in Tensors
    BY <1>4, HeadFacts, Basics DEF DoApplyStack, Processing
  <2>2. Entry(Src, Dest, FALSE) \in EntryType
    BY <2>1, SMT DEF Entry, EntryType
  <2>3. m_apply_stack' = Append(m_apply_stack, Entry(Src, Dest, FALSE))
    BY <1>4 DEF DoApplyStack
  <2> QED BY <1>3, <2>2, <2>3
<1>5. CASE DoRegenerate \/ DoStartRegenBusy \/ \E u \in Tensors : DoDetachRegenerate(u)
  <2>1. PICK t \in alive :
           /\ info[t].evicted
           /\ m_apply_stack' = Append(m_apply_stack, Entry(info[t].producer, t, TRUE))
    <3>1. CASE DoRegenerate
      BY <3>1, HeadFacts DEF DoRegenerate, Processing, Missing, Regenerate
    <3>2. CASE DoStartRegenBusy
      BY <3>2, HeadFacts DEF DoStartRegenBusy, Processing, Missing
    <3>3. CASE \E u \in Tensors : DoDetachRegenerate(u)
      BY <3>3 DEF DoDetachRegenerate, Users, Regenerate
    <3> QED BY <1>5, <3>1, <3>2, <3>3
  <2> QED BY <1>3, <2>1, PathEntry
<1>6. CASE FlushInput
  <2>1. /\ wpc = "flush" /\ ~Dangling(Top) /\ info[Top.src].evicted
        /\ m_apply_stack' = Below \o <<[Top EXCEPT !.idx = 1],
                                       Entry(info[Top.src].producer, Top.src, TRUE)>>
    BY <1>6 DEF FlushInput, Missing
  <2>2. Top.src \in alive /\ Top \in EntryType /\ Below \in Seq(EntryType)
    BY <2>1, TopFacts DEF EntryOK
  <2>3. PICK e \in EntryType : e = Entry(info[Top.src].producer, Top.src, TRUE)
    BY <2>1, <2>2, PathEntry
  <2>4. PICK d \in EntryType : d = [Top EXCEPT !.idx = 1]
    <3>1. [Top EXCEPT !.idx = 1] \in EntryType
      BY <2>2, SMT DEF EntryType
    <3> QED BY <3>1
  <2>5. <<d, e>> \in Seq(EntryType)
    BY SMT
  <2>6. m_apply_stack' = Below \o <<d, e>>
    BY <2>1, <2>3, <2>4
  <2> QED BY <2>2, <2>5, <2>6, Concat
<1>7. CASE FlushApply \/ FlushFails
  BY <1>7, TopFacts DEF FlushApply, FlushFails
<1>8. CASE DoFree
  <2>1. PICK d : m_apply_stack' = [i \in DOMAIN m_apply_stack |->
                            IF d \in {m_apply_stack[i].src, m_apply_stack[i].dest}
                            THEN [m_apply_stack[i] EXCEPT !.dest = None]
                            ELSE m_apply_stack[i]]
    BY <1>8 DEF DoFree
  <2>2. ASSUME NEW i \in DOMAIN m_apply_stack PROVE m_apply_stack'[i] \in EntryType
    <3>1. m_apply_stack[i] \in EntryType
      BY <1>1, SeqElement
    <3>2. [m_apply_stack[i] EXCEPT !.dest = None] \in EntryType
      BY <3>1 DEF EntryType
    <3> QED BY <2>1, <3>1, <3>2
  <2>3. DOMAIN m_apply_stack = 1 .. Len(m_apply_stack) /\ Len(m_apply_stack) \in Nat
    BY <1>1, SMT
  <2>4. m_apply_stack' \in [1 .. Len(m_apply_stack) -> EntryType]
    BY <2>1, <2>2, <2>3
  <2> QED BY <2>3, <2>4, FunIsSeq
<1> QED BY <1>2, <1>4, <1>5, <1>6, <1>7, <1>8 DEF WorkerStep

\* The other variables keep their types in a step of the worker.
LEMMA WorkerRest ==
    ASSUME TypeOK, Core, WorkerStep
    PROVE  RestOK'
<1> USE DEF WorkerStep, DoPut, DoPutFails, DoApplyInvalid, DoApplyOp, DoApplyFails, DoApplyStack,
            FlushInput, FlushApply, FlushFails, AutoEvict, DoUserDrop, DoSetOption, DoNothing,
            DoRegenerate, DoFetchValue, DoNotify, DoStartRegenBusy, Crash, DoFreeLater,
            DoDetachRegenerate, DoDetach, DoFree, DoApplyHold, FlushHold, HoldInput, Catch
<1>1. UNCHANGED <<m_valid_handle, call, m_status, mode, client_dtr, m_waitee>>
  BY DEF handleVars, optionVars, waitVars
<1>2. alive' \subseteq alive
  BY DEF handleVars
<1>3. worker_dtr' \in BOOLEAN
  BY DEF TypeOK, optionVars
<1>4. m_worker_exc' \in BOOLEAN /\ asleep' \in BOOLEAN
  BY DEF TypeOK, NotifyTensor, waitVars
<1>5. wpc' \in {"run", "flush", "notify", "crashed"} /\ m_applying' \in BOOLEAN
  BY DEF TypeOK, Done, Regenerate, workerVars, stackVars
<1>6. held' \in Values \cup {NoValue}
  <2>1. CASE DoApplyHold \/ FlushHold
    BY <2>1, HoldStep
  <2>2. CASE ~(DoApplyHold \/ FlushHold)
    <3>1. held' \in {held, NoValue}
      BY <2>2 DEF workerVars, stackVars
    <3> QED BY <3>1 DEF TypeOK
  <2> QED BY <2>1, <2>2
<1> QED BY <1>1, <1>2, <1>3, <1>4, <1>5, <1>6 DEF TypeOK, RestOK

\* While do_apply_op() holds its input nothing happens in the worker but
\* evictions, until the operator is done or has failed.
LEMMA WorkerHeld ==
    ASSUME TypeOK, Core, HeldInv, WorkerStep
    PROVE  HeldInv'
<1>1. CASE DoApplyHold \/ FlushHold
  BY <1>1, HoldStep
<1>2. CASE \E t \in Tensors : AutoEvict(t)
  <2>1. PICK t \in Tensors : AutoEvict(t)
    BY <1>2
  <2>2. UNCHANGED <<held, wpc, m_apply_stack, worker_dtr, queue>>
    BY <2>1 DEF AutoEvict, optionVars, workerVars, stackVars
  <2>3. \A x \in alive : info'[x].want = info[x].want /\ info'[x].invalid = info[x].invalid
    BY <2>1, AutoEvictStep DEF Keeps, SameDesc
  <2> QED BY <2>2, <2>3, HeldKept
<1>3. CASE DoApplyOp \/ DoApplyFails \/ FlushInput \/ FlushApply \/ FlushFails
  BY <1>3 DEF DoApplyOp, DoApplyFails, FlushInput, FlushApply, FlushFails, HeldInv
<1>4. CASE DoApplyInvalid \/ DoApplyStack \/ Crash
  <2>1. held' = held
    BY <1>4 DEF DoApplyInvalid, DoApplyStack, Crash, stackVars
  <2>2. held = NoValue
    BY <1>4 DEF DoApplyInvalid, DoApplyStack, Crash, Processing, HeldInv
  <2> QED BY <2>1, <2>2 DEF HeldInv
<1>5. CASE \/ DoPut \/ DoPutFails \/ DoUserDrop \/ DoSetOption \/ DoNothing \/ DoRegenerate
           \/ DoFetchValue \/ DoNotify \/ DoStartRegenBusy \/ DoFreeLater \/ DoFree
           \/ \E u \in Tensors : DoDetachRegenerate(u) \/ DoDetach(u)
  <2>1. held' = held
    BY <1>5 DEF DoPut, DoPutFails, DoUserDrop, DoSetOption, DoNothing, DoRegenerate, DoFetchValue,
       DoNotify, DoStartRegenBusy, DoFreeLater, DoFree, DoDetachRegenerate, DoDetach, stackVars,
       workerVars
  <2>2. held = NoValue
    BY <1>5 DEF DoPut, DoPutFails, DoUserDrop, DoSetOption, DoNothing, NothingToDo, DoRegenerate,
       DoFetchValue, DoNotify, DoStartRegenBusy, DoFreeLater, DoFree, DoDetachRegenerate, DoDetach,
       Processing, HeldInv
  <2> QED BY <2>1, <2>2 DEF HeldInv
<1> QED BY <1>1, <1>2, <1>3, <1>4, <1>5 DEF WorkerStep

\* Every step of the worker keeps the types and the invariant.
LEMMA WorkerCore ==
    ASSUME TypeOK, Core, HeldInv, WorkerStep
    PROVE  TypeOK' /\ Core' /\ HeldInv'
<1>1. InfoOK
  BY TypeParts
<1>2. TypeOK'
  BY <1>1, WorkerInfo, WorkerQueue, WorkerStack, WorkerRest, TypePartsNext
<1>3. CASE DoApplyHold \/ FlushHold
  <2>1. UNCHANGED <<info, handleVars, queue, wpc, m_apply_stack, m_applying, worker_dtr>>
    BY <1>3, HoldStep DEF optionVars
  <2> QED BY <1>2, <2>1, CoreFrame, WorkerHeld
<1>4. CASE ~(DoApplyHold \/ FlushHold)
  <2>1. Core'
    BY <1>4, PutStep, ApplyOpStep, PoisonStep, FlushFailsStep, DoneStep, ApplyStackStep,
       RegenerateStep, RegenBusyStep, FetchStep, CrashStep, FlushInputStep, FlushApplyStep,
       AutoEvictStep, DetachStep, FreeLaterStep, FreeStep DEF WorkerStep
  <2> QED BY <1>2, <2>1, WorkerHeld
<1> QED BY <1>3, <1>4

-----------------------------------------------------------------------------
(* The theorems.                                                           *)

HIDE DEF Core, QueueCore, ValueCore, StackCore

\* IInv holds in every state of the channel, for any number of tensors, any
\* values and operator, any length of the queue and any use of DTR and of
\* async_level: it holds initially and every step keeps it.
THEOREM InductiveInvariant == Spec => []IInv
<1>1. Init => IInv
  <2> SUFFICES ASSUME Init PROVE IInv
    OBVIOUS
  <2>1. NewInfo \in TensorInfo /\ NewInfo.val = NoValue /\ NewInfo.ptr = "null"
    BY DEF NewInfo, TensorInfo
  <2>2. InfoOK
    BY <2>1 DEF Init, InfoOK
  <2>3. queue \in Seq(Commands) /\ m_apply_stack \in Seq(EntryType)
    BY SMT DEF Init
  <2>4. mode.dtr \in BOOLEAN
    BY ModesAssumption DEF Init
  <2>5. RestOK
    BY <2>4 DEF Init, RestOK, Idle, Props
  <2>6. TypeOK
    BY <2>2, <2>3, <2>5, TypeParts
  <2>7. DOMAIN queue = {} /\ DOMAIN m_apply_stack = {} /\ alive = {} /\ m_valid_handle = {}
    BY SMT DEF Init
  <2>8. QueueCore
    BY <2>7 DEF QueueCore, CommandInv, OutputInv, DelInv, KeptInv, HandleInv, QueuedDel, Kept
  <2>9. ValueCore
    BY <2>7 DEF ValueCore, PathInv, HostInv, ValueCorrect, ResultOrError
  <2>10. StackCore
    BY <2>7 DEF Init, StackCore, EntryInv, StackInv
  <2>11. HeldInv /\ WaitInv
    BY DEF Init, HeldInv, WaitInv, Idle, NoLostNotify
  <2> QED BY <2>6, <2>8, <2>9, <2>10, <2>11 DEF IInv, Core
<1>2. IInv /\ [Next]_vars => IInv'
  <2> SUFFICES ASSUME IInv, [Next]_vars PROVE IInv'
    OBVIOUS
  <2>1. TypeOK /\ Core /\ HeldInv /\ WaitInv
    BY DEF IInv
  <2>2. CASE WorkerStep
    BY <2>1, <2>2, WorkerCore, WorkerWait DEF IInv
  <2>3. CASE (wpc # "crashed" /\ Calls) \/ Continue \/ SpuriousWakeup
    <3>1. Core' /\ Kinds'
      <4>1. CASE SpuriousWakeup
        BY <2>1, <4>1, FrameStep DEF SpuriousWakeup, optionVars
      <4> QED BY <2>1, <2>3, <4>1, CallsStep, ContinueStep
    <3>2. RestOK' /\ HeldInv' /\ WaitInv'
      BY <2>1, <2>3, ClientRest, ClientHeld, ClientWait
    <3> QED BY <3>1, <3>2, TypePartsNext DEF IInv, Kinds
  <2>4. CASE UNCHANGED vars
    <3>1. UNCHANGED <<info, handleVars, queue, workerVars, worker_dtr>>
      BY <2>4 DEF vars, optionVars
    <3>2. Core' /\ Kinds'
      BY <2>1, <3>1, FrameStep
    <3>3. RestOK'
      BY <2>1, <2>4, TypeParts, SMT DEF RestOK, vars, handleVars, optionVars, workerVars, stackVars,
         waitVars
    <3>4. WaitInv'
      BY <2>1, <2>4 DEF WaitInv, NoLostNotify, Available, Dest, vars, handleVars, workerVars,
         waitVars
    <3>5. HeldInv'
      BY <2>1, <2>4, HeldKept DEF vars, optionVars, workerVars, stackVars
    <3> QED BY <3>2, <3>3, <3>4, <3>5, TypePartsNext DEF IInv, Kinds
  <2> QED BY <2>2, <2>3, <2>4 DEF Next, Ended
<1> QED BY <1>1, <1>2, PTL DEF Spec

\* What the inductive invariant says of the properties.
LEMMA Consequences ==
    IInv => /\ TypeOK /\ PoolSafe /\ ValueCorrect /\ ResultOrError
            /\ HostComputeReady /\ NoLostNotify
<1> SUFFICES ASSUME IInv PROVE /\ TypeOK /\ PoolSafe /\ ValueCorrect /\ ResultOrError
                               /\ HostComputeReady /\ NoLostNotify
  OBVIOUS
<1> USE DEF Core, QueueCore, ValueCore, StackCore
<1>1. TypeOK /\ Core /\ WaitInv
  BY DEF IInv
<1>2. PoolSafe
  <2>1. alive \subseteq Tensors /\ m_valid_handle \subseteq alive /\ None \notin Tensors
    BY <1>1, Basics
  <2>2. \A i \in DOMAIN queue :
          /\ queue[i].op # "SetOption" => queue[i].dest \in alive
          /\ queue[i].op = "ApplyOp" => queue[i].src \in alive
    BY <1>1 DEF CommandInv, Names
  <2>3. call.t # None => call.t \in alive
    BY <1>1, <2>1 DEF WaitInv
  <2>4. \A t \in alive : info[t].producer \in alive \cup {None}
    BY <1>1 DEF PathInv
  <2>5. m_valid_handle \cap (QueuedDel \cup Kept) = {}
    BY <1>1, Basics, SMT DEF DelInv, KeptInv, Kept
  <2> QED BY <1>1, <2>2, <2>3, <2>4, <2>5 DEF PoolSafe, HandleInv
<1>3. HostComputeReady
  BY <1>1, Basics DEF HostComputeReady, HostInv
<1> QED BY <1>1, <1>2, <1>3 DEF WaitInv

\* The variables of the channel keep their types, and a tensor has a value
\* exactly when its TensorInfo has a Tensor (ptr).
THEOREM ChannelTypes == Spec => []TypeOK
BY InductiveInvariant, Consequences, PTL

\* The pool of TensorInfo: whatever the order in which the client deletes tensors
\* and the worker frees them, neither a handle, a queued command, a waiting call
\* nor a recorded path refers to a TensorInfo that recursive_free() has returned to
\* the pool; with DTR on, what is live without a handle has a queued Del or users.
THEOREM ChannelPoolSafe == Spec => []PoolSafe
BY InductiveInvariant, Consequences, PTL

\* The value that the worker computes, however often it evicts and recomputes it,
\* and the one that dispatch_default_cpu() computes on the host are the value a
\* synchronous interpreter gives the tensor.
THEOREM ChannelValueCorrect == Spec => []ValueCorrect
BY InductiveInvariant, Consequences, PTL

\* Once the command that makes a tensor is processed, the tensor has a value, was
\* evicted with a path that computes it again, or is marked invalid.
THEOREM ChannelResultOrError == Spec => []ResultOrError
BY InductiveInvariant, Consequences, PTL

\* dispatch_default_cpu() finds the value of every input that shape inference has
\* a value for, without asking the worker.
THEOREM ChannelHostComputeReady == Spec => []HostComputeReady
BY InductiveInvariant, Consequences, PTL

\* wait_tensor() does not sleep on a result or an error that the worker has already
\* made and for which it will send no further notification.
THEOREM ChannelNoLostNotify == Spec => []NoLostNotify
BY InductiveInvariant, Consequences, PTL

=============================================================================
