-------------------------- MODULE ChannelCommands ---------------------------
(***************************************************************************)
(* The worker's commands keep the channel's inductive invariant: one lemma *)
(* per command, or per kind of commands that change the same things.  The  *)
(* steps of flush_apply_stack() are in module ChannelLemmas.               *)
(***************************************************************************)
EXTENDS ChannelLemmas

USE ZenonT(20) DEF Core, QueueCore, ValueCore, StackCore

-----------------------------------------------------------------------------
(* Put and ApplyOp.                                                        *)

\* The tensor of the first command is marked unusable, and the command is done:
\* nothing that is on the stack or has a path is computed from it.
LEMMA Poisoned ==
    ASSUME TypeOK, Core, UNCHANGED handleVars, worker_dtr' = worker_dtr,
           queue # <<>>, queue' = Tail(queue), Head(queue).op \in Outputs,
           info' = [info EXCEPT ![Dest].invalid = TRUE]
    PROVE  QueueCore' /\ ValueCore' /\ \A e : EntryOK(e) => EntryOK(e)'
<1>1. /\ alive' = alive /\ m_valid_handle' = m_valid_handle
      /\ alive \subseteq Tensors /\ m_valid_handle \subseteq alive /\ None \notin Tensors
      /\ QueuedDel \cup Kept \subseteq alive
  BY Basics DEF handleVars
<1>2. Dest \in alive /\ PendingOutput(Dest)
  BY HeadGone DEF CommandInv, Names, Outputs, Dest, QueueMoved
<1>3. /\ \A x \in Tensors : x # Dest => info'[x] = info[x]
      /\ SameDesc(Dest)
      /\ info'[Dest].producer = info[Dest].producer /\ info'[Dest].invalid
      /\ info'[Dest].allow_delete = info[Dest].allow_delete
      /\ info'[Dest].evicted = info[Dest].evicted /\ info'[Dest].val = info[Dest].val
      /\ info'[Dest].ptr = info[Dest].ptr
  BY <1>1, <1>2, SMT DEF TypeOK, TensorInfo, SameDesc
<1>4. \A x : PendingOutput(x)' <=> PendingOutput(x) /\ x # Dest
  BY HeadGone DEF QueueMoved
<1>5. QueuedDel' = QueuedDel
  BY HeadGone DEF Outputs
<1>6. Kept' = Kept /\ \A x : Users(x)' = Users(x)
  BY <1>1, <1>3, SMT DEF Users, Kept
<1>7. CommandInv' /\ DelInv'
  BY <1>1, HeadGone, SMT DEF CommandInv, DelInv, QueueMoved
<1>8. OutputInv'
  <2>1. \A i \in DOMAIN queue' : Dest # queue'[i].dest \/ queue'[i].op \notin Outputs
    BY <1>4 DEF PendingOutput, Outputs
  <2> QED BY <1>1, <1>3, <2>1, HeadGone, SMT DEF OutputInv, CommandInv, Names, SameDesc, Outputs, QueueMoved
<1>9. KeptInv'
  BY <1>1, <1>3, <1>6, HeadGone, SMT DEF KeptInv, Outputs, QueueMoved
<1>10. HandleInv'
  BY <1>1, <1>5, <1>6 DEF HandleInv
<1>11. PathInv' /\ HostInv'
  BY <1>1, <1>2, <1>3, <1>4, SMT DEF PathInv, HostInv, SameDesc
<1>12. ValueCorrect' /\ ResultOrError'
  BY <1>1, <1>3, <1>4, SMT DEF ValueCorrect, ResultOrError, SameDesc
<1>13. \A e : EntryOK(e) => EntryOK(e)'
  BY <1>1, <1>2, <1>3, <1>4 DEF EntryOK, SameDesc
<1> QED BY <1>7, <1>8, <1>9, <1>10, <1>11, <1>12, <1>13

\* Put keeps the invariant.
LEMMA PutStep ==
    ASSUME TypeOK, Core, DoPut
    PROVE  Core'
<1>1. /\ wpc = "run" /\ queue # <<>> /\ Head(queue).op = "Put" /\ queue' = Tail(queue) /\ wpc' = "run"
      /\ UNCHANGED <<handleVars, worker_dtr, m_apply_stack, m_applying>>
  BY DEF DoPut, Processing, Done, optionVars, stackVars
<1>2. PICK p \in {"dev", "const"} : info' = [info EXCEPT ![Dest] = Produced(@, p, info[Dest].want)]
  BY <1>1, HeadFacts DEF DoPut, PutValue
<1>3. QueueCore' /\ ValueCore' /\ \A e : EntryOK(e) => EntryOK(e)'
  BY <1>1, <1>2, HeadFacts, Produce DEF Outputs
<1>4. EntryInv' /\ StackInv'
  BY <1>1, <1>3, IdleEntries, StackIdle DEF EntryInv, StackInv, Dangling
<1> QED BY <1>3, <1>4

\* ApplyOp without DTR keeps the invariant.
LEMMA ApplyOpStep ==
    ASSUME TypeOK, Core, HeldInv, DoApplyOp
    PROVE  Core'
<1>1. /\ wpc = "run" /\ queue # <<>> /\ Head(queue).op = "ApplyOp" /\ queue' = Tail(queue) /\ wpc' = "run"
      /\ UNCHANGED <<handleVars, worker_dtr, m_apply_stack, m_applying>>
  BY DEF DoApplyOp, Processing, Done, optionVars
<1>2. info' = [info EXCEPT ![Dest] = Produced(@, "dev", info[Dest].want)]
  <2>1. held = info[Src].want
    BY <1>1 DEF DoApplyOp, HeldInv
  <2> QED BY <1>1, <2>1, HeadFacts DEF DoApplyOp
<1>3. QueueCore' /\ ValueCore' /\ \A e : EntryOK(e) => EntryOK(e)'
  BY <1>1, <1>2, HeadFacts, Produce DEF Outputs
<1>4. EntryInv' /\ StackInv'
  BY <1>1, <1>3, IdleEntries, StackIdle DEF EntryInv, StackInv, Dangling
<1> QED BY <1>3, <1>4

\* A Put or an ApplyOp that throws, and an ApplyOp on an unusable input, keep the
\* invariant.
LEMMA PoisonStep ==
    ASSUME TypeOK, Core, DoPutFails \/ DoApplyInvalid \/ DoApplyFails
    PROVE  Core'
<1>1. /\ wpc = "run" /\ queue # <<>> /\ Head(queue).op \in Outputs /\ queue' = Tail(queue) /\ wpc' = "run"
      /\ UNCHANGED <<handleVars, worker_dtr, m_apply_stack, m_applying>>
      /\ info' = [info EXCEPT ![Dest].invalid = TRUE]
  BY DEF DoPutFails, DoApplyInvalid, DoApplyFails, Catch, Poison, Processing, Done,
     optionVars, stackVars, Outputs
<1>2. QueueCore' /\ ValueCore' /\ \A e : EntryOK(e) => EntryOK(e)'
  BY <1>1, Poisoned
<1>3. EntryInv' /\ StackInv'
  BY <1>1, <1>2, IdleEntries, StackIdle DEF EntryInv, StackInv, Dangling
<1> QED BY <1>2, <1>3

\* An operator that throws under flush_apply_stack() keeps the invariant: its
\* entry was the only one that is not a path.
LEMMA FlushFailsStep ==
    ASSUME TypeOK, Core, FlushFails
    PROVE  Core'
<1> DEFINE n == Len(m_apply_stack)
<1>1. wpc = "flush" /\ queue # <<>> /\ m_apply_stack # <<>> /\ m_applying /\ ~Top.recomp
  BY DEF FlushFails, StackInv
<1>2. n \in DOMAIN m_apply_stack /\ n \in Nat /\ Top = m_apply_stack[n]
  BY <1>1, SMT DEF TypeOK, Top
<1>3. /\ Head(queue).op = "ApplyOp"
      /\ \A j \in 1 .. n - 1 : m_apply_stack[j].recomp
  BY <1>1, <1>2 DEF StackInv
<1>4. /\ DOMAIN m_apply_stack' = 1 .. n - 1
      /\ \A i \in 1 .. n - 1 : m_apply_stack'[i] = m_apply_stack[i] /\ i \in DOMAIN m_apply_stack
  BY <1>1, SMT DEF TypeOK, FlushFails, Below
<1>5. /\ queue' = Tail(queue) /\ wpc' = "run" /\ UNCHANGED <<handleVars, worker_dtr, m_applying>>
      /\ info' = [info EXCEPT ![Dest].invalid = TRUE]
  BY <1>3 DEF FlushFails, Catch, Done, optionVars
<1>6. QueueCore' /\ ValueCore' /\ \A e : EntryOK(e) => EntryOK(e)'
  BY <1>1, <1>3, <1>5, Poisoned DEF Outputs
<1>7. EntryInv'
  BY <1>4, <1>6 DEF EntryInv, Dangling
<1>8. StackInv'
  BY <1>1, <1>3, <1>4, <1>5, StackIdle
<1> QED BY <1>6, <1>7, <1>8

-----------------------------------------------------------------------------
(* Commands that begin to flush the stack.                                 *)

\* An operator that can be computed goes on the stack, which is flushed.
LEMMA PushFlush ==
    ASSUME TypeOK, Core, wpc = "run", queue # <<>>, NEW e \in EntryType, EntryOK(e),
           m_apply_stack' = Append(m_apply_stack, e), m_applying', wpc' = "flush",
           UNCHANGED <<info, handleVars, queue, worker_dtr>>,
           IF e.recomp THEN Head(queue).op \notin Outputs
           ELSE /\ Head(queue).op = "ApplyOp" /\ e.src = Src /\ e.dest = Dest /\ ~info[Src].invalid
    PROVE  Core'
<1> DEFINE n == Len(m_apply_stack) + 1
<1>1. /\ DOMAIN m_apply_stack' = DOMAIN m_apply_stack \cup {n} /\ n \notin DOMAIN m_apply_stack
      /\ \A i \in DOMAIN m_apply_stack : m_apply_stack'[i] = m_apply_stack[i] /\ i < n
      /\ m_apply_stack'[n] = e /\ m_apply_stack' # <<>>
  BY AppendFacts, SMT DEF TypeOK, EntryType
<1>2. 1 .. n - 1 = DOMAIN m_apply_stack
  BY SMT DEF TypeOK
<1>3. \A x \in alive : Keeps(x)
  BY DEF Keeps, SameDesc
<1>4. QueueCore' /\ ValueCore' /\ \A f : EntryOK(f) => EntryOK(f)'
  BY <1>3, Quiet
<1>5. EntryInv'
  BY <1>1, <1>4 DEF EntryInv, Dangling
<1>6. \A i \in DOMAIN m_apply_stack : m_apply_stack[i].recomp
  BY IdleEntries
<1>7. StackInv'
  BY <1>1, <1>2, <1>6, SMT DEF StackInv, Dest, Src, Outputs
<1> QED BY <1>4, <1>5, <1>7

\* ApplyOp with DTR keeps the invariant.
LEMMA ApplyStackStep ==
    ASSUME TypeOK, Core, DoApplyStack
    PROVE  Core'
<1>1. /\ wpc = "run" /\ queue # <<>> /\ Head(queue).op = "ApplyOp" /\ ~info[Src].invalid
      /\ m_apply_stack' = Append(m_apply_stack, Entry(Src, Dest, FALSE))
      /\ m_applying' /\ wpc' = "flush" /\ UNCHANGED <<info, handleVars, queue, worker_dtr>>
  BY DEF DoApplyStack, Processing, optionVars
<1>2. Src \in alive /\ Dest \in alive /\ EntryOK(Entry(Src, Dest, FALSE))
  BY <1>1, HeadFacts DEF EntryOK, Entry
<1>3. Entry(Src, Dest, FALSE) \in EntryType
  BY <1>2, Basics, SMT DEF Entry, EntryType
<1> QED BY <1>1, <1>2, <1>3, PushFlush DEF Entry

\* regenerate(), for a command or for a user of a tensor, keeps the invariant.
LEMMA RegenerateStep ==
    ASSUME TypeOK, Core, DoRegenerate \/ \E u \in Tensors : DoDetachRegenerate(u)
    PROVE  Core'
<1>1. PICK t \in alive :
         /\ info[t].evicted /\ Regenerate(t)
         /\ wpc = "run" /\ queue # <<>> /\ Head(queue).op \notin Outputs
         /\ UNCHANGED <<info, handleVars, queue, worker_dtr>>
  <2>1. CASE DoRegenerate
    BY <2>1, HeadFacts DEF DoRegenerate, Missing, Processing, optionVars, Outputs
  <2>2. CASE \E u \in Tensors : DoDetachRegenerate(u)
    BY <2>2 DEF DoDetachRegenerate, Processing, optionVars, Outputs, Users
  <2> QED BY <2>1, <2>2
<1> QED BY <1>1, PathEntry, PushFlush DEF Regenerate, Entry

\* StartRegen that finds m_applying set after an error keeps the invariant: the
\* path it leaves on the stack is correct.
LEMMA RegenBusyStep ==
    ASSUME TypeOK, Core, DoStartRegenBusy
    PROVE  Core'
<1> DEFINE n == Len(m_apply_stack) + 1
           e == Entry(info[Dest].producer, Dest, TRUE)
<1>1. /\ wpc = "run" /\ queue # <<>> /\ Head(queue).op = "StartRegen" /\ info[Dest].evicted
      /\ m_apply_stack' = Append(m_apply_stack, e) /\ m_applying'
      /\ queue' = Tail(queue) /\ wpc' = "run" /\ UNCHANGED <<info, handleVars, worker_dtr>>
  BY DEF DoStartRegenBusy, Processing, Missing, Done, optionVars
<1>2. Dest \in alive
  BY <1>1, HeadFacts
<1>3. EntryOK(e) /\ e \in EntryType
  BY <1>1, <1>2, PathEntry
<1>4. /\ DOMAIN m_apply_stack' = DOMAIN m_apply_stack \cup {n}
      /\ \A i \in DOMAIN m_apply_stack : m_apply_stack'[i] = m_apply_stack[i]
      /\ m_apply_stack'[n] = e
  <2>1. m_apply_stack \in Seq(EntryType)
    BY DEF TypeOK, EntryType
  <2>2. m_apply_stack' = Append(m_apply_stack, e) /\ e \in EntryType
    BY <1>1, <1>3
  <2> HIDE DEF e
  <2> QED BY <2>1, <2>2, AppendFacts, SMT
<1>5. \A x \in alive : Keeps(x)
  BY <1>1 DEF Keeps, SameDesc
<1>6. QueueCore' /\ ValueCore' /\ \A f : EntryOK(f) => EntryOK(f)'
  BY <1>1, <1>5, Quiet DEF Outputs
<1>7. EntryInv'
  BY <1>3, <1>4, <1>6 DEF EntryInv, Dangling
<1>8. StackInv'
  BY <1>1, <1>4, IdleEntries, StackIdle, SMT DEF Entry
<1> QED BY <1>6, <1>7, <1>8

-----------------------------------------------------------------------------
(* Commands that make and free nothing.                                    *)

\* Commands that end without making or freeing a tensor keep the invariant.
LEMMA DoneStep ==
    ASSUME TypeOK, Core, DoSetOption \/ DoNothing \/ DoNotify \/ DoUserDrop
    PROVE  Core'
<1>1. /\ wpc \in {"run", "notify"} /\ queue # <<>> /\ Head(queue).op \notin Outputs \cup {"Del"}
      /\ queue' = Tail(queue) /\ wpc' = "run"
      /\ UNCHANGED <<handleVars, m_apply_stack, m_applying>> /\ (worker_dtr' => worker_dtr)
  <2>1. CASE DoSetOption
    BY <2>1 DEF DoSetOption, Processing, Done, stackVars, Outputs
  <2>2. CASE DoNothing
    BY <2>2 DEF DoNothing, NothingToDo, Processing, Done, optionVars, stackVars, Outputs
  <2>3. CASE DoNotify
    BY <2>3 DEF DoNotify, Processing, Done, optionVars, stackVars, Outputs, StackInv
  <2>4. CASE DoUserDrop
    BY <2>4 DEF DoUserDrop, Processing, Done, optionVars, stackVars, Outputs
  <2> QED BY <2>1, <2>2, <2>3, <2>4
<1>2. \A x \in alive : Keeps(x)
  <2>1. CASE info' = info
    BY <2>1 DEF Keeps, SameDesc
  <2>2. CASE DoUserDrop /\ info' # info
    <3>1. /\ info' = [info EXCEPT ![Dest].evicted = TRUE, ![Dest].ptr = "null", ![Dest].val = NoValue]
          /\ info[Dest].producer # None
      BY <2>2 DEF DoUserDrop, DoDrop, CanDrop
    <3> QED BY <1>1, <2>2, <3>1, Basics, HeadFacts, DropFacts DEF DoUserDrop, Processing
  <2> QED BY <2>1, <2>2 DEF DoSetOption, DoNothing, DoNotify
<1>3. QueueCore' /\ ValueCore' /\ \A e : EntryOK(e) => EntryOK(e)'
  BY <1>1, <1>2, Quiet
<1>4. EntryInv' /\ StackInv'
  BY <1>1, <1>3, IdleEntries, StackIdle DEF EntryInv, StackInv, Dangling
<1> QED BY <1>3, <1>4

\* fetch_value() keeps the invariant.
LEMMA FetchStep ==
    ASSUME TypeOK, Core, DoFetchValue
    PROVE  Core'
<1>1. /\ wpc = "run" /\ queue # <<>> /\ Head(queue).op = "GetValue" /\ wpc' = "notify"
      /\ info[Dest].ptr # "null"
      /\ info' = [info EXCEPT ![Dest].ptr = IF @ = "dev" THEN "fetched" ELSE @]
      /\ UNCHANGED <<handleVars, queue, worker_dtr, m_apply_stack, m_applying>>
  BY DEF DoFetchValue, Processing, optionVars, stackVars
<1>2. Dest \in alive /\ Dest \in Tensors
  BY <1>1, HeadFacts, Basics
<1>3. \A x \in alive : Keeps(x)
  <2>1. \A x \in Tensors : x # Dest => info'[x] = info[x]
    BY <1>1 DEF TypeOK
  <2>2. info'[Dest] = [info[Dest] EXCEPT !.ptr = IF @ = "dev" THEN "fetched" ELSE @]
    BY <1>1, <1>2 DEF TypeOK
  <2>3. info[Dest] \in TensorInfo
    BY <1>2 DEF TypeOK
  <2>4. Keeps(Dest)
    BY <1>1, <2>2, <2>3, SMT DEF Keeps, SameDesc, TensorInfo
  <2> QED BY <2>1, <2>4, Basics, SMT DEF Keeps, SameDesc
<1>4. QueueCore' /\ ValueCore' /\ \A e : EntryOK(e) => EntryOK(e)'
  BY <1>1, <1>3, Quiet
<1>5. EntryInv' /\ StackInv'
  BY <1>1, <1>4, IdleEntries, StackIdle DEF EntryInv, StackInv, Dangling
<1> QED BY <1>4, <1>5

\* The use of a null or a dangling pointer changes nothing else.
LEMMA CrashStep ==
    ASSUME TypeOK, Core, Crash
    PROVE  Core'
<1>1. wpc' = "crashed" /\ UNCHANGED <<info, handleVars, queue, worker_dtr, m_apply_stack, m_applying>>
  BY DEF Crash, optionVars, stackVars
<1>2. \A x \in alive : Keeps(x)
  BY <1>1 DEF Keeps, SameDesc
<1>3. QueueCore' /\ ValueCore' /\ \A e : EntryOK(e) => EntryOK(e)'
  BY <1>1, <1>2, Quiet
<1>4. EntryInv' /\ StackInv'
  BY <1>1, <1>3 DEF EntryInv, StackInv, Dangling, Dest, Src
<1> QED BY <1>3, <1>4

-----------------------------------------------------------------------------
(* Del.                                                                    *)

\* detach_users() of one user keeps the invariant: the user has its value.
LEMMA DetachStep ==
    ASSUME TypeOK, Core, NEW u \in Tensors, DoDetach(u)
    PROVE  Core'
<1>1. /\ u \in alive /\ info[u].producer = Dest /\ ~info[u].evicted /\ ~worker_dtr /\ ~worker_dtr'
      /\ info' = [info EXCEPT ![u].producer = None]
      /\ UNCHANGED <<handleVars, queue, wpc, m_apply_stack, m_applying>>
      /\ Processing("Del")
  BY DEF DoDetach, Users, optionVars, workerVars, stackVars
<1>2. /\ alive' = alive /\ m_valid_handle' = m_valid_handle
      /\ alive \subseteq Tensors /\ m_valid_handle \subseteq alive /\ None \notin Tensors
  BY <1>1, Basics DEF handleVars
<1>3. /\ \A x \in Tensors : x # u => info'[x] = info[x]
      /\ info'[u] = [info[u] EXCEPT !.producer = None] /\ info[u] \in TensorInfo
  BY <1>1 DEF TypeOK
<1>4. \A x \in alive : /\ SameDesc(x) /\ info'[x].invalid = info[x].invalid
                       /\ info'[x].allow_delete = info[x].allow_delete
                       /\ info'[x].evicted = info[x].evicted /\ info'[x].ptr = info[x].ptr
                       /\ info'[x].val = info[x].val
                       /\ info'[x].producer \in {info[x].producer, None}
                       /\ info[x].evicted => info'[x].producer = info[x].producer
  <2>1. /\ SameDesc(u) /\ info'[u].invalid = info[u].invalid
        /\ info'[u].allow_delete = info[u].allow_delete
        /\ info'[u].evicted = info[u].evicted /\ info'[u].ptr = info[u].ptr
        /\ info'[u].val = info[u].val /\ info'[u].producer = None
    BY <1>3, PathRecord, SMT DEF SameDesc
  <2> QED BY <1>1, <1>2, <1>3, <2>1 DEF SameDesc
<1>5. \A x \in alive : Users(x)' \subseteq Users(x)
  BY <1>2, <1>4, SMT DEF Users
<1>6. (\A x : PendingOutput(x)' <=> PendingOutput(x)) /\ QueuedDel' = QueuedDel /\ Kept' = Kept
  BY <1>1, <1>2, <1>4, SMT DEF PendingOutput, QueuedDel, Kept
<1>7. CommandInv' /\ DelInv' /\ HandleInv'
  BY <1>1, <1>2, <1>6 DEF CommandInv, DelInv, HandleInv
<1>8. OutputInv'
  BY <1>1, <1>2, <1>4, SMT DEF OutputInv, CommandInv, Names, SameDesc, Outputs
<1>9. KeptInv'
  BY <1>1, <1>2, <1>4, <1>5, SMT DEF KeptInv
<1>10. PathInv' /\ HostInv'
  BY <1>1, <1>2, <1>4, <1>6, SMT DEF PathInv, HostInv, SameDesc
<1>11. ValueCorrect' /\ ResultOrError'
  BY <1>1, <1>2, <1>4, <1>6, SMT DEF ValueCorrect, ResultOrError, SameDesc
<1>12. EntryInv'
  BY <1>1, <1>2, <1>4, <1>6, SMT DEF EntryInv, EntryOK, Dangling, SameDesc
<1>13. StackInv'
  BY <1>1, IdleEntries, StackIdle DEF Processing, StackInv
<1> QED BY <1>7, <1>8, <1>9, <1>10, <1>11, <1>12, <1>13

\* A tensor with users is kept for them when its Del is done: the queue.
LEMMA RetireQueue ==
    ASSUME TypeOK, Core, Processing("Del"), NEW d, d = Dest, worker_dtr, Users(d) # {}, Retired(d),
           QueueMoved, QueuedDel' = QueuedDel \ {d}, wpc' = "run",
           alive' = alive, m_valid_handle' = m_valid_handle, worker_dtr' = worker_dtr
    PROVE  QueueCore'
<1>1. /\ d \in alive /\ d \notin m_valid_handle /\ d \in QueuedDel
      /\ \A i \in DOMAIN queue : d \in Names(queue[i]) => i = 1
  BY DelHead DEF Processing
<1>2. \A x \in alive : /\ info'[x].allow_delete <=> info[x].allow_delete \/ x = d
                       /\ info'[x].producer = info[x].producer
  BY <1>1 DEF Retired
<1>3. (\A x : Users(x)' = Users(x)) /\ Kept' = Kept \cup {d}
  BY <1>1, <1>2 DEF Users, Kept
<1>4. \A i \in DOMAIN queue' :
         i + 1 \in DOMAIN queue /\ queue'[i] = queue[i + 1] /\ i \in Nat /\ i >= 1 /\ i + 1 # 1
  BY SMT DEF QueueMoved
<1>5. \A i \in DOMAIN queue' : d \notin Names(queue'[i])
  BY <1>1, <1>4
<1>6. CommandInv' /\ DelInv'
  BY <1>4, SMT DEF CommandInv, DelInv
<1>7. HandleInv'
  BY <1>1, <1>3 DEF HandleInv
<1>8. OutputInv'
  <2>1. ASSUME NEW i \in DOMAIN queue', queue'[i].op \in Outputs
        PROVE  /\ queue'[i].dest \in alive \ {d}
               /\ queue'[i].op = "ApplyOp" => queue'[i].src \in alive
    <3>1. /\ Names(queue'[i]) \subseteq alive /\ queue'[i].dest # None
          /\ queue'[i].op = "ApplyOp" => queue'[i].src # None
      BY <1>6, <2>1 DEF CommandInv, Outputs
    <3> QED BY <1>5, <2>1, <3>1 DEF Names
  <2>2. ASSUME NEW i \in DOMAIN queue', queue'[i].op \in Outputs
        PROVE  /\ queue'[i].src # queue'[i].dest
               /\ \A j \in DOMAIN queue' : queue'[i].dest \in Names(queue'[j]) => i <= j
               /\ info[queue'[i].dest].ptr = "null"
               /\ info[queue'[i].dest].producer = None /\ ~info[queue'[i].dest].evicted
               /\ ~info[queue'[i].dest].allow_delete
               /\ queue'[i].op = "Put" => queue'[i].v = info[queue'[i].dest].want
               /\ queue'[i].op = "ApplyOp" =>
                     info[queue'[i].dest].want = Compute(info[queue'[i].src].want)
    <3>1. i + 1 \in DOMAIN queue /\ queue'[i] = queue[i + 1] /\ i + 1 > 1
      BY <1>4, SMT
    <3>2. \A j \in DOMAIN queue' : queue'[i].dest \in Names(queue'[j]) => i <= j
      BY <1>4, <2>2, <3>1, SMT DEF OutputInv
    <3> QED BY <2>2, <3>1, <3>2 DEF OutputInv
  <2>3. \A x \in alive : info'[x].want = info[x].want
    BY DEF Retired, SameDesc
  <2>4. \A x \in alive \ {d} : /\ info'[x].ptr = info[x].ptr /\ info'[x].evicted = info[x].evicted
                               /\ info'[x].allow_delete = info[x].allow_delete
    BY DEF Retired, SameValue
  <2>5. ASSUME NEW i \in DOMAIN queue', queue'[i].op \in Outputs
        PROVE  LET t == queue'[i].dest IN
               /\ info'[t].ptr = "null" /\ info'[t].producer = None
               /\ ~info'[t].evicted /\ ~info'[t].allow_delete
               /\ queue'[i].op = "Put" => queue'[i].v = info'[t].want
               /\ queue'[i].op = "ApplyOp" => info'[t].want = Compute(info'[queue'[i].src].want)
    BY <1>2, <2>1, <2>2, <2>3, <2>4, <2>5, SMT
  <2> QED BY <2>2, <2>5 DEF OutputInv
<1>9. KeptInv'
  <2>1. ASSUME NEW t \in alive \ {d}, info[t].allow_delete, NEW i \in DOMAIN queue'
        PROVE  t \notin Names(queue'[i])
    BY <1>4, <2>1 DEF KeptInv
  <2>2. ASSUME NEW t \in alive \ {d}, info[t].allow_delete PROVE t \notin m_valid_handle
    BY <2>2 DEF KeptInv
  <2> QED BY <1>1, <1>2, <1>5, <2>1, <2>2 DEF KeptInv
<1> QED BY <1>6, <1>7, <1>8, <1>9

\* A tensor with users is kept for them when its Del is done: the values.
LEMMA RetireValues ==
    ASSUME TypeOK, Core, NEW d \in alive, ~PendingOutput(d), Retired(d), alive' = alive,
           \A x : PendingOutput(x)' <=> PendingOutput(x)
    PROVE  ValueCore' /\ \A e : EntryOK(e) => EntryOK(e)'
<1>1. \A x \in alive :
         /\ info'[x].want = info[x].want /\ info'[x].h_value = info[x].h_value
         /\ info'[x].desc_value = info[x].desc_value /\ info'[x].invalid = info[x].invalid
         /\ info'[x].producer = info[x].producer
  BY DEF Retired, SameDesc
<1>2. \A x \in alive :
         \/ /\ info'[x].evicted = info[x].evicted /\ info'[x].val = info[x].val
            /\ info'[x].ptr = info[x].ptr
         \/ /\ x = d /\ info'[x].evicted /\ info'[x].ptr = "null" /\ info[x].producer # None
  BY DEF Retired, SameValue
<1>3. PathInv'
  BY <1>1, <1>2, SMT DEF PathInv
<1>4. HostInv'
  BY <1>1, <1>2 DEF HostInv
<1>5. ValueCorrect'
  BY <1>1, <1>2, SMT DEF ValueCorrect
<1>6. ResultOrError'
  BY <1>1, <1>2, SMT DEF ResultOrError
<1>7. \A e : EntryOK(e) => EntryOK(e)'
  BY <1>1 DEF EntryOK
<1> QED BY <1>3, <1>4, <1>5, <1>6, <1>7

\* A tensor with users is kept for them when its Del is done.
LEMMA Retire ==
    ASSUME TypeOK, Core, Processing("Del"), NEW d, d = Dest, worker_dtr, Users(d) # {}, Retired(d),
           QueueMoved, \A x : PendingOutput(x)' <=> PendingOutput(x),
           QueuedDel' = QueuedDel \ {d}, wpc' = "run",
           UNCHANGED <<handleVars, worker_dtr, m_apply_stack, m_applying>>
    PROVE  Core'
<1>1. wpc = "run" /\ Head(queue).op = "Del" /\ d \in alive /\ ~PendingOutput(d)
  BY DelHead DEF Processing
<1>2. /\ alive' = alive /\ m_valid_handle' = m_valid_handle /\ worker_dtr' = worker_dtr
      /\ m_apply_stack' = m_apply_stack /\ m_applying' = m_applying
  BY DEF handleVars
<1>3. QueueCore'
  BY <1>2, RetireQueue
<1>4. ValueCore' /\ \A e : EntryOK(e) => EntryOK(e)'
  BY <1>1, <1>2, RetireValues
<1>5. EntryInv'
  BY <1>2, <1>4 DEF EntryInv, Dangling
<1>6. StackInv'
  <2>1. \A i \in DOMAIN m_apply_stack : m_apply_stack[i].recomp
    BY <1>1, IdleEntries
  <2>2. m_apply_stack # <<>> => m_applying
    BY DEF StackInv
  <2> QED BY <1>2, <2>1, <2>2, StackIdle, SMT
<1> QED BY <1>3, <1>4, <1>5, <1>6

\* free() of a tensor with users keeps the invariant.
LEMMA FreeLaterStep ==
    ASSUME TypeOK, Core, DoFreeLater
    PROVE  Core'
<1>1. /\ Processing("Del") /\ worker_dtr /\ Users(Dest) # {}
      /\ queue' = Tail(queue) /\ wpc' = "run"
      /\ UNCHANGED <<handleVars, worker_dtr, m_apply_stack, m_applying>>
  BY DEF DoFreeLater, Done, optionVars, stackVars
<1>2. PICK d \in Tensors : d = Dest
  BY <1>1, DelHead
<1>3. PICK c \in BOOLEAN : c = CanDrop(d)
  BY DEF CanDrop
<1>4. info' = [info EXCEPT ![d].allow_delete = TRUE, ![d].evicted = @ \/ c,
                           ![d].ptr = IF c THEN "null" ELSE @, ![d].val = IF c THEN NoValue ELSE @]
  BY <1>2, <1>3 DEF DoFreeLater
<1>5. /\ \A x \in Tensors : x # d => info'[x] = info[x]
      /\ info'[d] = [info[d] EXCEPT !.allow_delete = TRUE, !.evicted = @ \/ c,
                           !.ptr = IF c THEN "null" ELSE @, !.val = IF c THEN NoValue ELSE @]
      /\ info[d] \in TensorInfo
  BY <1>3, <1>4 DEF TypeOK
<1>6. /\ SameDesc(d) /\ info'[d].invalid = info[d].invalid /\ info'[d].allow_delete
      /\ info'[d].producer = info[d].producer
      /\ ~c => info'[d].evicted = info[d].evicted /\ info'[d].ptr = info[d].ptr /\ info'[d].val = info[d].val
      /\ c => info'[d].evicted /\ info'[d].ptr = "null"
  <2>1. PICK r \in TensorInfo : r = info[d]
    BY <1>5
  <2>2. info'[d] = [r EXCEPT !.allow_delete = TRUE, !.evicted = @ \/ c,
                             !.ptr = IF c THEN "null" ELSE @, !.val = IF c THEN NoValue ELSE @]
    BY <1>5, <2>1
  <2>3. info'[d] = [r EXCEPT !.allow_delete = TRUE, !.evicted = r.evicted \/ c,
                             !.ptr = IF c THEN "null" ELSE r.ptr,
                             !.val = IF c THEN NoValue ELSE r.val]
    BY <2>2
  <2>4. /\ info'[d].want = r.want /\ info'[d].h_value = r.h_value /\ info'[d].desc_value = r.desc_value
        /\ info'[d].invalid = r.invalid /\ info'[d].allow_delete /\ info'[d].producer = r.producer
        /\ info'[d].evicted = (r.evicted \/ c) /\ info'[d].ptr = (IF c THEN "null" ELSE r.ptr)
        /\ info'[d].val = (IF c THEN NoValue ELSE r.val)
    BY <2>3 DEF TensorInfo
  <2>5. r.evicted \in BOOLEAN
    BY DEF TensorInfo
  <2> QED BY <2>1, <2>4, <2>5 DEF SameDesc
<1>7. c => info[d].producer # None
  BY <1>3 DEF CanDrop
<1>8. /\ \A x \in alive : SameDesc(x) /\ info'[x].invalid = info[x].invalid
                         /\ info'[x].producer = info[x].producer
      /\ \A x \in alive \ {d} : SameValue(x) /\ info'[x].allow_delete = info[x].allow_delete
  BY <1>5, <1>6, Basics DEF SameDesc, SameValue
<1>9. SameValue(d) \/ (info'[d].evicted /\ info'[d].ptr = "null" /\ info[d].producer # None)
  <2>1. CASE c
    BY <1>6, <1>7, <2>1
  <2>2. CASE ~c
    BY <1>6, <2>2 DEF SameValue
  <2> QED BY <2>1, <2>2
<1>10. Retired(d)
  BY <1>6, <1>8, <1>9 DEF Retired
<1>11. /\ QueueMoved /\ QueuedDel' = QueuedDel \ {d}
       /\ \A x : PendingOutput(x)' <=> PendingOutput(x)
  BY <1>1, <1>2, HeadGone DEF Processing, Outputs
<1> QED BY <1>1, <1>2, <1>10, <1>11, Retire

\* real_free(): what does not name the freed tensor is as before, and nothing but
\* the stack can name it.
LEMMA FreeValues ==
    ASSUME TypeOK, Core, NEW d \in alive, Users(d) = {}, alive' = alive \ {d},
           \A x \in Tensors : x # d => info'[x] = info[x],
           \A x : PendingOutput(x)' <=> PendingOutput(x)
    PROVE  /\ ValueCore'
           /\ \A e : EntryOK(e) /\ d \notin {e.src, e.dest} => EntryOK(e)'
           /\ \A x : Users(x)' = Users(x) \ {d}
           /\ Kept' = Kept \ {d}
<1>1. alive \subseteq Tensors
  BY Basics
<1>2. \A t \in alive : info[t].producer # d
  BY DEF Users
<1>3. PathInv'
  BY <1>1, <1>2, SMT DEF PathInv
<1>4. HostInv' /\ ValueCorrect' /\ ResultOrError'
  BY <1>1 DEF HostInv, ValueCorrect, ResultOrError
<1>5. \A e : EntryOK(e) /\ d \notin {e.src, e.dest} => EntryOK(e)'
  BY <1>1 DEF EntryOK
<1>6. (\A x : Users(x)' = Users(x) \ {d}) /\ Kept' = Kept \ {d}
  BY <1>1 DEF Users, Kept
<1> QED BY <1>3, <1>4, <1>5, <1>6

\* recursive_free() ends: the Del is done.
LEMMA FreeLast ==
    ASSUME TypeOK, Core, Processing("Del"), NEW d, d = Dest, Users(d) = {}, FreedNext(d) = {},
           alive' = alive \ {d}, m_valid_handle' = m_valid_handle, worker_dtr' = worker_dtr,
           \A x \in Tensors : x # d => info'[x] = info[x],
           queue' = Tail(queue)
    PROVE  QueueCore' /\ \A x : PendingOutput(x)' <=> PendingOutput(x)
<1>1. /\ queue # <<>> /\ wpc = "run" /\ Head(queue).op = "Del"
      /\ d \in alive /\ d \in Tensors /\ d \notin m_valid_handle /\ d \in QueuedDel
      /\ \A i \in DOMAIN queue : d \in Names(queue[i]) => i = 1
  BY DelHead DEF Processing
<1>2. alive \subseteq Tensors /\ m_valid_handle \subseteq alive /\ None \notin Tensors
  BY Basics
<1>3. (\A x : PendingOutput(x)' <=> PendingOutput(x)) /\ QueuedDel' = QueuedDel \ {d}
  BY <1>1, HeadGone DEF Outputs
<1>4. \A i \in DOMAIN queue' :
         i + 1 \in DOMAIN queue /\ queue'[i] = queue[i + 1] /\ i \in Nat /\ i >= 1 /\ i + 1 # 1
  BY <1>1, HeadGone, SMT DEF QueueMoved
<1>5. \A i \in DOMAIN queue' : d \notin Names(queue'[i])
  BY <1>1, <1>4
<1>6. (\A x : Users(x)' = Users(x) \ {d}) /\ Kept' = Kept \ {d}
  BY <1>1, <1>3, FreeValues
<1>7. CommandInv'
  BY <1>4, <1>5, SMT DEF CommandInv
<1>8. DelInv'
  BY <1>4, SMT DEF DelInv
<1>9. OutputInv'
  <2>1. ASSUME NEW i \in DOMAIN queue', queue'[i].op \in Outputs
        PROVE  /\ queue'[i].dest # d /\ queue'[i].dest \in Tensors
               /\ queue'[i].op = "ApplyOp" => queue'[i].src # d /\ queue'[i].src \in Tensors
    <3>1. /\ Names(queue'[i]) \subseteq alive' /\ queue'[i].dest # None
          /\ queue'[i].op = "ApplyOp" => queue'[i].src # None
      BY <1>7, <2>1 DEF CommandInv, Outputs
    <3> QED BY <1>2, <3>1 DEF Names
  <2>2. ASSUME NEW i \in DOMAIN queue', queue'[i].op \in Outputs
        PROVE  /\ queue'[i].src # queue'[i].dest
               /\ \A j \in DOMAIN queue' : queue'[i].dest \in Names(queue'[j]) => i <= j
               /\ info[queue'[i].dest].ptr = "null"
               /\ info[queue'[i].dest].producer = None /\ ~info[queue'[i].dest].evicted
               /\ ~info[queue'[i].dest].allow_delete
               /\ queue'[i].op = "Put" => queue'[i].v = info[queue'[i].dest].want
               /\ queue'[i].op = "ApplyOp" =>
                     info[queue'[i].dest].want = Compute(info[queue'[i].src].want)
    <3>1. i + 1 \in DOMAIN queue /\ queue'[i] = queue[i + 1] /\ i + 1 > 1
      BY <1>4, SMT
    <3>2. \A j \in DOMAIN queue' : queue'[i].dest \in Names(queue'[j]) => i <= j
      BY <1>4, <2>2, <3>1, SMT DEF OutputInv
    <3> QED BY <2>2, <3>1, <3>2 DEF OutputInv
  <2>3. ASSUME NEW i \in DOMAIN queue', queue'[i].op \in Outputs
        PROVE  LET t == queue'[i].dest IN
               /\ info'[t].ptr = "null" /\ info'[t].producer = None
               /\ ~info'[t].evicted /\ ~info'[t].allow_delete
               /\ queue'[i].op = "Put" => queue'[i].v = info'[t].want
               /\ queue'[i].op = "ApplyOp" => info'[t].want = Compute(info'[queue'[i].src].want)
    <3>1. info'[queue'[i].dest] = info[queue'[i].dest]
      BY <2>1, <2>3
    <3>2. queue'[i].op = "ApplyOp" => info'[queue'[i].src] = info[queue'[i].src]
      BY <2>1, <2>3
    <3> QED BY <2>2, <2>3, <3>1, <3>2
  <2> QED BY <2>2, <2>3 DEF OutputInv
<1>10. KeptInv'
  BY <1>2, <1>4, SMT DEF KeptInv
<1>11. HandleInv'
  <2>1. alive' = m_valid_handle' \cup QueuedDel' \cup Kept'
    BY <1>1, <1>3, <1>6 DEF HandleInv
  <2>2. ASSUME worker_dtr', NEW t \in Kept' \ QueuedDel' PROVE Users(t)' # {}
    <3>1. t \in Kept \ QueuedDel /\ t # d /\ Users(t) # {} /\ worker_dtr
      BY <1>1, <1>3, <1>6, <2>2 DEF HandleInv
    <3>2. Users(t) # {d}
      BY <3>1, SMT DEF FreedNext, Users, Kept
    <3> QED BY <1>6, <3>1, <3>2
  <2> QED BY <2>1, <2>2 DEF HandleInv
<1> QED BY <1>3, <1>7, <1>8, <1>9, <1>10, <1>11

\* recursive_free() goes on with the input: it was kept only for the freed tensor,
\* so no command names it.
LEMMA FreeNext ==
    ASSUME TypeOK, Core, Processing("Del"), NEW d, d = Dest, Users(d) = {}, NEW s \in FreedNext(d),
           alive' = alive \ {d}, m_valid_handle' = m_valid_handle, worker_dtr' = worker_dtr,
           \A x \in Tensors : x # d => info'[x] = info[x],
           queue' = [queue EXCEPT ![1].dest = s]
    PROVE  QueueCore' /\ \A x : PendingOutput(x)' <=> PendingOutput(x)
<1>1. /\ queue # <<>> /\ wpc = "run" /\ Head(queue).op = "Del" /\ 1 \in DOMAIN queue
      /\ queue[1] = Head(queue)
      /\ d \in alive /\ d \in Tensors /\ d \notin m_valid_handle /\ d \in QueuedDel
      /\ \A i \in DOMAIN queue : d \in Names(queue[i]) => i = 1
      /\ \A i \in DOMAIN queue : i >= 1 /\ i \in Nat
  BY DelHead DEF Processing
<1>2. alive \subseteq Tensors /\ m_valid_handle \subseteq alive /\ None \notin Tensors
  BY Basics
<1>3. /\ s \in alive /\ info[d].producer = s /\ info[s].allow_delete /\ Users(s) = {d} /\ s # d
      /\ s \in Tensors
  BY <1>2 DEF FreedNext
<1>4. /\ DOMAIN queue' = DOMAIN queue
      /\ \A i \in DOMAIN queue : i # 1 => queue'[i] = queue[i]
      /\ queue'[1].op = "Del" /\ queue'[1].dest = s /\ queue'[1].src = queue[1].src
  <2>1. queue[1] \in Commands /\ DOMAIN queue' = DOMAIN queue
    BY <1>1, HeadFacts DEF TypeOK
  <2>2. queue'[1] = [queue[1] EXCEPT !.dest = s] /\ \A i \in DOMAIN queue : i # 1 => queue'[i] = queue[i]
    BY <1>1 DEF TypeOK
  <2> QED BY <1>1, <2>1, <2>2 DEF Commands
<1>5. queue[1].src = None /\ Names(queue'[1]) = {s}
  BY <1>1, <1>2, <1>3, <1>4, SMT DEF CommandInv, Names
<1>6. \A i \in DOMAIN queue : s \notin Names(queue[i])
  BY <1>3 DEF KeptInv
<1>7. \A x : PendingOutput(x)' <=> PendingOutput(x)
  BY <1>1, <1>4 DEF PendingOutput
<1>8. QueuedDel' = (QueuedDel \ {d}) \cup {s}
  <2>1. \A i \in DOMAIN queue : i # 1 /\ queue[i].op = "Del" => queue[i].dest # d
    BY <1>1, <1>2 DEF Names
  <2> QED BY <1>1, <1>4, <2>1, SMT DEF QueuedDel, Dest
<1>9. (\A x : Users(x)' = Users(x) \ {d}) /\ Kept' = Kept \ {d}
  BY <1>1, <1>7, FreeValues
<1>10. CommandInv'
  <2>1. ASSUME NEW i \in DOMAIN queue', i # 1
        PROVE  /\ queue'[i].dest = None <=> queue'[i].op = "SetOption"
               /\ queue'[i].src = None <=> queue'[i].op # "ApplyOp"
               /\ Names(queue'[i]) \subseteq alive'
    BY <1>1, <1>4, <2>1, SMT DEF CommandInv
  <2>2. /\ queue'[1].dest = None <=> queue'[1].op = "SetOption"
        /\ queue'[1].src = None <=> queue'[1].op # "ApplyOp"
        /\ Names(queue'[1]) \subseteq alive'
    BY <1>2, <1>3, <1>4, <1>5
  <2> QED BY <2>1, <2>2 DEF CommandInv
<1>11. DelInv'
  <2>1. ASSUME NEW i \in DOMAIN queue', queue'[i].op = "Del", i # 1
        PROVE  /\ queue'[i].dest \notin m_valid_handle'
               /\ \A j \in DOMAIN queue' : queue'[i].dest \in Names(queue'[j]) => j <= i
    BY <1>1, <1>4, <2>1, SMT DEF DelInv
  <2>2. /\ s \notin m_valid_handle'
        /\ \A j \in DOMAIN queue' : s \in Names(queue'[j]) => j <= 1
    BY <1>3, <1>4, <1>6, SMT DEF KeptInv
  <2> QED BY <1>4, <2>1, <2>2, SMT DEF DelInv
<1>12. OutputInv'
  <2>1. ASSUME NEW i \in DOMAIN queue, queue[i].op \in Outputs
        PROVE  /\ i # 1 /\ queue'[i] = queue[i] /\ queue[i].dest \notin {s, d, None} /\ queue[i].src # d
               /\ queue[i].dest \in Tensors
               /\ queue[i].op = "ApplyOp" => queue[i].src \in Tensors
    <3>1. i # 1 /\ queue[i].dest # None
      BY <1>1, <2>1 DEF Outputs, CommandInv
    <3>2. queue[i].dest \in Names(queue[i]) /\ (queue[i].src # None => queue[i].src \in Names(queue[i]))
      BY <3>1 DEF Names
    <3> QED BY <1>1, <1>2, <1>4, <1>6, <2>1, <3>1, <3>2, SMT DEF CommandInv
  <2>2. ASSUME NEW i \in DOMAIN queue, queue[i].op \in Outputs, NEW j \in DOMAIN queue,
               queue[i].dest \in Names(queue'[j])
        PROVE  i <= j
    <3>1. j # 1 /\ queue'[j] = queue[j]
      BY <1>4, <1>5, <2>1, <2>2
    <3> QED BY <2>2, <3>1 DEF OutputInv
  <2> QED BY <1>1, <1>4, <2>1, <2>2, SMT DEF OutputInv, Outputs
<1>13. KeptInv'
  <2>1. ASSUME NEW t \in alive', info'[t].allow_delete
        PROVE  t # d /\ t \in alive /\ info[t].allow_delete /\ t \notin m_valid_handle'
    BY <1>2, <2>1 DEF KeptInv
  <2>2. ASSUME NEW t \in alive', info'[t].allow_delete, NEW i \in DOMAIN queue', t \in Names(queue'[i])
        PROVE  i = 1 /\ queue'[i].op = "Del" /\ Users(t)' = {}
    <3>1. t # d /\ t \in alive /\ info[t].allow_delete
      BY <2>1, <2>2
    <3>2. i = 1
      BY <1>4, <2>2, <3>1 DEF KeptInv
    <3>3. t = s
      BY <1>5, <2>2, <3>2
    <3> QED BY <1>3, <1>4, <1>9, <3>2, <3>3
  <2> QED BY <2>1, <2>2 DEF KeptInv
<1>14. HandleInv'
  <2>1. alive' = m_valid_handle' \cup QueuedDel' \cup Kept'
    BY <1>1, <1>3, <1>8, <1>9, SMT DEF HandleInv
  <2>2. ASSUME worker_dtr', NEW t \in Kept' \ QueuedDel' PROVE Users(t)' # {}
    <3>1. t \in Kept \ QueuedDel /\ t # d /\ t # s /\ Users(t) # {} /\ worker_dtr
      BY <1>1, <1>8, <1>9, <2>2 DEF HandleInv
    <3>2. Users(t) # {d}
      BY <1>3, <3>1 DEF Users
    <3> QED BY <1>9, <3>1, <3>2
  <2> QED BY <2>1, <2>2 DEF HandleInv
<1> QED BY <1>7, <1>10, <1>11, <1>12, <1>13, <1>14

\* recursive_free() and real_free() keep the invariant: entries of the stack that
\* name the freed tensor are dangling from now on.
LEMMA FreeStep ==
    ASSUME TypeOK, Core, DoFree
    PROVE  Core'
<1>1. PICK d \in Tensors : d = Dest /\ d \in alive
  BY DelHead DEF DoFree
<1>2. /\ Processing("Del") /\ Users(d) = {} /\ wpc = "run" /\ wpc' = "run"
      /\ alive' = alive \ {d} /\ m_valid_handle' = m_valid_handle /\ worker_dtr' = worker_dtr
      /\ m_applying' = m_applying
  BY <1>1 DEF DoFree, Processing, Done, optionVars
<1>3. \A x \in Tensors : x # d => info'[x] = info[x]
  BY <1>1 DEF DoFree, TypeOK
<1>4. QueueCore' /\ \A x : PendingOutput(x)' <=> PendingOutput(x)
  <2>1. CASE FreedNext(d) = {}
    <3>1. queue' = Tail(queue)
      BY <1>1, <2>1 DEF DoFree, Done
    <3> QED BY <1>1, <1>2, <1>3, <2>1, <3>1, FreeLast
  <2>2. CASE FreedNext(d) # {}
    <3>1. PICK s \in FreedNext(d) : queue' = [queue EXCEPT ![1].dest = s]
      BY <1>1, <2>2 DEF DoFree
    <3> QED BY <1>1, <1>2, <1>3, <3>1, FreeNext
  <2> QED BY <2>1, <2>2
<1>5. /\ ValueCore'
      /\ \A e : EntryOK(e) /\ d \notin {e.src, e.dest} => EntryOK(e)'
  BY <1>1, <1>2, <1>3, <1>4, FreeValues
<1>6. m_apply_stack' = [i \in DOMAIN m_apply_stack |->
                            IF d \in {m_apply_stack[i].src, m_apply_stack[i].dest}
                            THEN [m_apply_stack[i] EXCEPT !.dest = None]
                            ELSE m_apply_stack[i]]
  BY <1>1 DEF DoFree
<1>7. m_apply_stack \in Seq(EntryType)
  BY DEF TypeOK, EntryType
<1>8. \A i \in DOMAIN m_apply_stack : m_apply_stack[i] \in EntryType
  BY <1>7, SeqElement
<1>9. DOMAIN m_apply_stack' = DOMAIN m_apply_stack
  BY <1>6
<1>10. ASSUME NEW i \in DOMAIN m_apply_stack
       PROVE  /\ m_apply_stack'[i].recomp = m_apply_stack[i].recomp
              /\ \/ m_apply_stack'[i].dest = None
                 \/ /\ d \notin {m_apply_stack[i].src, m_apply_stack[i].dest}
                    /\ m_apply_stack'[i] = m_apply_stack[i]
  <2>1. CASE d \in {m_apply_stack[i].src, m_apply_stack[i].dest}
    <3>1. m_apply_stack'[i] = [m_apply_stack[i] EXCEPT !.dest = None] /\ m_apply_stack[i] \in EntryType
      BY <1>6, <1>8, <2>1
    <3> QED BY <3>1 DEF EntryType
  <2>2. CASE d \notin {m_apply_stack[i].src, m_apply_stack[i].dest}
    BY <1>6, <2>2
  <2> QED BY <2>1, <2>2
<1>11. EntryInv'
  BY <1>5, <1>9, <1>10 DEF EntryInv, Dangling
<1>12. m_apply_stack' # <<>> => m_applying'
  <2>1. CASE m_apply_stack = <<>>
    BY <1>6, <2>1, SMT
  <2>2. CASE m_apply_stack # <<>>
    BY <1>2, <2>2 DEF StackInv
  <2> QED BY <2>1, <2>2
<1>13. StackInv'
  BY <1>2, <1>9, <1>10, <1>12, IdleEntries, StackIdle
<1> QED BY <1>4, <1>5, <1>11, <1>13
=============================================================================
