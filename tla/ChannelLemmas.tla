---------------------------- MODULE ChannelLemmas ---------------------------
(***************************************************************************)
(* Lemmas on which the proof of the channel's inductive invariant (module  *)
(* ChannelInvariant) rests: facts about sequences and records, about the   *)
(* command the worker is at and the entries of m_apply_stack, and the two  *)
(* effects that most commands share, Quiet and Produce. With them, the     *)
(* steps of flush_apply_stack(), and evictions while it runs, keep the     *)
(* invariant: every entry still computes what it was pushed for, and the   *)
(* operator of an ApplyOp stays on the stack until its output is there.    *)
(***************************************************************************)
EXTENDS ChannelInvariant, TLAPS

USE ZenonT(20) DEF Core, QueueCore, ValueCore, StackCore

-----------------------------------------------------------------------------
(* Sequences, and the records of the tensors.                              *)

\* What Append() does to the elements, the domain and the head of a sequence.
LEMMA AppendFacts ==
    ASSUME NEW S, NEW s \in Seq(S), NEW e \in S
    PROVE  /\ Append(s, e) \in Seq(S) /\ Append(s, e) # <<>>
           /\ DOMAIN Append(s, e) = DOMAIN s \cup {Len(s) + 1}
           /\ Len(s) + 1 \notin DOMAIN s
           /\ \A i \in DOMAIN s : Append(s, e)[i] = s[i] /\ i < Len(s) + 1
           /\ Append(s, e)[Len(s) + 1] = e
           /\ s # <<>> => Head(Append(s, e)) = Head(s)
           /\ s = <<>> => Head(Append(s, e)) = e
  BY SMT

\* Append() leaves the head of a sequence that has one, whatever it appends.
LEMMA HeadStays ==
    ASSUME NEW S, NEW s \in Seq(S), NEW e, s # <<>>
    PROVE  Append(s, e) # <<>> /\ Head(Append(s, e)) = Head(s)
  BY SMT

\* What Tail() does to the elements of a sequence.
LEMMA TailFacts ==
    ASSUME NEW S, NEW s \in Seq(S), s # <<>>
    PROVE  /\ Tail(s) \in Seq(S) /\ Head(s) \in S
           /\ 1 \in DOMAIN s /\ s[1] = Head(s)
           /\ \A i \in DOMAIN Tail(s) : i + 1 \in DOMAIN s /\ Tail(s)[i] = s[i + 1] /\ i \in Nat /\ i >= 1
           /\ \A i \in DOMAIN s : i # 1 => i - 1 \in DOMAIN Tail(s) /\ Tail(s)[i - 1] = s[i] /\ i > 1
  BY SMT

\* An element of a sequence over S is in S.
LEMMA SeqElement ==
    ASSUME NEW S, NEW s \in Seq(S), NEW i \in DOMAIN s
    PROVE  s[i] \in S
  BY SMT

\* The concatenation of two sequences over S, and its elements.
LEMMA Concat ==
    ASSUME NEW S, NEW s \in Seq(S), NEW u \in Seq(S)
    PROVE  /\ s \o u \in Seq(S) /\ Len(s \o u) = Len(s) + Len(u)
           /\ \A i \in 1 .. Len(s) + Len(u) :
                (s \o u)[i] = IF i <= Len(s) THEN s[i] ELSE u[i - Len(s)]
<1>1. Len(s \o u) = Len(s) + Len(u)
  BY SMT
<1>2. s \o u \in Seq(S)
  BY SMT
<1>3. \A i \in 1 .. Len(s) + Len(u) : (s \o u)[i] = IF i <= Len(s) THEN s[i] ELSE u[i - Len(s)]
  BY SMT
<1> QED BY <1>1, <1>2, <1>3

\* A function on 1 .. n is a sequence.
LEMMA FunIsSeq ==
    ASSUME NEW S, NEW n \in Nat, NEW s \in [1 .. n -> S]
    PROVE  s \in Seq(S)
  BY SMT

\* The elements of a sequence that two elements are appended to.
LEMMA TwoMore ==
    ASSUME NEW S, NEW s \in Seq(S), NEW d \in S, NEW e \in S, NEW n \in Nat, Len(s) = n - 1
    PROVE  LET r == s \o <<d, e>> IN
           /\ DOMAIN r = 1 .. n + 1 /\ Len(r) = n + 1 /\ r[n] = d /\ r[n + 1] = e
           /\ \A i \in 1 .. n - 1 : r[i] = s[i]
<1>1. <<d, e>> \in Seq(S) /\ Len(<<d, e>>) = 2 /\ <<d, e>>[1] = d /\ <<d, e>>[2] = e
  BY SMT
<1>2. /\ s \o <<d, e>> \in Seq(S) /\ Len(s \o <<d, e>>) = n + 1
      /\ \A i \in 1 .. n + 1 : (s \o <<d, e>>)[i] = IF i <= n - 1 THEN s[i] ELSE <<d, e>>[i - (n - 1)]
  BY <1>1, Concat, SMT
<1>3. n \in 1 .. n + 1 /\ n + 1 \in 1 .. n + 1 /\ n - (n - 1) = 1 /\ n + 1 - (n - 1) = 2
  BY SMT
<1> QED BY <1>1, <1>2, <1>3, SMT

\* do_drop(): the fields it changes, and those it does not.
LEMMA DropRecord ==
    ASSUME NEW r \in TensorInfo
    PROVE  LET q == [r EXCEPT !.evicted = TRUE, !.ptr = "null", !.val = NoValue]
           IN  /\ q.evicted = TRUE /\ q.ptr = "null" /\ q.val = NoValue
               /\ q.want = r.want /\ q.h_value = r.h_value /\ q.desc_value = r.desc_value
               /\ q.producer = r.producer /\ q.invalid = r.invalid
               /\ q.allow_delete = r.allow_delete /\ q.shape = r.shape
  BY DEF TensorInfo

\* produce_tensor(): the fields it changes, and those it does not.
LEMMA ProducedRecord ==
    ASSUME NEW r \in TensorInfo, NEW p \in {"dev", "const"}, NEW v \in Values \cup {NoValue}
    PROVE  LET q == Produced(r, p, v)
           IN  /\ q \in TensorInfo
               /\ ~q.evicted /\ q.ptr = p /\ q.val = v
               /\ q.want = r.want /\ q.h_value = r.h_value /\ q.desc_value = r.desc_value
               /\ q.producer = r.producer /\ q.invalid = r.invalid
               /\ q.allow_delete = r.allow_delete
  BY DEF Produced, TensorInfo

\* Recording, or giving up, the path of a tensor changes no other field.
LEMMA PathRecord ==
    ASSUME NEW r \in TensorInfo, NEW p
    PROVE  LET q == [r EXCEPT !.producer = p]
           IN  /\ q.evicted = r.evicted /\ q.ptr = r.ptr /\ q.val = r.val
               /\ q.want = r.want /\ q.h_value = r.h_value /\ q.desc_value = r.desc_value
               /\ q.producer = p /\ q.invalid = r.invalid
               /\ q.allow_delete = r.allow_delete
               /\ p \in Tensors \cup {None} => q \in TensorInfo
  BY DEF TensorInfo

-----------------------------------------------------------------------------
(* Types.                                                                  *)

\* TypeOK, in the parts that steps disturb separately.
LEMMA TypeParts ==
    TypeOK <=> InfoOK /\ queue \in Seq(Commands) /\ m_apply_stack \in Seq(EntryType) /\ RestOK
  BY DEF TypeOK, InfoOK, RestOK, EntryType

\* The same, for the state after a step.
LEMMA TypePartsNext ==
    TypeOK' <=> InfoOK' /\ queue' \in Seq(Commands) /\ m_apply_stack' \in Seq(EntryType) /\ RestOK'
  BY DEF TypeOK, InfoOK, RestOK, EntryType

\* InfoOK after an assignment to one tensor.
LEMMA InfoUpdate ==
    ASSUME InfoOK, NEW t \in Tensors, NEW r \in TensorInfo, r.val = NoValue <=> r.ptr = "null",
           info' = [info EXCEPT ![t] = r]
    PROVE  InfoOK'
  BY DEF InfoOK

-----------------------------------------------------------------------------
(* The queue and its first command.                                        *)

\* What the lemmas below use of the types and of the handles: a valid handle, and
\* the tensor of a queued Del, is a live TensorInfo.
LEMMA Basics ==
    ASSUME TypeOK, Core
    PROVE  /\ alive \subseteq Tensors /\ m_valid_handle \subseteq alive /\ None \notin Tensors
           /\ queue \in Seq(Commands)
           /\ \A x : x \in QueuedDel <=>
                 \E i \in DOMAIN queue : queue[i].op = "Del" /\ queue[i].dest = x
           /\ \A x \in alive : x \notin m_valid_handle => x \in QueuedDel \/ info[x].allow_delete
           /\ QueuedDel \cup Kept \subseteq alive
  BY NoneAssumption DEF TypeOK, HandleInv, QueuedDel, Kept

\* What is left of the queue when its first command is done: the pending outputs
\* and the queued deletions are those of the other commands.
LEMMA HeadGone ==
    ASSUME TypeOK, Core, queue # <<>>, queue' = Tail(queue)
    PROVE  /\ 1 \in DOMAIN queue /\ queue[1] = Head(queue) /\ Head(queue) \in Commands
           /\ QueueMoved
           /\ \A x : PendingOutput(x)' <=>
                 PendingOutput(x) /\ ~(x = Dest /\ Head(queue).op \in Outputs)
           /\ QueuedDel' = IF Head(queue).op = "Del" THEN QueuedDel \ {Dest} ELSE QueuedDel
           /\ Head(queue).op \in Outputs => PendingOutput(Dest)
<1>1. /\ 1 \in DOMAIN queue /\ queue[1] = Head(queue) /\ Head(queue) \in Commands
      /\ QueueMoved
      /\ \A i \in DOMAIN queue : i # 1 => i - 1 \in DOMAIN queue' /\ queue'[i - 1] = queue[i] /\ i > 1
  BY TailFacts, SMT DEF TypeOK, QueueMoved
<1>2. \A i, j \in DOMAIN queue :
         queue[i].op \in Outputs /\ queue[j].op \in Outputs /\ queue[i].dest = queue[j].dest => i = j
  BY SMTT(30) DEF CommandInv, OutputInv, Names, Outputs, TypeOK
<1>3. \A i, j \in DOMAIN queue :
         queue[i].op = "Del" /\ queue[j].op = "Del" /\ queue[i].dest = queue[j].dest => i = j
  BY SMT DEF CommandInv, DelInv, Names, TypeOK
<1>4. ASSUME NEW x
      PROVE  PendingOutput(x)' <=>
               \E i \in DOMAIN queue : i # 1 /\ queue[i].op \in Outputs /\ queue[i].dest = x
  <2>1. ASSUME PendingOutput(x)'
        PROVE  \E i \in DOMAIN queue : i # 1 /\ queue[i].op \in Outputs /\ queue[i].dest = x
    <3>1. PICK i \in DOMAIN queue' : queue'[i].op \in Outputs /\ queue'[i].dest = x
      BY <2>1 DEF PendingOutput, Outputs
    <3> QED BY <1>1, <3>1, SMT DEF QueueMoved
  <2>2. ASSUME NEW i \in DOMAIN queue, i # 1, queue[i].op \in Outputs, queue[i].dest = x
        PROVE  PendingOutput(x)'
    <3>1. i - 1 \in DOMAIN queue' /\ queue'[i - 1] = queue[i]
      BY <1>1, <2>2
    <3> QED BY <2>2, <3>1 DEF PendingOutput, Outputs
  <2> QED BY <2>1, <2>2
<1>5. \A x : PendingOutput(x)' <=> PendingOutput(x) /\ ~(x = Dest /\ Head(queue).op \in Outputs)
  BY <1>1, <1>2, <1>4, SMT DEF PendingOutput, Outputs, Dest
<1>6. ASSUME NEW x
      PROVE  x \in QueuedDel' <=>
               \E i \in DOMAIN queue : i # 1 /\ queue[i].op = "Del" /\ queue[i].dest = x
  <2>0. x \in QueuedDel' <=> \E i \in DOMAIN queue' : queue'[i].op = "Del" /\ queue'[i].dest = x
    BY DEF QueuedDel
  <2>1. ASSUME NEW i \in DOMAIN queue', queue'[i].op = "Del", queue'[i].dest = x
        PROVE  \E j \in DOMAIN queue : j # 1 /\ queue[j].op = "Del" /\ queue[j].dest = x
    BY <1>1, <2>1, SMT DEF QueueMoved
  <2>2. ASSUME NEW i \in DOMAIN queue, i # 1, queue[i].op = "Del", queue[i].dest = x
        PROVE  \E j \in DOMAIN queue' : queue'[j].op = "Del" /\ queue'[j].dest = x
    <3>1. i - 1 \in DOMAIN queue' /\ queue'[i - 1] = queue[i]
      BY <1>1, <2>2
    <3> QED BY <2>2, <3>1
  <2> QED BY <2>0, <2>1, <2>2
<1>7. QueuedDel' = IF Head(queue).op = "Del" THEN QueuedDel \ {Dest} ELSE QueuedDel
  <2>1. \A x : x \in QueuedDel <=> \E i \in DOMAIN queue : queue[i].op = "Del" /\ queue[i].dest = x
    BY Basics
  <2>2. ASSUME Head(queue).op = "Del"
        PROVE  \A x : x \in QueuedDel' <=> x \in QueuedDel /\ x # Dest
    BY <1>1, <1>3, <1>6, <2>1, <2>2, SMT DEF Dest
  <2>3. ASSUME Head(queue).op # "Del"
        PROVE  \A x : x \in QueuedDel' <=> x \in QueuedDel
    BY <1>1, <1>6, <2>1, <2>3, SMT
  <2> QED BY <2>2, <2>3
<1>8. Head(queue).op \in Outputs => PendingOutput(Dest)
  BY <1>1 DEF PendingOutput, Outputs, Dest
<1> QED BY <1>1, <1>5, <1>7, <1>8

\* The first command, while the worker is at it: its tensors are live, an output
\* has no value yet, and the value a Put carries is the one the tensor is to have.
LEMMA HeadFacts ==
    ASSUME TypeOK, Core, queue # <<>>
    PROVE  /\ 1 \in DOMAIN queue /\ queue[1] = Head(queue) /\ Head(queue) \in Commands
           /\ Head(queue).op # "SetOption" => Dest \in alive
           /\ Head(queue).op = "ApplyOp" =>
                /\ Src \in alive /\ Src # Dest /\ ~PendingOutput(Src)
                /\ info[Dest].want = Compute(info[Src].want)
           /\ Head(queue).op \in Outputs /\ wpc \in {"run", "notify"} => info[Dest].ptr = "null"
           /\ Head(queue).op = "Put" => Head(queue).v = info[Dest].want
<1>1. 1 \in DOMAIN queue /\ queue[1] = Head(queue) /\ Head(queue) \in Commands
  BY TailFacts DEF TypeOK
<1>2. Head(queue).op = "ApplyOp" => ~PendingOutput(Src)
  BY <1>1, Basics, SMT DEF PendingOutput, OutputInv, CommandInv, Names, Outputs, Src, Dest, TypeOK
<1> QED BY <1>1, <1>2 DEF CommandInv, OutputInv, Names, Outputs, Src, Dest

\* The Del the worker is at: it is the only command that still names its tensor.
LEMMA DelHead ==
    ASSUME TypeOK, Core, Processing("Del")
    PROVE  /\ queue # <<>> /\ wpc = "run" /\ 1 \in DOMAIN queue /\ queue[1] = Head(queue)
           /\ Dest \in alive /\ Dest \in Tensors /\ Dest \notin m_valid_handle /\ Dest \in QueuedDel
           /\ ~PendingOutput(Dest)
           /\ \A i \in DOMAIN queue : Dest \in Names(queue[i]) => i = 1
           /\ \A i \in DOMAIN queue : i >= 1 /\ i \in Nat
<1>1. queue # <<>> /\ wpc = "run" /\ Head(queue).op = "Del"
  BY DEF Processing
<1>2. 1 \in DOMAIN queue /\ queue[1] = Head(queue) /\ Dest \in alive /\ Dest \in Tensors
  BY <1>1, HeadFacts, Basics
<1>3. \A i \in DOMAIN queue : i >= 1 /\ i \in Nat
  BY SMT DEF TypeOK
<1>4. \A i \in DOMAIN queue : Dest \in Names(queue[i]) => i = 1
  BY <1>1, <1>2, <1>3, SMT DEF DelInv, Dest
<1>5. Dest \notin m_valid_handle /\ Dest \in QueuedDel
  BY <1>1, <1>2 DEF DelInv, QueuedDel, Dest
<1>6. ~PendingOutput(Dest)
  BY <1>1, <1>2, <1>4, Basics DEF PendingOutput, Names, Dest
<1> QED BY <1>1, <1>2, <1>3, <1>4, <1>5, <1>6

\* do_drop() of a tensor with a path: no other tensor changes.
LEMMA DropFacts ==
    ASSUME TypeOK, NEW t \in Tensors, info[t].producer # None,
           info' = [info EXCEPT ![t].evicted = TRUE, ![t].ptr = "null", ![t].val = NoValue]
    PROVE  \A x \in Tensors : Keeps(x) /\ (x # t => info'[x] = info[x])
<1>1. \A x \in Tensors : x # t => info'[x] = info[x]
  BY DEF TypeOK
<1>2. info'[t] = [info[t] EXCEPT !.evicted = TRUE, !.ptr = "null", !.val = NoValue]
  BY DEF TypeOK
<1>3. info[t] \in TensorInfo
  BY DEF TypeOK
<1>4. Keeps(t)
  BY <1>2, <1>3, DropRecord, ZenonT(40) DEF Keeps, SameDesc
<1> QED BY <1>1, <1>4 DEF Keeps, SameDesc

-----------------------------------------------------------------------------
(* The entries of m_apply_stack.                                           *)

\* Between two commands StackInv says that m_apply_stack holds only paths that
\* were not computed.
LEMMA StackIdle ==
    ASSUME wpc' \in {"run", "notify"}, m_apply_stack' # <<>> => m_applying',
           wpc' = "notify" => queue' # <<>> /\ Head(queue').op = "GetValue",
           \A i \in DOMAIN m_apply_stack' : m_apply_stack'[i].recomp
    PROVE  StackInv'
  BY SMT DEF StackInv

\* The same, from StackInv.
LEMMA IdleEntries ==
    ASSUME TypeOK, Core, wpc \in {"run", "notify"}
    PROVE  \A i \in DOMAIN m_apply_stack : m_apply_stack[i].recomp
  BY DEF StackInv

\* StackInv while the stack is flushed, entry by entry.
LEMMA StackBusy ==
    /\ StackInv /\ wpc = "flush" =>
          /\ m_apply_stack # <<>> /\ m_applying /\ queue # <<>> /\ Head(queue).op # "Put"
          /\ HeadAt /\ \A i \in DOMAIN m_apply_stack : EntryAt(i)
    /\ wpc = "flush" /\ m_apply_stack # <<>> /\ m_applying /\ queue # <<>>
       /\ Head(queue).op # "Put" /\ HeadAt /\ (\A i \in DOMAIN m_apply_stack : EntryAt(i))
       => StackInv
<1>1. ASSUME StackInv, wpc = "flush"
      PROVE  /\ m_apply_stack # <<>> /\ m_applying /\ queue # <<>> /\ Head(queue).op # "Put"
             /\ HeadAt /\ \A i \in DOMAIN m_apply_stack : EntryAt(i)
  BY <1>1 DEF StackInv, HeadAt, EntryAt
<1>2. ASSUME wpc = "flush", m_apply_stack # <<>>, m_applying, queue # <<>>,
             Head(queue).op # "Put", HeadAt, \A i \in DOMAIN m_apply_stack : EntryAt(i)
      PROVE  StackInv
  BY <1>2 DEF StackInv, HeadAt, EntryAt
<1> QED BY <1>1, <1>2

\* The same, for the state after a step.
LEMMA StackBusyNext ==
    ASSUME wpc' = "flush", m_apply_stack' # <<>>, m_applying', queue' # <<>>,
           Head(queue').op # "Put", HeadAt', \A i \in DOMAIN m_apply_stack' : EntryAt(i)'
    PROVE  StackInv'
<1>1. (wpc = "flush")' /\ (m_apply_stack # <<>>)' /\ (m_applying)' /\ (queue # <<>>)'
      /\ (Head(queue).op # "Put")' /\ HeadAt' /\ (\A i \in DOMAIN m_apply_stack : EntryAt(i))'
  OBVIOUS
<1> QED BY <1>1, StackBusy, PTL

\* The entry that flush_apply_stack() is at, and the entries below it.
LEMMA TopFacts ==
    ASSUME TypeOK, Core, wpc = "flush"
    PROVE  /\ Len(m_apply_stack) \in Nat /\ Len(m_apply_stack) \in DOMAIN m_apply_stack
           /\ DOMAIN m_apply_stack = 1 .. Len(m_apply_stack)
           /\ Top = m_apply_stack[Len(m_apply_stack)] /\ Top \in EntryType
           /\ Below \in Seq(EntryType) /\ Len(Below) = Len(m_apply_stack) - 1
           /\ DOMAIN Below = 1 .. Len(m_apply_stack) - 1
           /\ \A i \in DOMAIN Below : Below[i] = m_apply_stack[i] /\ i \in DOMAIN m_apply_stack
           /\ ~Dangling(Top) => EntryOK(Top)
<1>1. m_apply_stack \in Seq(EntryType) /\ m_apply_stack # <<>>
  BY DEF TypeOK, EntryType, StackInv
<1>2. /\ Len(m_apply_stack) \in Nat /\ Len(m_apply_stack) \in DOMAIN m_apply_stack
      /\ DOMAIN m_apply_stack = 1 .. Len(m_apply_stack)
      /\ Top = m_apply_stack[Len(m_apply_stack)] /\ Top \in EntryType
  BY <1>1, SMT DEF Top
<1>3. /\ Below \in Seq(EntryType) /\ Len(Below) = Len(m_apply_stack) - 1
      /\ DOMAIN Below = 1 .. Len(m_apply_stack) - 1
      /\ \A i \in DOMAIN Below : Below[i] = m_apply_stack[i] /\ i \in DOMAIN m_apply_stack
  BY <1>1, SMT DEF Below
<1> QED BY <1>2, <1>3 DEF EntryInv

\* regenerate() of an evicted tensor: its path makes a correct entry of the stack.
LEMMA PathEntry ==
    ASSUME TypeOK, Core, NEW t \in alive, info[t].evicted
    PROVE  /\ info[t].producer \in Tensors
           /\ EntryOK(Entry(info[t].producer, t, TRUE))
           /\ Entry(info[t].producer, t, TRUE) \in EntryType
<1>1. /\ info[t].producer \in alive /\ ~PendingOutput(t) /\ ~PendingOutput(info[t].producer)
      /\ info[t].want = Compute(info[info[t].producer].want) /\ ~info[info[t].producer].invalid
  BY DEF PathInv
<1>2. EntryOK(Entry(info[t].producer, t, TRUE))
  BY <1>1 DEF EntryOK, Entry
<1> QED BY <1>1, <1>2, Basics, SMT DEF Entry, EntryType

-----------------------------------------------------------------------------
(* What a command does to the tensors.                                     *)

\* A command that makes and frees nothing is done, or worked on: tensors keep
\* their values, or lose one that can be computed again.
LEMMA Quiet ==
    ASSUME TypeOK, Core, UNCHANGED handleVars, worker_dtr' => worker_dtr,
           \A x \in alive : Keeps(x),
           \/ /\ queue' = queue
              /\ wpc' \in {"run", "notify"} =>
                    wpc \in {"run", "notify"} \/ Head(queue).op \notin Outputs
           \/ queue # <<>> /\ queue' = Tail(queue) /\ Head(queue).op \notin Outputs \cup {"Del"}
    PROVE  /\ QueueCore' /\ ValueCore'
           /\ \A e : EntryOK(e) => EntryOK(e)'
           /\ \A x : PendingOutput(x)' <=> PendingOutput(x)
<1>1. /\ alive' = alive /\ m_valid_handle' = m_valid_handle
      /\ alive \subseteq Tensors /\ m_valid_handle \subseteq alive /\ None \notin Tensors
      /\ QueuedDel \cup Kept \subseteq alive
  BY Basics DEF handleVars
<1>2. \A x : PendingOutput(x)' <=> PendingOutput(x)
  BY HeadGone DEF PendingOutput
<1>3. QueuedDel' = QueuedDel
  BY HeadGone DEF QueuedDel
<1>4. \A x : Users(x)' = Users(x)
  BY <1>1 DEF Users, Keeps
<1>5. Kept' = Kept
  BY <1>1 DEF Kept, Keeps
<1>6. CommandInv' /\ DelInv'
  <2>1. CASE queue' = queue
    BY <1>1, <2>1 DEF CommandInv, DelInv
  <2>2. CASE queue # <<>> /\ queue' = Tail(queue)
    BY <1>1, <2>2, HeadGone, SMT DEF CommandInv, DelInv, QueueMoved
  <2> QED BY <2>1, <2>2
<1>7. OutputInv'
  <2>1. CASE queue' = queue
    <3>1. \A i \in DOMAIN queue : i > 1 \/ (i = 1 /\ queue[i] = Head(queue))
      BY SMT DEF TypeOK
    <3> QED BY <1>1, <2>1, <3>1, SMT DEF OutputInv, CommandInv, Names, Keeps, SameDesc, Outputs
  <2>2. CASE queue # <<>> /\ queue' = Tail(queue) /\ Head(queue).op \notin Outputs \cup {"Del"}
    BY <1>1, <2>2, HeadGone, SMT DEF OutputInv, CommandInv, Names, Keeps, SameDesc, Outputs, QueueMoved
  <2> QED BY <2>1, <2>2
<1>9. KeptInv'
  BY <1>1, <1>4, HeadGone, SMT DEF KeptInv, Keeps, QueueMoved
<1>10. HandleInv'
  BY <1>1, <1>3, <1>4, <1>5 DEF HandleInv
<1>11. PathInv' /\ HostInv'
  BY <1>1, <1>2, SMT DEF PathInv, HostInv, Keeps, SameDesc
<1>12. ValueCorrect' /\ ResultOrError'
  BY <1>1, <1>2, SMT DEF ValueCorrect, ResultOrError, Keeps, SameDesc
<1>13. \A e : EntryOK(e) => EntryOK(e)'
  BY <1>1, <1>2 DEF EntryOK, Keeps, SameDesc
<1> QED BY <1>2, <1>6, <1>7, <1>9, <1>10, <1>11, <1>12, <1>13

\* A tensor without a value gets the one it is to have.
LEMMA GetsValue ==
    ASSUME Core, alive' = alive, m_valid_handle' = m_valid_handle, NEW d \in alive,
           \A x \in alive : Described(x), \A x \in alive \ {d} : SameValue(x),
           ~info'[d].evicted, info'[d].val = info[d].want, info'[d].ptr # "null",
           info[d].ptr = "null",
           \A x : PendingOutput(x)' => PendingOutput(x),
           \A x : PendingOutput(x) => PendingOutput(x)' \/ x = d
    PROVE  ValueCore' /\ \A e : EntryOK(e) => EntryOK(e)'
<1>1. PathInv'
  <2>1. \A x \in alive : info'[x].evicted => info'[x].ptr = "null" /\ info'[x].producer # None
    BY SMT DEF PathInv, Described, SameValue
  <2> QED BY <2>1, SMT DEF PathInv, Described, SameDesc
<1>2. HostInv'
  BY SMT DEF HostInv, Described, SameDesc, SameValue
<1>3. ValueCorrect'
  BY SMT DEF ValueCorrect, Described, SameDesc, SameValue
<1>4. ResultOrError'
  BY SMT DEF ResultOrError, Described, SameValue
<1>5. \A e : EntryOK(e) => EntryOK(e)'
  BY DEF EntryOK, Described, SameDesc
<1> QED BY <1>1, <1>2, <1>3, <1>4, <1>5

\* The command of the tensor is done, or it is computed for another command.
LEMMA GetsValueQueue ==
    ASSUME TypeOK, Core, UNCHANGED handleVars, worker_dtr' = worker_dtr, NEW d \in alive,
           \A x \in alive : Described(x), \A x \in alive \ {d} : SameValue(x),
           ~info'[d].evicted,
           \/ /\ queue' = queue
              /\ wpc' \in {"run", "notify"} => Head(queue).op \notin Outputs
              /\ \A i \in DOMAIN queue :
                    queue[i].op \in Outputs /\ queue[i].dest = d => i = 1
           \/ queue # <<>> /\ queue' = Tail(queue) /\ Head(queue).op \in Outputs /\ d = Dest
    PROVE  /\ QueueCore'
           /\ \A x : PendingOutput(x)' => PendingOutput(x)
           /\ \A x : PendingOutput(x) => PendingOutput(x)' \/ x = d
<1>1. /\ alive' = alive /\ m_valid_handle' = m_valid_handle
      /\ alive \subseteq Tensors /\ m_valid_handle \subseteq alive /\ None \notin Tensors
      /\ QueuedDel \cup Kept \subseteq alive
  BY Basics DEF handleVars
<1>2. Kept' = Kept /\ \A x : Users(x)' = Users(x)
  BY <1>1 DEF Users, Kept, Described
<1>3. CASE queue' = queue /\ (wpc' \in {"run", "notify"} => Head(queue).op \notin Outputs)
           /\ \A i \in DOMAIN queue : queue[i].op \in Outputs /\ queue[i].dest = d => i = 1
  <2>1. \A i \in DOMAIN queue : i > 1 \/ (i = 1 /\ queue[i] = Head(queue))
    BY SMT DEF TypeOK
  <2>2. CommandInv' /\ DelInv'
    BY <1>1, <1>3 DEF CommandInv, DelInv
  <2>3. OutputInv'
    <3>1. \A i \in DOMAIN queue : queue[i].op \in Outputs =>
             /\ i > 1 \/ wpc' \in {"run", "notify"} => info'[queue[i].dest].ptr = "null"
             /\ ~info'[queue[i].dest].evicted
      BY <1>1, <1>3, <2>1, SMT DEF OutputInv, CommandInv, Names, Outputs, SameValue
    <3> QED BY <1>1, <1>3, <3>1, SMT DEF OutputInv, CommandInv, Names, Described, SameDesc, Outputs
  <2>4. KeptInv'
    BY <1>1, <1>2, <1>3 DEF KeptInv, Described
  <2>5. HandleInv' /\ \A x : PendingOutput(x)' <=> PendingOutput(x)
    BY <1>1, <1>2, <1>3 DEF HandleInv, QueuedDel, PendingOutput
  <2> QED BY <2>2, <2>3, <2>4, <2>5
<1>4. CASE queue # <<>> /\ queue' = Tail(queue) /\ Head(queue).op \in Outputs /\ d = Dest
  <2>1. /\ QueueMoved /\ QueuedDel' = QueuedDel
        /\ \A x : PendingOutput(x)' <=> PendingOutput(x) /\ x # d
    BY <1>4, HeadGone DEF Outputs
  <2>2. CommandInv' /\ DelInv'
    BY <1>1, <2>1, SMT DEF CommandInv, DelInv, QueueMoved
  <2>3. OutputInv'
    <3>1. \A i \in DOMAIN queue' : d # queue'[i].dest \/ queue'[i].op \notin Outputs
      BY <2>1 DEF PendingOutput, Outputs
    <3>2. \A i \in DOMAIN queue' : queue'[i].op \in Outputs =>
             /\ queue'[i].dest \in alive /\ (queue'[i].op = "ApplyOp" => queue'[i].src \in alive)
             /\ info'[queue'[i].dest].ptr = "null" /\ ~info'[queue'[i].dest].evicted
      BY <1>1, <2>1, <3>1, SMT DEF OutputInv, CommandInv, Names, Outputs, SameValue, QueueMoved
    <3> QED BY <1>1, <2>1, <3>2, SMT DEF OutputInv, Described, SameDesc, QueueMoved
  <2>4. KeptInv'
    BY <1>1, <1>2, <2>1, SMT DEF KeptInv, Described, QueueMoved
  <2>5. HandleInv'
    BY <1>1, <1>2, <2>1 DEF HandleInv
  <2> QED BY <2>1, <2>2, <2>3, <2>4, <2>5
<1> QED BY <1>3, <1>4

\* produce_tensor() keeps what QueueCore and ValueCore say.
LEMMA Produce ==
    ASSUME TypeOK, Core, UNCHANGED handleVars, worker_dtr' = worker_dtr,
           NEW d \in alive, NEW p \in {"dev", "const"}, info[d].ptr = "null",
           info' = [info EXCEPT ![d] = Produced(@, p, info[d].want)],
           \/ /\ queue' = queue
              /\ wpc' \in {"run", "notify"} => Head(queue).op \notin Outputs
              /\ \A i \in DOMAIN queue :
                    queue[i].op \in Outputs /\ queue[i].dest = d => i = 1
           \/ queue # <<>> /\ queue' = Tail(queue) /\ Head(queue).op \in Outputs /\ d = Dest
    PROVE  /\ QueueCore' /\ ValueCore'
           /\ \A e : EntryOK(e) => EntryOK(e)'
           /\ \A x \in Tensors : info[x].ptr # "null" => info'[x].ptr # "null"
           /\ info'[d].ptr # "null"
<1>1. alive \subseteq Tensors /\ d \in Tensors
  BY Basics
<1>2. /\ \A x \in Tensors : x # d => info'[x] = info[x]
      /\ info'[d] = Produced(info[d], p, info[d].want)
  BY <1>1 DEF TypeOK
<1>3. PICK r \in TensorInfo : r = info[d]
  BY <1>1 DEF TypeOK
<1>4. r.want \in Values \cup {NoValue}
  BY <1>3 DEF TensorInfo
<1>5. /\ Described(d) /\ ~info'[d].evicted /\ info'[d].val = info[d].want
      /\ info'[d].ptr # "null"
  BY <1>2, <1>3, <1>4, ProducedRecord, SMT DEF Described, SameDesc
<1>6. (\A x \in alive : Described(x)) /\ \A x \in alive \ {d} : SameValue(x)
  BY <1>1, <1>2, <1>5 DEF Described, SameDesc, SameValue
<1>7. /\ QueueCore'
      /\ \A x : PendingOutput(x)' => PendingOutput(x)
      /\ \A x : PendingOutput(x) => PendingOutput(x)' \/ x = d
  BY <1>5, <1>6, GetsValueQueue
<1>8. ValueCore' /\ \A e : EntryOK(e) => EntryOK(e)'
  BY <1>5, <1>6, <1>7, GetsValue DEF handleVars
<1> QED BY <1>2, <1>5, <1>7, <1>8

-----------------------------------------------------------------------------
(* An input is missing.                                                    *)

\* The path of a missing input goes on top of the operator that needs it.
LEMMA FlushPush ==
    ASSUME TypeOK, Core, wpc = "flush", ~Dangling(Top), NEW n, n = Len(m_apply_stack),
           NEW d \in EntryType, NEW e \in EntryType, EntryOK(d), EntryOK(e),
           d.src = Top.src, d.dest = Top.dest, d.recomp = Top.recomp, e.recomp,
           DOMAIN m_apply_stack' = 1 .. n + 1, Len(m_apply_stack') = n + 1,
           m_apply_stack'[n] = d, m_apply_stack'[n + 1] = e,
           \A i \in 1 .. n - 1 : m_apply_stack'[i] = m_apply_stack[i],
           UNCHANGED <<info, handleVars, queue, wpc, worker_dtr, m_applying>>
    PROVE  Core'
<1>1. \A x \in alive : Keeps(x)
  BY DEF Keeps, SameDesc
<1>2. QueueCore' /\ ValueCore' /\ \A f : EntryOK(f) => EntryOK(f)'
  BY <1>1, Quiet
<1>3. n \in Nat /\ DOMAIN m_apply_stack = 1 .. n /\ Top = m_apply_stack[n] /\ n > 0
  BY TopFacts, SMT
<1>4. EntryInv'
  BY <1>2, <1>3, SMT DEF EntryInv, Dangling
<1>5. HeadAt /\ \A i \in 1 .. n : EntryAt(i)
  BY <1>3, StackBusy
<1>6. HeadAt'
  <2>1. ASSUME NEW i \in DOMAIN m_apply_stack, ~m_apply_stack[i].recomp
        PROVE  i \in DOMAIN m_apply_stack' /\ ~m_apply_stack'[i].recomp
    BY <1>3, <2>1, SMT
  <2> QED BY <1>5, <2>1 DEF HeadAt, Dest, Src
<1>7. ASSUME NEW i \in DOMAIN m_apply_stack' PROVE EntryAt(i)'
  <2>1. CASE i = n + 1
    BY <2>1, SMT DEF EntryAt
  <2>2. CASE i \in 1 .. n
    <3>1. /\ m_apply_stack'[i].recomp = m_apply_stack[i].recomp
          /\ m_apply_stack'[i].src = m_apply_stack[i].src
          /\ m_apply_stack'[i].dest = m_apply_stack[i].dest
      <4>1. CASE i = n
        BY <1>3, <4>1
      <4>2. CASE i # n
        BY <1>3, <2>2, <4>2, SMT
      <4> QED BY <4>1, <4>2
    <3>2. \A j \in 1 .. i - 1 : m_apply_stack'[j] = m_apply_stack[j]
      BY <1>3, <2>2, SMT
    <3>3. EntryAt(i)
      BY <1>5, <2>2
    <3> QED BY <3>1, <3>2, <3>3 DEF EntryAt, Dest, Src
  <2> QED BY <1>3, <2>1, <2>2, SMT
<1>8. StackInv'
  <2>1. m_applying /\ queue # <<>> /\ Head(queue).op # "Put"
    BY StackBusy
  <2>2. m_apply_stack' # <<>>
    BY <1>3, SMT
  <2> QED BY <1>6, <1>7, <2>1, <2>2, StackBusyNext
<1> QED BY <1>2, <1>4, <1>8

\* flush_apply_stack() keeps the invariant when it finds a missing input.
LEMMA FlushInputStep ==
    ASSUME TypeOK, Core, FlushInput
    PROVE  Core'
<1> DEFINE e == Entry(info[Top.src].producer, Top.src, TRUE)
           d == [Top EXCEPT !.idx = 1]
<1>1. /\ wpc = "flush" /\ ~Dangling(Top) /\ info[Top.src].evicted
      /\ m_apply_stack' = Below \o <<d, e>>
      /\ UNCHANGED <<info, handleVars, queue, wpc, worker_dtr, m_applying>>
  BY DEF FlushInput, Missing, optionVars
<1>2. EntryOK(Top) /\ Top \in EntryType
  BY <1>1, TopFacts
<1>3. Top.src \in alive
  BY <1>2 DEF EntryOK
<1>4. EntryOK(e) /\ e \in EntryType
  BY <1>1, <1>3, PathEntry
<1>5. /\ d \in EntryType /\ d.src = Top.src /\ d.dest = Top.dest /\ d.recomp = Top.recomp
  BY <1>2, SMT DEF EntryType
<1>6. EntryOK(d)
  BY <1>2, <1>5 DEF EntryOK
<1>7. e.recomp
  BY DEF Entry
<1> HIDE DEF d, e
<1>8. PICK n \in Nat : n = Len(m_apply_stack)
  BY <1>1, TopFacts
<1>9. /\ DOMAIN m_apply_stack' = 1 .. n + 1 /\ Len(m_apply_stack') = n + 1
      /\ m_apply_stack'[n] = d /\ m_apply_stack'[n + 1] = e
      /\ \A i \in 1 .. n - 1 : m_apply_stack'[i] = m_apply_stack[i]
  <2>1. /\ Below \in Seq(EntryType) /\ Len(Below) = n - 1
        /\ \A i \in 1 .. n - 1 : Below[i] = m_apply_stack[i]
    BY <1>1, <1>8, TopFacts
  <2>2. d \in EntryType /\ e \in EntryType
    BY <1>4, <1>5
  <2>3. PICK s \in Seq(EntryType) : s = Below
    BY <2>1
  <2>4. m_apply_stack' = s \o <<d, e>> /\ Len(s) = n - 1
        /\ \A i \in 1 .. n - 1 : s[i] = m_apply_stack[i]
    BY <1>1, <2>1, <2>3
  <2> QED BY <2>2, <2>4, TwoMore, SMT
<1> QED BY <1>1, <1>4, <1>5, <1>6, <1>7, <1>8, <1>9, FlushPush, ZenonT(40)

-----------------------------------------------------------------------------
(* Eviction.                                                               *)

\* auto_evict() keeps the invariant, pinned or not: what it evicts has a path, and
\* the operator that runs holds its input.
LEMMA AutoEvictStep ==
    ASSUME TypeOK, Core, HeldInv, NEW t \in Tensors, AutoEvict(t)
    PROVE  Core' /\ \A x \in alive : Keeps(x)
<1>1. /\ t \in alive /\ info[t].producer # None
      /\ info' = [info EXCEPT ![t].evicted = TRUE, ![t].ptr = "null", ![t].val = NoValue]
      /\ UNCHANGED <<handleVars, queue, worker_dtr, wpc, m_apply_stack, m_applying>>
  BY DEF AutoEvict, CanDrop, DoDrop, optionVars, workerVars, stackVars
<1>2. wpc \in {"run", "flush"} /\ queue # <<>>
  BY DEF AutoEvict, Processing, HeldInv, StackInv
<1>3. \A x \in Tensors : Keeps(x) /\ (x # t => info'[x] = info[x])
  BY <1>1, DropFacts
<1>4. QueueCore' /\ ValueCore' /\ \A e : EntryOK(e) => EntryOK(e)'
  BY <1>1, <1>3, Basics, Quiet
<1>5. EntryInv'
  BY <1>1, <1>4 DEF EntryInv, Dangling
<1>6. StackInv'
  <2>1. CASE wpc = "run"
    BY <1>1, <2>1, IdleEntries, StackIdle DEF StackInv
  <2>2. CASE wpc = "flush"
    <3>1. /\ m_apply_stack # <<>> /\ m_applying /\ queue # <<>> /\ Head(queue).op # "Put"
          /\ HeadAt /\ \A i \in DOMAIN m_apply_stack : EntryAt(i)
      BY <2>2, StackBusy
    <3>2. Head(queue).op = "ApplyOp" => Dest # t /\ Dest \in Tensors /\ Src \in Tensors
      <4>1. ASSUME Head(queue).op = "ApplyOp" PROVE info[Dest].producer = None
        BY <1>2, <4>1, HeadFacts DEF OutputInv, Outputs, Dest
      <4> QED BY <1>1, <1>2, <4>1, Basics, HeadFacts
    <3>3. Head(queue).op = "ApplyOp" => info'[Dest] = info[Dest] /\ info'[Src].invalid = info[Src].invalid
      BY <1>3, <3>2 DEF Keeps
    <3>4. HeadAt'
      BY <1>1, <3>1, <3>3 DEF HeadAt, Dest, Src
    <3>5. \A i \in DOMAIN m_apply_stack : EntryAt(i)'
      BY <1>1, <3>1 DEF EntryAt, Dest, Src
    <3> QED BY <1>1, <2>2, <3>1, <3>4, <3>5, StackBusyNext
  <2> QED BY <1>2, <2>1, <2>2
<1>7. \A x \in alive : Keeps(x)
  BY <1>3, Basics
<1> QED BY <1>4, <1>5, <1>6, <1>7

-----------------------------------------------------------------------------
(* The top of the stack is computed.                                       *)

\* What the top of the stack computes is the value its output is to have.
LEMMA TopApplied ==
    ASSUME TypeOK, Core, HeldInv, wpc = "flush", held # NoValue
    PROVE  /\ EntryOK(Top) /\ Top.dest \in Tensors
           /\ Compute(held) = info[Top.dest].want
           /\ PendingOutput(Top.dest) =>
                 /\ ~Top.recomp /\ Head(queue).op = "ApplyOp" /\ Top.dest = Dest
                 /\ \A i \in DOMAIN queue :
                       queue[i].op \in Outputs /\ queue[i].dest = Top.dest => i = 1
<1>1. /\ EntryOK(Top) /\ Len(m_apply_stack) \in DOMAIN m_apply_stack
      /\ Top = m_apply_stack[Len(m_apply_stack)] /\ queue # <<>>
  BY TopFacts DEF StackInv, HeldInv
<1>2. held = info[Top.src].want
  BY DEF HeldInv
<1>3. ASSUME PendingOutput(Top.dest)
      PROVE  /\ ~Top.recomp /\ Head(queue).op = "ApplyOp" /\ Top.dest = Dest
             /\ \A i \in DOMAIN queue :
                   queue[i].op \in Outputs /\ queue[i].dest = Top.dest => i = 1
  <2>1. ~Top.recomp
    BY <1>1, <1>3 DEF EntryOK
  <2>2. Head(queue).op = "ApplyOp" /\ Top.dest = Dest
    BY <1>1, <2>1 DEF StackInv
  <2>3. 1 \in DOMAIN queue /\ queue[1] = Head(queue) /\ Dest \in Names(queue[1])
    BY <1>1, <2>2, HeadFacts, Basics DEF Names, Dest
  <2>4. \A i \in DOMAIN queue : i >= 1 /\ i \in Nat
    BY SMT DEF TypeOK
  <2> QED BY <2>1, <2>2, <2>3, <2>4, SMT DEF OutputInv
<1> QED BY <1>1, <1>2, <1>3, Basics DEF EntryOK

\* flush_apply_stack() computes the top and goes on with the stack or the command.
LEMMA FlushOn ==
    ASSUME TypeOK, Core, HeldInv, wpc = "flush", held # NoValue,
           info' = Applied(Top), queue' = queue, UNCHANGED handleVars, worker_dtr' = worker_dtr,
           wpc' = "run" => Head(queue).op # "ApplyOp", wpc' \in {"run", "flush"}
    PROVE  /\ QueueCore' /\ ValueCore' /\ \A e : EntryOK(e) => EntryOK(e)'
           /\ \A x \in Tensors : info[x].ptr # "null" => info'[x].ptr # "null"
           /\ \A x \in Tensors : info'[x].invalid = info[x].invalid
           /\ info'[Top.dest].ptr # "null"
<1>1. /\ EntryOK(Top) /\ Top.dest \in Tensors /\ Top.dest \in alive
      /\ Compute(held) = info[Top.dest].want
      /\ \A i \in DOMAIN queue : queue[i].op \in Outputs /\ queue[i].dest = Top.dest => i = 1
  BY TopApplied DEF PendingOutput, EntryOK, Outputs
<1>2. Head(queue).op # "Put"
  BY DEF StackInv
<1>3. CASE info[Top.dest].ptr # "null"
  <2>1. info' = info /\ \A x \in alive : Keeps(x)
    BY <1>3 DEF Applied, Keeps, SameDesc
  <2> QED BY <1>2, <1>3, <2>1, Quiet DEF Outputs
<1>4. CASE info[Top.dest].ptr = "null"
  <2>1. info' = [info EXCEPT ![Top.dest] = Produced(@, "dev", info[Top.dest].want)]
    BY <1>1, <1>4 DEF Applied
  <2>2. \A x \in Tensors : info'[x].invalid = info[x].invalid
    BY <1>1, <2>1, SMT DEF TypeOK, TensorInfo, Produced
  <2> QED BY <1>1, <1>2, <1>4, <2>1, <2>2, Produce DEF Outputs
<1> QED BY <1>3, <1>4

\* The rest of the stack is still to be flushed.
LEMMA FlushPop ==
    ASSUME TypeOK, Core, wpc = "flush", wpc' = "flush", NEW n,
           n = Len(m_apply_stack),
           m_apply_stack' = Below, Below # <<>>, m_applying', queue' = queue,
           \A x \in Tensors : info[x].ptr # "null" => info'[x].ptr # "null",
           \A x \in Tensors : info'[x].invalid = info[x].invalid,
           Top.dest \in Tensors, info'[Top.dest].ptr # "null"
    PROVE  StackInv'
<1>1. /\ n \in Nat /\ n - 1 \in Nat /\ DOMAIN m_apply_stack = 1 .. n /\ Top = m_apply_stack[n]
      /\ DOMAIN m_apply_stack' = 1 .. n - 1 /\ Len(m_apply_stack') = n - 1
      /\ \A i \in 1 .. n - 1 : m_apply_stack'[i] = m_apply_stack[i] /\ i \in 1 .. n
      /\ n \in 1 .. n
  BY TopFacts, SMT
<1>2. /\ HeadAt /\ \A i \in 1 .. n : EntryAt(i)
      /\ m_applying /\ queue # <<>> /\ Head(queue).op # "Put"
  BY <1>1, StackBusy, SMTT(30)
<1>3. HeadAt'
  <2>1. CASE Head(queue).op = "ApplyOp"
    <3>1. Src \in Tensors /\ Dest \in Tensors
      BY <1>2, <2>1, HeadFacts, Basics
    <3>2. CASE info[Dest].ptr # "null"
      BY <1>2, <2>1, <3>1, <3>2 DEF HeadAt, Dest, Src
    <3>3. CASE info[Dest].ptr = "null"
      <4>1. PICK i \in 1 .. n : ~m_apply_stack[i].recomp
        BY <1>1, <1>2, <2>1, <3>3 DEF HeadAt
      <4>2. CASE i = n
        <5>1. Top.dest = Dest
          BY <1>1, <1>2, <4>1, <4>2 DEF EntryAt
        <5> QED BY <1>2, <3>1, <5>1 DEF HeadAt, Dest, Src
      <4>3. CASE i # n
        <5>1. i \in 1 .. n - 1
          BY <1>1, <4>3, SMT
        <5> QED BY <1>1, <1>2, <3>1, <4>1, <5>1 DEF HeadAt, Src
      <4> QED BY <4>2, <4>3
    <3> QED BY <3>2, <3>3
  <2>2. CASE Head(queue).op # "ApplyOp"
    BY <2>2 DEF HeadAt
  <2> QED BY <2>1, <2>2
<1>4. ASSUME NEW i \in DOMAIN m_apply_stack' PROVE EntryAt(i)'
  <2>1. i \in 1 .. n - 1 /\ m_apply_stack'[i] = m_apply_stack[i] /\ EntryAt(i)
    BY <1>1, <1>2
  <2>2. \A j \in 1 .. i - 1 : m_apply_stack'[j] = m_apply_stack[j]
    BY <1>1, <2>1, SMT
  <2> QED BY <2>1, <2>2 DEF EntryAt, Dest, Src
<1> QED BY <1>2, <1>3, <1>4, StackBusyNext

\* An ApplyOp is done: its output has a value, and maybe a path.
LEMMA ApplyDone ==
    ASSUME TypeOK, Core, UNCHANGED handleVars, worker_dtr' = worker_dtr,
           queue # <<>>, Head(queue).op = "ApplyOp", ~info[Src].invalid,
           QueueMoved, QueuedDel' = QueuedDel, PendingOutput(Dest),
           \A x : PendingOutput(x)' <=> PendingOutput(x) /\ x # Dest,
           \A x \in alive : /\ SameDesc(x) /\ Computed(x)
                            /\ info'[x].invalid = info[x].invalid
                            /\ info'[x].allow_delete = info[x].allow_delete
                            /\ x # Dest => info'[x].producer = info[x].producer
                            /\ PendingOutput(x) /\ x # Dest => info'[x].ptr = info[x].ptr,
           info'[Dest].ptr # "null", info'[Dest].producer \in {Src, None}
    PROVE  QueueCore' /\ ValueCore' /\ \A e : EntryOK(e) => EntryOK(e)'
<1>1. /\ alive' = alive /\ m_valid_handle' = m_valid_handle
      /\ alive \subseteq Tensors /\ m_valid_handle \subseteq alive /\ None \notin Tensors
      /\ QueuedDel \cup Kept \subseteq alive
  BY Basics DEF handleVars
<1>2. /\ Dest \in alive /\ Src \in alive /\ Src # Dest /\ ~PendingOutput(Src)
      /\ info[Dest].want = Compute(info[Src].want)
  BY HeadFacts
<1>3. info[Dest].producer = None /\ ~info[Dest].evicted /\ ~info[Dest].allow_delete
  BY HeadFacts DEF OutputInv, Outputs, Dest
<1>4. Kept' = Kept /\ \A x \in alive : Users(x) # {} => Users(x)' # {}
  <2>1. ASSUME NEW x \in alive, NEW u \in Users(x) PROVE u \in Users(x)'
    BY <1>1, <1>3, <2>1 DEF Users
  <2> QED BY <1>1, <2>1 DEF Kept
<1>5. CommandInv' /\ DelInv'
  BY <1>1, SMT DEF CommandInv, DelInv, QueueMoved
<1>6. OutputInv'
  <2>1. \A i \in DOMAIN queue' : queue'[i].op \in Outputs =>
           PendingOutput(queue'[i].dest) /\ queue'[i].dest # Dest
    BY DEF PendingOutput, Outputs
  <2>2. \A i \in DOMAIN queue' : queue'[i].op \in Outputs =>
           /\ queue'[i].dest \in alive /\ (queue'[i].op = "ApplyOp" => queue'[i].src \in alive)
           /\ info'[queue'[i].dest].ptr = "null" /\ ~info'[queue'[i].dest].evicted
    BY <1>1, <2>1, SMT DEF OutputInv, CommandInv, Names, Computed, Outputs, QueueMoved
  <2> QED BY <1>1, <2>1, <2>2, SMT DEF OutputInv, SameDesc, QueueMoved
<1>7. KeptInv'
  <2>1. ASSUME NEW t \in alive, info[t].allow_delete
        PROVE  t \notin m_valid_handle /\ \A i \in DOMAIN queue' : t \notin Names(queue'[i])
    BY <2>1, SMT DEF KeptInv, QueueMoved
  <2> QED BY <1>1, <2>1 DEF KeptInv
<1>8. HandleInv'
  BY <1>1, <1>4 DEF HandleInv
<1>9. PathInv'
  BY <1>1, <1>2, <1>3, SMT DEF PathInv, SameDesc, Computed
<1>10. HostInv'
  BY <1>1, <1>2, SMT DEF HostInv, SameDesc, Computed
<1>11. ValueCorrect' /\ ResultOrError'
  BY <1>1, SMT DEF ValueCorrect, ResultOrError, SameDesc, Computed
<1>12. \A e : EntryOK(e) => EntryOK(e)'
  BY <1>1 DEF EntryOK, SameDesc
<1> QED BY <1>5, <1>6, <1>7, <1>8, <1>9, <1>10, <1>11, <1>12

\* flush_apply_stack() ends the ApplyOp it was flushed for.
LEMMA FlushEnd ==
    ASSUME TypeOK, Core, HeldInv, FlushApply, Below = <<>>, Head(queue).op = "ApplyOp"
    PROVE  Core'
<1>1. /\ wpc = "flush" /\ held # NoValue /\ queue # <<>>
      /\ m_apply_stack' = <<>> /\ wpc' = "run" /\ queue' = Tail(queue)
      /\ UNCHANGED handleVars /\ worker_dtr' = worker_dtr
  BY DEF FlushApply, Done, optionVars, StackInv
<1>2. PICK p \in {Src, None} : info' = [Applied(Top) EXCEPT ![Dest].producer = p]
  BY DEF FlushApply
<1>3. /\ EntryOK(Top) /\ Top.dest \in Tensors /\ Top.dest \in alive
      /\ Compute(held) = info[Top.dest].want
      /\ PendingOutput(Top.dest) => Top.dest = Dest
  BY <1>1, TopApplied DEF EntryOK
<1>4. Dest \in alive /\ Dest \in Tensors /\ alive \subseteq Tensors
  BY <1>1, HeadFacts, Basics
<1>5. ~info[Src].invalid /\ (info[Dest].ptr # "null" \/ Top.dest = Dest)
  <2>1. HeadAt /\ DOMAIN m_apply_stack = {1} /\ Top = m_apply_stack[1] /\ EntryAt(1)
    BY <1>1, TopFacts, StackBusy, SMT
  <2> QED BY <2>1 DEF HeadAt, EntryAt
<1>6. DEFINE a == Applied(Top)
<1>7. /\ a \in [Tensors -> TensorInfo]
      /\ \A x \in Tensors : x # Top.dest => a[x] = info[x]
      /\ info[Top.dest].ptr # "null" => a = info
      /\ info[Top.dest].ptr = "null" => a[Top.dest] = Produced(info[Top.dest], "dev", info[Top.dest].want)
  <2>1. CASE info[Top.dest].ptr # "null"
    BY <2>1 DEF Applied, TypeOK
  <2>2. CASE info[Top.dest].ptr = "null"
    <3>1. info[Top.dest] \in TensorInfo /\ info[Top.dest].want \in Values \cup {NoValue}
      BY <1>3 DEF TypeOK, TensorInfo
    <3>2. Produced(info[Top.dest], "dev", info[Top.dest].want) \in TensorInfo
      BY <3>1, ProducedRecord
    <3>3. a = [info EXCEPT ![Top.dest] = Produced(@, "dev", info[Top.dest].want)]
      BY <1>3, <2>2 DEF Applied
    <3> QED BY <1>3, <2>2, <3>2, <3>3 DEF TypeOK
  <2> QED BY <2>1, <2>2
<1> HIDE DEF a
<1>8. /\ \A x \in Tensors : x # Dest => info'[x] = a[x]
      /\ info'[Dest] = [a[Dest] EXCEPT !.producer = p]
  BY <1>2, <1>4, <1>7 DEF a
<1>9. ASSUME NEW x \in alive
      PROVE  /\ a[x].want = info[x].want /\ a[x].h_value = info[x].h_value
             /\ a[x].desc_value = info[x].desc_value
             /\ a[x].invalid = info[x].invalid /\ a[x].allow_delete = info[x].allow_delete
             /\ a[x].producer = info[x].producer
             /\ \/ a[x].evicted = info[x].evicted /\ a[x].val = info[x].val /\ a[x].ptr = info[x].ptr
                \/ /\ info[x].ptr = "null" /\ ~a[x].evicted
                   /\ a[x].val = info[x].want /\ a[x].ptr = "dev"
             /\ x = Top.dest => a[x].ptr # "null"
             /\ info[x].ptr # "null" => a[x].ptr # "null"
             /\ PendingOutput(x) /\ x # Dest => a[x].ptr = info[x].ptr
  <2>1. CASE a[x] = info[x] /\ (x = Top.dest => info[x].ptr # "null")
    BY <2>1
  <2>2. CASE x = Top.dest /\ info[x].ptr = "null"
    <3>1. a[x] = Produced(info[x], "dev", info[x].want) /\ info[x] \in TensorInfo
      BY <1>3, <1>7, <2>2 DEF TypeOK
    <3>2. info[x].want \in Values \cup {NoValue}
      BY <3>1 DEF TensorInfo
    <3>3. /\ ~a[x].evicted /\ a[x].ptr = "dev" /\ a[x].val = info[x].want
          /\ a[x].want = info[x].want /\ a[x].h_value = info[x].h_value
          /\ a[x].desc_value = info[x].desc_value /\ a[x].producer = info[x].producer
          /\ a[x].invalid = info[x].invalid /\ a[x].allow_delete = info[x].allow_delete
      <4> DEFINE q == Produced(info[x], "dev", info[x].want)
      <4>1. /\ ~q.evicted /\ q.ptr = "dev" /\ q.val = info[x].want
            /\ q.want = info[x].want /\ q.h_value = info[x].h_value
            /\ q.desc_value = info[x].desc_value /\ q.producer = info[x].producer
            /\ q.invalid = info[x].invalid /\ q.allow_delete = info[x].allow_delete
        BY <3>1, <3>2, ProducedRecord, SMT
      <4>2. a[x] = q
        BY <3>1
      <4> HIDE DEF q
      <4> QED BY <4>1, <4>2
    <3>4. "dev" # "null" /\ ~(PendingOutput(x) /\ x # Dest)
      BY <1>3, <2>2
    <3> QED BY <2>2, <3>3, <3>4
  <2> QED BY <1>4, <1>7, <2>1, <2>2
<1>10. ASSUME NEW x \in alive
       PROVE  /\ SameDesc(x) /\ Computed(x)
              /\ info'[x].invalid = info[x].invalid
              /\ info'[x].allow_delete = info[x].allow_delete
              /\ x # Dest => info'[x].producer = info[x].producer
              /\ PendingOutput(x) /\ x # Dest => info'[x].ptr = info[x].ptr
  <2>1. CASE x # Dest
    BY <1>4, <1>8, <1>9, <2>1, SMT DEF SameDesc, Computed
  <2>2. CASE x = Dest
    <3>1. a[x] \in TensorInfo
      BY <1>4, <1>7
    <3>2. info'[x] = [a[x] EXCEPT !.producer = p]
      BY <1>8, <2>2
    <3>3. /\ info'[x].evicted = a[x].evicted /\ info'[x].ptr = a[x].ptr /\ info'[x].val = a[x].val
          /\ info'[x].want = a[x].want /\ info'[x].h_value = a[x].h_value
          /\ info'[x].desc_value = a[x].desc_value
          /\ info'[x].invalid = a[x].invalid /\ info'[x].allow_delete = a[x].allow_delete
      BY <3>1, <3>2, PathRecord, SMT
    <3> QED BY <1>9, <2>2, <3>3 DEF SameDesc, Computed
  <2> QED BY <2>1, <2>2
<1>11. info'[Dest].ptr # "null" /\ info'[Dest].producer \in {Src, None}
  <2>1. a[Dest].ptr # "null" /\ a[Dest] \in TensorInfo
    BY <1>4, <1>5, <1>7, <1>9
  <2> QED BY <1>8, <2>1, PathRecord, SMT
<1>12. QueueCore' /\ ValueCore' /\ \A e : EntryOK(e) => EntryOK(e)'
  <2>1. /\ QueueMoved /\ QueuedDel' = QueuedDel /\ PendingOutput(Dest)
        /\ \A x : PendingOutput(x)' <=> PendingOutput(x) /\ x # Dest
    BY <1>1, HeadGone DEF Outputs
  <2> QED BY <1>1, <1>5, <1>10, <1>11, <2>1, ApplyDone
<1>13. EntryInv' /\ StackInv'
  <2>1. DOMAIN m_apply_stack' = {}
    BY <1>1, SMT
  <2> QED BY <1>1, <2>1, StackIdle DEF EntryInv
<1> QED BY <1>12, <1>13

\* flush_apply_stack() keeps the invariant when it computes the top.
LEMMA FlushApplyStep ==
    ASSUME TypeOK, Core, HeldInv, FlushApply
    PROVE  Core'
<1>1. /\ wpc = "flush" /\ held # NoValue
      /\ m_apply_stack' = Below /\ m_applying' = (Below # <<>>)
      /\ UNCHANGED handleVars /\ worker_dtr' = worker_dtr
  BY DEF FlushApply, optionVars
<1>2. CASE ~(Below = <<>> /\ Head(queue).op = "ApplyOp")
  <2>1. info' = Applied(Top) /\ wpc' = (IF Below = <<>> THEN "run" ELSE "flush") /\ queue' = queue
    BY <1>2 DEF FlushApply
  <2>2. /\ QueueCore' /\ ValueCore' /\ \A e : EntryOK(e) => EntryOK(e)'
        /\ \A x \in Tensors : info[x].ptr # "null" => info'[x].ptr # "null"
        /\ \A x \in Tensors : info'[x].invalid = info[x].invalid
        /\ info'[Top.dest].ptr # "null"
    BY <1>1, <1>2, <2>1, FlushOn
  <2>3. EntryInv'
    BY <1>1, <2>2, TopFacts DEF EntryInv, Dangling
  <2>4. StackInv'
    <3>1. CASE Below = <<>>
      <4>1. DOMAIN m_apply_stack' = {} /\ m_apply_stack' = <<>> /\ wpc' = "run"
        BY <1>1, <2>1, <3>1, SMT
      <4> QED BY <4>1, StackIdle
    <3>2. CASE Below # <<>>
      <4>1. m_applying' /\ wpc' = "flush" /\ Top.dest \in Tensors
        BY <1>1, <2>1, <3>2, TopApplied
      <4> QED BY <1>1, <2>1, <2>2, <3>2, <4>1, FlushPop
    <3> QED BY <3>1, <3>2
  <2> QED BY <2>2, <2>3, <2>4
<1> QED BY <1>2, FlushEnd
-----------------------------------------------------------------------------
(* The input that is held.                                                 *)

\* do_apply_op() holds a value that is correct, of a live tensor; nothing else
\* changes.
LEMMA HoldStep ==
    ASSUME TypeOK, Core, DoApplyHold \/ FlushHold
    PROVE  /\ HeldInv' /\ held' \in Values \cup {NoValue}
           /\ UNCHANGED <<info, handleVars, call, optionVars, queue, wpc, m_apply_stack, m_applying,
                          waitVars>>
<1>1. CASE DoApplyHold
  <2>1. /\ wpc = "run" /\ queue # <<>> /\ Head(queue).op = "ApplyOp" /\ ~worker_dtr /\ ~info[Src].invalid
        /\ info[Src].ptr # "null" /\ held' = info[Src].val
        /\ UNCHANGED <<info, handleVars, call, optionVars, queue, wpc, m_apply_stack, m_applying,
                       waitVars>>
    BY <1>1 DEF DoApplyHold, HoldInput, Processing
  <2>2. Src \in alive /\ Src \in Tensors
    BY <2>1, HeadFacts, Basics
  <2>3. info[Src].val = info[Src].want /\ info[Src].val \in Values \cup {NoValue}
    BY <2>1, <2>2 DEF ValueCorrect, TypeOK, TensorInfo
  <2> QED BY <2>1, <2>3 DEF HeldInv, Src, optionVars
<1>2. CASE FlushHold
  <2>1. /\ wpc = "flush" /\ ~Dangling(Top) /\ info[Top.src].ptr # "null" /\ held' = info[Top.src].val
        /\ UNCHANGED <<info, handleVars, call, optionVars, queue, wpc, m_apply_stack, m_applying,
                       waitVars>>
    BY <1>2 DEF FlushHold, HoldInput
  <2>2. Top.src \in alive /\ Top.src \in Tensors
    BY <2>1, TopFacts, Basics DEF EntryOK
  <2>3. info[Top.src].val = info[Top.src].want /\ info[Top.src].val \in Values \cup {NoValue}
    BY <2>1, <2>2 DEF ValueCorrect, TypeOK, TensorInfo
  <2> QED BY <2>1, <2>3 DEF HeldInv, Top, Dangling
<1> QED BY <1>1, <1>2

\* What is held stays the input of the operator that runs while neither the
\* operator nor what its input is to be changes.
LEMMA HeldKept ==
    ASSUME TypeOK, Core, HeldInv, UNCHANGED <<held, wpc, m_apply_stack, worker_dtr>>,
           queue # <<>> => queue' # <<>> /\ Head(queue') = Head(queue),
           \A x \in alive : info'[x].want = info[x].want /\ info'[x].invalid = info[x].invalid
    PROVE  HeldInv'
<1> SUFFICES ASSUME held # NoValue PROVE HeldInv'
  BY DEF HeldInv
<1>1. CASE wpc = "flush"
  <2>1. ~Dangling(Top) /\ held = info[Top.src].want
    BY <1>1 DEF HeldInv
  <2>2. Top.src \in alive
    BY <1>1, <2>1, TopFacts DEF EntryOK
  <2> QED BY <1>1, <2>1, <2>2 DEF HeldInv, Top, Dangling
<1>2. CASE wpc # "flush"
  <2>1. /\ wpc = "run" /\ queue # <<>> /\ Head(queue).op = "ApplyOp" /\ ~worker_dtr
        /\ ~info[Src].invalid /\ held = info[Src].want
    BY <1>2 DEF HeldInv
  <2>2. Src \in alive
    BY <2>1, HeadFacts
  <2> QED BY <2>1, <2>2 DEF HeldInv, Src
<1> QED BY <1>1, <1>2

=============================================================================
