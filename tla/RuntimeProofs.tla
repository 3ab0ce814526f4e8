---------------------------- MODULE RuntimeProofs ----------------------------
(***************************************************************************)
(* Proofs about Runtime, for every number of processes, tasks, addresses   *)
(* and nested activations, and for every kind of host.                     *)
(*                                                                         *)
(* Every action leaves a stack which is a prefix of the old one, with at   *)
(* most two activations pushed on top of it.  So the proofs rest on two    *)
(* facts about the shape of stacks, that prefixes keep it (CutStack) and   *)
(* when a push keeps it (PushStack), and on one lemma for every operation  *)
(* several actions share.                                                  *)
(*                                                                         *)
(* What is proved about translated code follows from one observation:      *)
(* while a block is being loaded nothing runs which could flush or define  *)
(* blocks.                                                                 *)
(***************************************************************************)
EXTENDS Runtime, TLAPS

-----------------------------------------------------------------------------
(* Activations and stacks. *)

\* The activations a process must not outlive belong to the process p, which exists if a.
Owned(s, a, p) ==
    \A i \in 1 .. Len(s) : s[i].fn \in {"execute", "wrap"} => a /\ s[i].proc = p

StackOK(s, n, a, p) == Shape(s) /\ NeverInside(s) /\ Levels(s, n) /\ Owned(s, a, p)

\* s ends where a host answers: nothing, or the activation of fHandleTask
Answering(s) == s = <<>> \/ s[Len(s)].fn = "task"

\* StackInv is StackOK of the variables.
LEMMA StackInvOK == StackInv <=> StackOK(stack, nested, alive, procId)
  BY Zenon DEF StackInv, StackOK, NoDanglingFrame, Owned, Live

\* The function of an activation says which fields it has.
LEMMA FrameKinds ==
    ASSUME NEW f \in Frame
    PROVE  /\ f.fn = "create" => f \in CreateFrame
           /\ f.fn = "block" => f \in BlockFrame
           /\ f.fn = "task" => f \in TaskFrame
           /\ f.fn = "execute" => f \in ExecuteFrame
           /\ f.fn = "wrap" => f \in WrapFrame
           /\ f.fn \in {"create", "block", "task", "execute", "wrap"}
  BY DEF Frame, CreateFrame, BlockFrame, TaskFrame, ExecuteFrame, WrapFrame

\* Prefixes of a stack.
LEMMA CutSeq ==
    ASSUME NEW s \in Seq(Frame), NEW k \in 0 .. Len(s)
    PROVE  /\ SubSeq(s, 1, k) \in Seq(Frame)
           /\ Len(SubSeq(s, 1, k)) = k
           /\ \A i \in 1 .. k : SubSeq(s, 1, k)[i] = s[i]
  OBVIOUS

\* A stack without its innermost activation.
LEMMA PopSeq ==
    ASSUME NEW s \in Seq(Frame), s # <<>>
    PROVE  /\ Len(s) \in Nat /\ Len(s) >= 1
           /\ Pop(s) \in Seq(Frame) /\ Len(Pop(s)) = Len(s) - 1
           /\ \A i \in 1 .. (Len(s) - 1) : Pop(s)[i] = s[i]
           /\ ~(Len(s) > 1) => Pop(s) = <<>>
           /\ Len(s) > 1 => Pop(s) # <<>> /\ Pop(s)[Len(Pop(s))] = s[Len(s) - 1]
<1>1. Len(s) \in Nat /\ Len(s) >= 1 /\ Len(s) - 1 \in 0 .. Len(s)
  OBVIOUS
<1>2. /\ Pop(s) \in Seq(Frame) /\ Len(Pop(s)) = Len(s) - 1
      /\ \A i \in 1 .. (Len(s) - 1) : Pop(s)[i] = s[i]
  BY <1>1, CutSeq DEF Pop
<1> QED
  BY <1>1, <1>2

\* A stack with one more activation.
LEMMA PushSeq ==
    ASSUME NEW s \in Seq(Frame), NEW f \in Frame
    PROVE  /\ Append(s, f) \in Seq(Frame)
           /\ Len(Append(s, f)) = Len(s) + 1
           /\ \A i \in 1 .. Len(s) : Append(s, f)[i] = s[i]
           /\ Append(s, f)[Len(s) + 1] = f
           /\ Append(s, f) # <<>> /\ Append(s, f)[Len(Append(s, f))] = f
  OBVIOUS

\* Returning from any number of activations keeps the stack in shape.
LEMMA CutStack ==
    ASSUME NEW s \in Seq(Frame), NEW k \in 0 .. Len(s), NEW n \in Nat, NEW a, NEW p,
           StackOK(s, n, a, p)
    PROVE  StackOK(SubSeq(s, 1, k), n, a, p)
<1> DEFINE c == SubSeq(s, 1, k)
<1>1. Len(c) = k /\ \A i \in 1 .. k : c[i] = s[i]
  BY CutSeq
<1>2. Shape(c)
  BY <1>1 DEF StackOK, Shape
<1>3. NeverInside(c)
  BY <1>1 DEF StackOK, NeverInside
<1>4. Levels(c, n)
  BY <1>1 DEF StackOK, Levels
<1>5. Owned(c, a, p)
  BY <1>1 DEF StackOK, Owned
<1> QED
  BY <1>2, <1>3, <1>4, <1>5 DEF StackOK

\* no activation of s uses the process
Plain(s) == \A i \in 1 .. Len(s) : s[i].fn \notin {"execute", "wrap"}

\* A stack no activation of which uses the process fits every process.
LEMMA PlainStack ==
    ASSUME NEW s \in Seq(Frame), Shape(s), Plain(s), NEW n \in Nat, NEW a, NEW p
    PROVE  StackOK(s, n, a, p) /\ ~Wraps(s)
  BY DEF StackOK, Plain, NeverInside, Levels, Owned, Wraps

\* The empty stack fits every process.
LEMMA EmptyStack ==
    ASSUME NEW n \in Nat, NEW a, NEW p
    PROVE  StackOK(<<>>, n, a, p) /\ Plain(<<>>) /\ ~Wraps(<<>>) /\ <<>> \in Seq(Frame)
  BY DEF StackOK, Shape, NeverInside, Levels, Owned, Wraps, Plain

\* A call keeps the stack in shape if callee and caller fit, if it is made by the process that
\* owns the stack, and if a wrapper counts more than the wrappers below it.
LEMMA PushStack ==
    ASSUME NEW s \in Seq(Frame), NEW f \in Frame, NEW n \in Nat, NEW a, NEW p,
           StackOK(s, n, a, p),
           s # <<>> => Adjacent(s[Len(s)], f),
           s = <<>> /\ f.fn = "wrap" => ~f.inplace,
           f.fn = "execute" => ~Wraps(s) /\ a /\ f.proc = p,
           f.fn = "wrap" => /\ a /\ f.proc = p
                            /\ 1 <= f.level /\ f.level <= n
                            /\ \A i \in 1 .. Len(s) : s[i].fn = "wrap" => s[i].level < f.level
    PROVE  StackOK(Append(s, f), n, a, p)
<1> DEFINE c == Append(s, f)
<1>1. /\ c \in Seq(Frame) /\ Len(c) = Len(s) + 1 /\ c[Len(s) + 1] = f
      /\ \A i \in 1 .. Len(s) : c[i] = s[i]
  BY PushSeq
<1>2. Len(s) \in Nat /\ (s = <<>> <=> Len(s) = 0)
  OBVIOUS
<1>3. Shape(c)
  <2>1. ASSUME NEW i \in 2 .. Len(c) PROVE Adjacent(c[i - 1], c[i])
    <3>1. CASE i = Len(s) + 1
      BY <3>1, <1>1, <1>2
    <3>2. CASE i <= Len(s)
      <4>1. c[i - 1] = s[i - 1] /\ c[i] = s[i] /\ i \in 2 .. Len(s)
        BY <3>2, <1>1
      <4> QED
        BY <4>1 DEF StackOK, Shape
    <3> QED
      BY <3>1, <3>2, <1>1
  <2>2. Len(c) > 0 /\ c[1].fn = "wrap" => ~c[1].inplace
    BY <1>1, <1>2 DEF StackOK, Shape
  <2> QED
    BY <2>1, <2>2 DEF Shape
<1>4. NeverInside(c)
  BY <1>1 DEF StackOK, NeverInside, Wraps
<1>5. Levels(c, n)
  BY <1>1 DEF StackOK, Levels
<1>6. Owned(c, a, p)
  BY <1>1 DEF StackOK, Owned
<1> QED
  BY <1>3, <1>4, <1>5, <1>6 DEF StackOK

\* Guest code runs on nothing that uses the process, and directly on an answer of the host.
LEMMA UnderExecute ==
    ASSUME NEW s \in Seq(Frame), NEW n \in Nat, NEW a, NEW p, StackOK(s, n, a, p),
           s # <<>>, s[Len(s)].fn = "execute"
    PROVE  /\ Pop(s) \in Seq(Frame) /\ Shape(Pop(s))
           /\ Plain(Pop(s)) /\ Answering(Pop(s))
           /\ a /\ s[Len(s)].proc = p
<1> DEFINE c == Pop(s)
<1>1. Len(s) \in Nat /\ Len(s) >= 1
  BY PopSeq
<1>2. /\ c \in Seq(Frame) /\ Len(c) = Len(s) - 1
      /\ \A i \in 1 .. (Len(s) - 1) : c[i] = s[i]
  BY PopSeq
<1>3. Shape(c)
  BY <1>1, CutStack DEF Pop, StackOK
<1>4. \A i \in 1 .. (Len(s) - 1) : s[i].fn # "wrap"
  BY <1>1 DEF StackOK, NeverInside
<1>5. ASSUME NEW i \in 1 .. (Len(s) - 1), s[i].fn = "execute" PROVE FALSE
  <2>1. Adjacent(s[i], s[i + 1])
    <3>1. i + 1 \in 2 .. Len(s) /\ (i + 1) - 1 = i
      BY <1>1
    <3> QED
      BY <3>1 DEF StackOK, Shape
  <2>2. s[i + 1].fn = "wrap"
    BY <2>1, <1>5 DEF Adjacent
  <2>3. CASE i + 1 = Len(s)
    BY <2>2, <2>3
  <2>4. CASE i + 1 < Len(s)
    BY <2>2, <2>4, <1>4, <1>1
  <2> QED
    BY <2>3, <2>4, <1>1
<1>6. Plain(c)
  BY <1>2, <1>4, <1>5 DEF Plain
<1>7. Answering(c)
  <2>1. CASE ~(Len(s) > 1)
    BY <2>1, PopSeq DEF Answering
  <2>2. CASE Len(s) > 1
    <3>1. Adjacent(s[Len(s) - 1], s[Len(s)])
      BY <2>2, <1>1 DEF StackOK, Shape
    <3>2. s[Len(s) - 1].fn = "task"
      BY <3>1 DEF Adjacent
    <3> QED
      BY <3>2, <2>2, PopSeq DEF Answering
  <2> QED
    BY <2>1, <2>2
<1>8. a /\ s[Len(s)].proc = p
  BY <1>1 DEF StackOK, Owned
<1> QED
  BY <1>2, <1>3, <1>6, <1>7, <1>8

\* fWrap called by guest code returns to the guest code.
LEMMA UnderInplace ==
    ASSUME NEW s \in Seq(Frame), NEW n \in Nat, NEW a, NEW p, StackOK(s, n, a, p),
           s # <<>>, s[Len(s)].fn = "wrap", s[Len(s)].inplace
    PROVE  /\ Len(s) > 1 /\ s[Len(s) - 1].fn = "execute" /\ s[Len(s) - 1].at \in Addr
           /\ Pop(s) \in Seq(Frame) /\ Pop(s) # <<>> /\ Pop(s)[Len(Pop(s))] = s[Len(s) - 1]
           /\ ~Wraps(Pop(s)) /\ \A m \in Nat : StackOK(Pop(s), m, a, p)
           /\ Pop(Pop(s)) \in Seq(Frame) /\ Shape(Pop(Pop(s)))
           /\ Plain(Pop(Pop(s))) /\ Answering(Pop(Pop(s)))
<1> DEFINE c == Pop(s)
<1>1. Len(s) \in Nat /\ Len(s) >= 1
  BY PopSeq
<1>2. Len(s) # 1
  BY <1>1 DEF StackOK, Shape
<1>3. s[Len(s) - 1].fn = "execute" /\ s[Len(s) - 1].at \in Addr
  <2>1. Adjacent(s[Len(s) - 1], s[Len(s)])
    BY <1>1, <1>2 DEF StackOK, Shape
  <2> QED
    BY <2>1 DEF Adjacent
<1>4. /\ c \in Seq(Frame) /\ Len(c) = Len(s) - 1
      /\ \A i \in 1 .. (Len(s) - 1) : c[i] = s[i]
  BY PopSeq
<1>5. c # <<>> /\ c[Len(c)] = s[Len(s) - 1]
  BY <1>4, <1>1, <1>2
<1>6. StackOK(c, n, a, p)
  BY <1>1, CutStack DEF Pop
<1>7. ~Wraps(c)
  BY <1>5, <1>6, <1>3, <1>4 DEF StackOK, NeverInside, Wraps
<1>8. ASSUME NEW m \in Nat PROVE StackOK(c, m, a, p)
  BY <1>6, <1>7 DEF StackOK, Levels, Wraps
<1>9. Pop(c) \in Seq(Frame) /\ Shape(Pop(c)) /\ Plain(Pop(c)) /\ Answering(Pop(c))
  BY <1>3, <1>4, <1>5, <1>6, UnderExecute
<1> QED
  BY <1>1, <1>2, <1>3, <1>4, <1>5, <1>7, <1>8, <1>9

\* fWrap called by callContinue returns to the host, and the wrappers below it have lower levels.
LEMMA UnderContinued ==
    ASSUME NEW s \in Seq(Frame), NEW n \in Nat, NEW a, NEW p, StackOK(s, n, a, p),
           s # <<>>, s[Len(s)].fn = "wrap", ~s[Len(s)].inplace
    PROVE  /\ Pop(s) \in Seq(Frame) /\ Answering(Pop(s))
           /\ n - 1 \in Nat /\ StackOK(Pop(s), n - 1, a, p)
           /\ n - 1 = 0 => ~Wraps(Pop(s))
<1> DEFINE c == Pop(s)
<1>1. Len(s) \in Nat /\ Len(s) >= 1
  BY PopSeq
<1>2. /\ c \in Seq(Frame) /\ Len(c) = Len(s) - 1
      /\ \A i \in 1 .. (Len(s) - 1) : c[i] = s[i]
  BY PopSeq
<1>3. StackOK(c, n, a, p)
  BY <1>1, CutStack DEF Pop
<1>4. s[Len(s)].level \in Nat /\ \A i \in 1 .. Len(s) : s[i].fn = "wrap" => s[i].level \in Nat
  <2>1. \A i \in 1 .. Len(s) : s[i] \in Frame
    OBVIOUS
  <2> QED
    BY <2>1, <1>1, FrameKinds DEF WrapFrame
<1>5. /\ 1 <= s[Len(s)].level /\ s[Len(s)].level <= n
      /\ \A i \in 1 .. (Len(s) - 1) : s[i].fn = "wrap" => s[i].level < s[Len(s)].level
  BY <1>1 DEF StackOK, Levels
<1>6. n - 1 \in Nat
  BY <1>4, <1>5
<1>7. Levels(c, n - 1)
  <2> SUFFICES ASSUME NEW j \in 1 .. Len(c), c[j].fn = "wrap"
               PROVE  /\ 1 <= c[j].level /\ c[j].level <= n - 1
                      /\ \A i \in 1 .. (j - 1) : c[i].fn = "wrap" => c[i].level < c[j].level
    BY DEF Levels
  <2>1. s[j].fn = "wrap" /\ c[j] = s[j] /\ j \in 1 .. (Len(s) - 1)
    BY <1>2
  <2>2. s[j].level < s[Len(s)].level /\ s[j].level \in Nat
    BY <2>1, <1>4, <1>5, <1>1
  <2>3. c[j].level <= n - 1
    BY <2>1, <2>2, <1>4, <1>5
  <2>4. 1 <= c[j].level /\ \A i \in 1 .. (j - 1) : c[i].fn = "wrap" => c[i].level < c[j].level
    BY <1>3 DEF StackOK, Levels
  <2> QED
    BY <2>3, <2>4
<1>8. StackOK(c, n - 1, a, p)
  BY <1>3, <1>7 DEF StackOK
<1>9. Answering(c)
  <2>1. CASE ~(Len(s) > 1)
    BY <2>1, PopSeq DEF Answering
  <2>2. CASE Len(s) > 1
    <3>1. Adjacent(s[Len(s) - 1], s[Len(s)])
      BY <2>2, <1>1 DEF StackOK, Shape
    <3>2. s[Len(s) - 1].fn = "task"
      BY <3>1 DEF Adjacent
    <3> QED
      BY <3>2, <2>2, PopSeq DEF Answering
  <2> QED
    BY <2>1, <2>2
<1>10. n - 1 = 0 => ~Wraps(c)
  <2> SUFFICES ASSUME n - 1 = 0, NEW i \in 1 .. Len(c), c[i].fn = "wrap" PROVE FALSE
    BY DEF Wraps
  <2>1. c[i].level \in Nat
    BY <1>2, <1>4
  <2>2. 1 <= c[i].level /\ c[i].level <= 0
    BY <1>7 DEF Levels
  <2> QED
    BY <2>1, <2>2
<1> QED
  BY <1>2, <1>6, <1>8, <1>9, <1>10

\* A FatalException leaves a stack that ends at an answer of the host.
LEMMA UnwoundStack ==
    ASSUME NEW s \in Seq(Frame), NEW n \in Nat, NEW a, NEW p, StackOK(s, n, a, p),
           NEW u \in Unwound(s)
    PROVE  /\ u \in Seq(Frame) /\ StackOK(u, n, a, p) /\ Answering(u)
           /\ Wraps(u) => Wraps(s)
<1>1. PICK k \in 0 .. Len(s) : u = SubSeq(s, 1, k) /\ (k = 0 \/ s[k].fn = "task")
  BY DEF Unwound
<1>2. u \in Seq(Frame) /\ Len(u) = k /\ \A i \in 1 .. k : u[i] = s[i]
  BY <1>1, CutSeq
<1>3. StackOK(u, n, a, p)
  BY <1>1, CutStack
<1>4. Answering(u)
  BY <1>1, <1>2 DEF Answering
<1>5. Wraps(u) => Wraps(s)
  BY <1>1, <1>2 DEF Wraps
<1> QED
  BY <1>2, <1>3, <1>4, <1>5

\* A call adds a wrapper exactly if it is one.
LEMMA WrapsPush ==
    ASSUME NEW s \in Seq(Frame), NEW f \in Frame
    PROVE  Wraps(Append(s, f)) <=> Wraps(s) \/ f.fn = "wrap"
<1>1. /\ Len(s) \in Nat /\ Len(Append(s, f)) = Len(s) + 1 /\ Append(s, f)[Len(s) + 1] = f
      /\ \A i \in 1 .. Len(s) : Append(s, f)[i] = s[i]
  BY PushSeq
<1>2. ASSUME f.fn = "wrap" PROVE Wraps(Append(s, f))
  <2>1. Len(s) + 1 \in 1 .. Len(Append(s, f))
    BY <1>1
  <2> QED
    BY <1>1, <1>2, <2>1 DEF Wraps
<1>3. ASSUME Wraps(s) PROVE Wraps(Append(s, f))
  BY <1>1, <1>3 DEF Wraps
<1>4. ASSUME Wraps(Append(s, f)), f.fn # "wrap" PROVE Wraps(s)
  BY <1>1, <1>4 DEF Wraps
<1> QED
  BY <1>2, <1>3, <1>4

\* While the host may answer, neither guest code nor a callback runs.
LEMMA AnsweringIdle ==
    ASSUME Answering(stack)
    PROVE  ~On("execute") /\ ~Body /\ ~On("wrap")
  BY DEF Answering, On, Body, Top

-----------------------------------------------------------------------------
(* Operations several actions share. *)

\* what the prover has to know of the values StartTask and LoadBlock leave
TaskTypes ==
    /\ taskState \in TaskState /\ taskStamp \in Nat /\ taskCall \in TaskKind
    /\ stack \in Seq(Frame) /\ pending \in SUBSET Task

\* The process starts a task while it has no other.
LEMMA StartTaskInv ==
    ASSUME NEW kind \in TaskKind, NEW base \in Seq(Frame), NEW rest \in SUBSET Task,
           StartTask(kind, base, rest),
           procId \in Nat, procId' = procId, alive' = TRUE, taskStamp \in Nat,
           nested' \in Nat, StackOK(base, nested', alive', procId'),
           base # <<>> => \/ base[Len(base)].fn \in {"create", "block", "task"}
                          \/ base[Len(base)].fn = "wrap" /\ base[Len(base)].at = "issued",
           \A t \in rest : t.proc < procId,
           Wraps(base) => kind = "syscall",
           kind = "syscall" => ~completed'
    PROVE  TaskTypes' /\ StackInv' /\ TaskInv'
<1> DEFINE task  == [proc |-> procId, kind |-> kind, stamp |-> taskStamp + 1]
           frame == [fn |-> "task", proc |-> procId, stamp |-> taskStamp + 1]
<1>1. /\ taskState' = "started" /\ taskStamp' = taskStamp + 1 /\ taskCall' = kind
      /\ pending' = rest \union {task} /\ stack' = Append(base, frame)
  BY DEF StartTask
<1>2. frame \in Frame /\ task \in Task
  BY DEF Frame, TaskFrame, Task
<1>3. stack' \in Seq(Frame) /\ stack' # <<>> /\ stack'[Len(stack')].fn = "task"
  BY <1>1, <1>2, PushSeq
<1>4. TaskTypes'
  BY <1>1, <1>2, <1>3 DEF TaskTypes, TaskState, TaskKind
<1>5. StackInv'
  <2>1. base # <<>> => Adjacent(base[Len(base)], frame)
    BY DEF Adjacent
  <2>2. StackOK(stack', nested', alive', procId')
    BY <1>1, <1>2, <2>1, PushStack
  <2>3. StackInv' <=> StackOK(stack', nested', alive', procId')
    BY DEF StackInv, StackOK, NoDanglingFrame, Owned, Live
  <2> QED
    BY <2>2, <2>3
<1>6. TaskInv'
  <2>1. CallbackMatches'
    BY <1>1 DEF CallbackMatches, Outstanding, Live
  <2>2. \A t \in pending' : t.proc <= procId'
    BY <1>1, <1>2 DEF Task
  <2>3. ~(On("execute") \/ Body)'
    BY <1>3 DEF On, Body, Top
  <2>4. Wraps(stack') => taskCall' = "syscall"
    BY <1>1, <1>2, WrapsPush
  <2>5. \E t \in (pending \union lost)' : t.proc = procId'
    <3>1. task \in (pending \union lost)' /\ task.proc = procId'
      BY <1>1
    <3> QED
      BY <3>1
  <2>6. taskState' # "none" /\ taskCall' = "syscall" => ~completed'
    BY <1>1
  <2> QED
    BY <2>1, <2>2, <2>3, <2>4, <2>5, <2>6 DEF TaskInv
<1> QED
  BY <1>4, <1>5, <1>6

\* The process fails or goes on while it has no task.
LEMMA NoTaskInv ==
    ASSUME procId' \in Nat, alive' \in BOOLEAN, nested' \in Nat,
           StackOK(stack', nested', alive', procId'),
           taskState' = "none",
           Body' => ~completed',
           \A t \in pending' : t.proc <= procId' /\ (alive' => t.proc # procId')
    PROVE  StackInv' /\ TaskInv'
<1>1. StackInv' <=> StackOK(stack', nested', alive', procId')
  BY DEF StackInv, StackOK, NoDanglingFrame, Owned, Live
<1>2. CallbackMatches'
  BY DEF CallbackMatches, Outstanding, Live
<1> QED
  BY <1>1, <1>2 DEF TaskInv

\* The values of the variables only LoadBlock and the tasks change.
LoadTypes ==
    /\ procState \in ProcState
    /\ DOMAIN exports \in SUBSET Addr /\ exports \in [DOMAIN exports -> Nat]
    /\ links \in SUBSET Addr
    /\ fatal \in Fatal

\* A block is loaded, or refused, while the process has no task.
LEMMA LoadBlockInv ==
    ASSUME NEW base \in Seq(Frame), NEW rest \in SUBSET Task,
           LoadBlock(base, rest, "none"),
           LoadTypes, procState # "none", fatal \notin {"doubleTask", "coreNotLoaded"},
           procId \in Nat, procId' = procId, alive' = TRUE,
           taskStamp \in Nat, taskCall \in TaskKind,
           nested' \in Nat, StackOK(base, nested', alive', procId'),
           Answering(base), ~Wraps(base),
           \A t \in rest : t.proc < procId,
           pAddress' \in Addr, DOMAIN mapping' \in SUBSET Addr, codeVer' \in Nat
    PROVE  /\ TaskTypes' /\ StackInv' /\ TaskInv' /\ LoadTypes'
           /\ procState' # "none" /\ fatal' \notin {"doubleTask", "coreNotLoaded"}
<1>1. \A u \in Unwound(base) :
        u \in Seq(Frame) /\ StackOK(u, nested', alive', procId') /\ Answering(u)
  BY UnwoundStack
<1>2. ASSUME NEW cause \in {"loadInProgress", "blockFailed"}, Abort(cause, base),
             taskState' = "none", pending' = rest, taskStamp' = taskStamp, taskCall' = taskCall,
             exports' = exports, links' = links,
             procState' \in ProcState \ {"none"}
      PROVE  /\ TaskTypes' /\ StackInv' /\ TaskInv' /\ LoadTypes'
             /\ procState' # "none" /\ fatal' \notin {"doubleTask", "coreNotLoaded"}
  <2>1. fatal' = cause /\ stack' \in Unwound(base)
    BY <1>2 DEF Abort
  <2>2. stack' \in Seq(Frame) /\ StackOK(stack', nested', alive', procId') /\ Answering(stack')
    BY <1>1, <2>1
  <2>3. ~Body'
    BY <2>2 DEF Answering, Body, On, Top
  <2>4. \A t \in pending' : t.proc <= procId' /\ (alive' => t.proc # procId')
    <3> SUFFICES ASSUME NEW t \in rest PROVE t.proc <= procId /\ t.proc # procId
      BY <1>2
    <3>1. t.proc \in Nat /\ t.proc < procId
      BY DEF Task
    <3> QED
      BY <3>1
  <2>5. StackInv' /\ TaskInv'
    BY <1>2, <2>2, <2>3, <2>4, NoTaskInv
  <2>6. TaskTypes'
    BY <1>2, <2>2 DEF TaskTypes, TaskState
  <2>7. LoadTypes'
    BY <1>2, <2>1 DEF LoadTypes, Fatal
  <2> QED
    BY <1>2, <2>1, <2>5, <2>6, <2>7
<1>3. CASE procState \in {"loadingCore", "loadingBlock"} /\ Abort("loadInProgress", base)
           /\ taskState' = "none" /\ pending' = rest
           /\ UNCHANGED <<procState, taskStamp, taskCall, exports, links>>
  BY <1>2, <1>3 DEF ProcState
<1>4. CASE procState' = "loadingBlock" /\ Abort("blockFailed", base)
           /\ taskState' = "none" /\ pending' = rest
           /\ UNCHANGED <<taskStamp, taskCall, exports, links>>
  BY <1>2, <1>4 DEF ProcState
<1>5. CASE /\ procState' = "loadingBlock"
           /\ \E s \in Translation(pAddress', Linkable) : exports' = [a \in s |-> codeVer']
           /\ links' \in SUBSET Linkable
           /\ StartTask("block", Append(base, [fn |-> "block", proc |-> procId]), rest)
           /\ UNCHANGED fatal
  <2> DEFINE frame == [fn |-> "block", proc |-> procId]
             pushed == Append(base, frame)
  <2>1. frame \in Frame
    BY DEF Frame, BlockFrame
  <2>2. /\ pushed \in Seq(Frame) /\ pushed # <<>> /\ pushed[Len(pushed)].fn = "block"
        /\ ~Wraps(pushed)
    <3>1. pushed \in Seq(Frame) /\ pushed # <<>> /\ pushed[Len(pushed)] = frame
      BY <2>1, PushSeq
    <3>2. frame.fn = "block"
      OBVIOUS
    <3>3. ~Wraps(pushed)
      BY <2>1, <3>2, WrapsPush
    <3> HIDE DEF frame, pushed
    <3> QED
      BY <3>1, <3>2, <3>3
  <2>3. StackOK(pushed, nested', alive', procId')
    <3>1. base # <<>> => Adjacent(base[Len(base)], frame)
      BY DEF Answering, Adjacent
    <3> QED
      BY <2>1, <3>1, PushStack
  <2>4. TaskTypes' /\ StackInv' /\ TaskInv'
    <3>1. "block" \in TaskKind
      BY DEF TaskKind
    <3>2. StartTask("block", pushed, rest)
      BY <1>5
    <3> HIDE DEF pushed
    <3> QED
      BY <2>2, <2>3, <3>1, <3>2, StartTaskInv
  <2>5. LoadTypes'
    <3>1. PICK s \in SUBSET Addr : exports' = [a \in s |-> codeVer']
      BY <1>5 DEF Translation
    <3>2. DOMAIN exports' = s /\ exports' \in [s -> Nat]
      BY <3>1
    <3>3. links' \in SUBSET Addr
      BY <1>5 DEF Linkable
    <3> QED
      BY <1>5, <3>2, <3>3 DEF LoadTypes, ProcState
  <2> QED
    BY <1>5, <2>4, <2>5
<1> QED
  BY <1>3, <1>4, <1>5 DEF LoadBlock

\* Where the task of the process is known to be over, all pending ones are older.
LEMMA OlderTasks ==
    ASSUME TypeOK, TaskInv, alive, taskState = "none"
    PROVE  \A t \in pending : t.proc < procId
<1> SUFFICES ASSUME NEW t \in pending PROVE t.proc < procId
  OBVIOUS
<1>1. t.proc \in Nat /\ procId \in Nat /\ t.proc <= procId
  BY DEF TypeOK, Task, TaskInv
<1>2. t.proc # procId
  BY DEF TaskInv, CallbackMatches, Outstanding, Live
<1> QED
  BY <1>1, <1>2

\* What holds whenever an activation of the process runs on top of the stack.
LEMMA RunningFacts ==
    ASSUME IInv, On("execute") \/ On("wrap")
    PROVE  /\ stack # <<>> /\ stack \in Seq(Frame) /\ Top \in Frame
           /\ StackOK(stack, nested, alive, procId) /\ nested \in Nat
           /\ alive /\ alive = TRUE /\ Top.proc = procId /\ procId \in Nat
           /\ procState # "none"
           /\ HostLocks => session # "idle"
<1>1. stack # <<>> /\ stack \in Seq(Frame) /\ nested \in Nat /\ alive \in BOOLEAN /\ procId \in Nat
  BY DEF IInv, TypeOK, On
<1>2. StackOK(stack, nested, alive, procId)
  BY StackInvOK DEF IInv
<1>3. Top = stack[Len(stack)] /\ Len(stack) \in 1 .. Len(stack) /\ Top \in Frame
  BY <1>1, PopSeq DEF Top
<1>4. alive /\ Top.proc = procId
  BY <1>2, <1>3 DEF StackOK, Owned, On
<1>5. procState # "none" /\ (HostLocks => session # "idle")
  BY <1>1, <1>4 DEF IInv, HostInv
<1> QED
  BY <1>1, <1>2, <1>3, <1>4, <1>5

\* A step of the process that neither has nor gets a task.
LEMMA SteadyInv ==
    ASSUME IInv, alive, taskState = "none", HostLocks => session # "idle",
           UNCHANGED <<procId, alive, procVars, loadVars, pending, hostVars>>,
           stack' \in Seq(Frame), nested' \in Nat, StackOK(stack', nested', alive', procId'),
           Body' => ~completed',
           DOMAIN mapping' \in SUBSET Addr, mapping' \in [DOMAIN mapping' -> Nat],
           codeVer' \in Nat, xInvalid' \in BOOLEAN, unsynced' \in BOOLEAN,
           pAddress' \in Addr, completed' \in BOOLEAN, owed' \in Int,
           fatal' \in Fatal \ {"doubleTask", "coreNotLoaded"}
    PROVE  IInv'
<1>1. TypeOK'
  BY DEF IInv, TypeOK, procVars, loadVars, hostVars
<1>2. \A t \in pending' : t.proc <= procId' /\ (alive' => t.proc # procId')
  <2> SUFFICES ASSUME NEW t \in pending PROVE t.proc <= procId /\ t.proc # procId
    OBVIOUS
  <2>1. t.proc \in Nat /\ procId \in Nat /\ t.proc < procId
    BY OlderTasks DEF IInv, TypeOK, Task
  <2> QED
    BY <2>1
<1>3. StackInv' /\ TaskInv'
  <2>1. procId' \in Nat /\ alive' \in BOOLEAN /\ taskState' = "none"
    BY DEF IInv, TypeOK, procVars
  <2> QED
    BY <2>1, <1>2, NoTaskInv
<1>4. HostInv'
  BY DEF IInv, HostInv, procVars, hostVars
<1> QED
  BY <1>1, <1>3, <1>4 DEF IInv

\* fExecute starts the translation of a block.
LEMMA RetranslateInv ==
    ASSUME IInv, alive, taskState = "none", HostLocks => session # "idle",
           NEW address \in Addr, NEW base \in Seq(Frame), Retranslate(address, base),
           Shape(base), Plain(base), Answering(base), nested' \in Nat,
           DOMAIN mapping' \in SUBSET Addr, mapping' \in [DOMAIN mapping' -> Nat],
           codeVer' \in Nat, xInvalid' \in BOOLEAN, unsynced' \in BOOLEAN,
           completed' \in BOOLEAN, owed' \in Int
    PROVE  IInv'
<1>1. /\ pAddress' = address /\ LoadBlock(base, pending, "none")
      /\ UNCHANGED <<procId, alive, loadVars, hostVars>>
  BY DEF Retranslate
<1>2. /\ LoadTypes /\ procState # "none" /\ fatal \notin {"doubleTask", "coreNotLoaded"}
      /\ procId \in Nat /\ alive' = TRUE /\ taskStamp \in Nat /\ taskCall \in TaskKind
      /\ pending \in SUBSET Task
  BY <1>1 DEF IInv, TypeOK, HostInv, LoadTypes
<1>3. \A t \in pending : t.proc < procId
  BY OlderTasks DEF IInv
<1>4. StackOK(base, nested', alive', procId') /\ ~Wraps(base)
  BY PlainStack
<1>5. /\ TaskTypes' /\ StackInv' /\ TaskInv' /\ LoadTypes'
      /\ procState' # "none" /\ fatal' \notin {"doubleTask", "coreNotLoaded"}
  BY <1>1, <1>2, <1>3, <1>4, LoadBlockInv
<1>6. TypeOK'
  BY <1>1, <1>5 DEF IInv, TypeOK, TaskTypes, LoadTypes, loadVars, hostVars
<1>7. HostInv'
  BY <1>1, <1>5 DEF IInv, HostInv, hostVars
<1> QED
  BY <1>5, <1>6, <1>7 DEF IInv

-----------------------------------------------------------------------------
(* Commands. *)

\* The cleared map of blocks.
LEMMA NoCodeType == DOMAIN NoCode \in SUBSET Addr /\ NoCode \in [DOMAIN NoCode -> Nat]
  BY DEF NoCode

\* The invariant holds before the first command.
LEMMA InitInv == RuntimeAssumption /\ Init => IInv
<1> SUFFICES ASSUME RuntimeAssumption, Init PROVE IInv
  OBVIOUS
<1>1. TypeOK
  <2>1. /\ DOMAIN exports \in SUBSET Addr /\ exports \in [DOMAIN exports -> Nat]
        /\ DOMAIN mapping \in SUBSET Addr /\ mapping \in [DOMAIN mapping -> Nat]
    <3>1. exports = NoCode /\ mapping = NoCode
      BY DEF Init
    <3> QED
      BY <3>1, NoCodeType
  <2>2. stack \in Seq(Frame)
    BY DEF Init
  <2>3. pAddress \in Addr
    BY DEF RuntimeAssumption, Init
  <2>4. /\ procState \in ProcState /\ taskState \in TaskState /\ taskCall \in TaskKind
        /\ session \in Session /\ fatal \in Fatal
    BY DEF Init, ProcState, TaskState, TaskKind, Session, Fatal
  <2>5. /\ links \in SUBSET Addr /\ pending \in SUBSET Task /\ lost \in SUBSET Task
    BY DEF Init
  <2>6. /\ alive \in BOOLEAN /\ xInvalid \in BOOLEAN /\ unsynced \in BOOLEAN
        /\ interpreter \in BOOLEAN /\ debugCheck \in BOOLEAN /\ completed \in BOOLEAN
    BY DEF Init
  <2>7. /\ procId \in Nat /\ taskStamp \in Nat /\ codeVer \in Nat /\ resolveIndex \in Nat
        /\ nested \in Nat /\ owed \in Int /\ debugger \in Nat
    BY DEF Init
  <2> QED
    BY <2>1, <2>2, <2>3, <2>4, <2>5, <2>6, <2>7 DEF TypeOK
<1>2. StackInv
  BY EmptyStack, StackInvOK DEF Init
<1>3. TaskInv
  BY DEF Init, TaskInv, CallbackMatches, Outstanding, On, Body, Wraps
<1>4. HostInv
  BY DEF Init, HostInv
<1> QED
  BY <1>1, <1>2, <1>3, <1>4 DEF IInv

\* The process is set up, and its core is being loaded.
LEMMA CreateInv ==
    ASSUME IInv, NEW debug \in BOOLEAN, Create(debug), session' \in {"handle", "execute"},
           debugger' = 0 \/ (session' = "execute" /\ debugger' = debugger)
    PROVE  IInv'
<1>1. /\ procId \in Nat /\ procId' = procId + 1 /\ stack = <<>> /\ alive = FALSE
      /\ UNCHANGED <<exports, links, codeVars, pAddress, resolveIndex, interpreter, callVars,
                     lost, fatal>>
  BY DEF Create, Idle, IInv, TypeOK
<1>2. taskState = "none" /\ \A t \in pending : t.proc <= procId
  BY <1>1 DEF IInv, HostInv, TaskInv
<1>3. \A t \in pending : t.proc \in Nat /\ t.proc < procId'
  <2> SUFFICES ASSUME NEW t \in pending PROVE t.proc \in Nat /\ t.proc < procId + 1
    BY <1>1
  <2>1. t.proc \in Nat /\ t.proc <= procId
    BY <1>2 DEF IInv, TypeOK, Task
  <2> QED
    BY <2>1, <1>1
<1>4. nested' \in Nat /\ debugger' \in Nat
  BY <1>1 DEF IInv, TypeOK, callVars
<1>5. CASE UNCHANGED <<alive, procState, debugCheck, taskState, taskStamp, taskCall, pending, stack>>
  <2>1. TypeOK'
    BY <1>1, <1>4, <1>5 DEF IInv, TypeOK, codeVars, callVars, Session
  <2>2. stack' = <<>> /\ StackOK(stack', nested', alive', procId')
    BY <1>1, <1>4, <1>5, EmptyStack
  <2>3. ~Body'
    BY <2>2 DEF Body, On
  <2>4. \A t \in pending' : t.proc <= procId' /\ (alive' => t.proc # procId')
    <3> SUFFICES ASSUME NEW t \in pending PROVE t.proc <= procId'
      BY <1>5, <1>1
    <3> QED
      BY <1>1, <1>3
  <2>5. StackInv' /\ TaskInv'
    <3>1. procId' \in Nat /\ alive' \in BOOLEAN /\ taskState' = "none"
      BY <1>2, <1>5, <2>1 DEF TypeOK
    <3> QED
      BY <1>4, <2>2, <2>3, <2>4, <3>1, NoTaskInv
  <2>6. HostInv'
    BY <1>1, <1>2, <1>5 DEF IInv, HostInv
  <2> QED
    BY <2>1, <2>5, <2>6 DEF IInv
<1>6. CASE /\ alive' = TRUE /\ procState' = "loadingCore" /\ debugCheck' = debug
           /\ taskState' = "started" /\ taskStamp' = 1 /\ taskCall' = "core"
           /\ pending' = pending \union {[proc |-> procId + 1, kind |-> "core", stamp |-> 1]}
           /\ stack' = <<[fn |-> "create", proc |-> procId + 1, debug |-> debug],
                         [fn |-> "task", proc |-> procId + 1, stamp |-> 1]>>
  <2> DEFINE task == [proc |-> procId + 1, kind |-> "core", stamp |-> 1]
             frame1 == [fn |-> "create", proc |-> procId + 1, debug |-> debug]
             frame2 == [fn |-> "task", proc |-> procId + 1, stamp |-> 1]
  <2>1. task \in Task /\ frame1 \in Frame /\ frame2 \in Frame
    BY <1>1 DEF Task, TaskKind, Frame, CreateFrame, TaskFrame
  <2>2. stack' \in Seq(Frame) /\ Len(stack') = 2 /\ stack'[1] = frame1 /\ stack'[2] = frame2
    BY <1>6, <2>1
  <2>3. TypeOK'
    <3>1. pending' \in SUBSET Task
      BY <1>6, <2>1 DEF IInv, TypeOK
    <3> QED
      BY <1>1, <1>4, <1>6, <2>2, <3>1
         DEF IInv, TypeOK, codeVars, callVars, ProcState, TaskState, TaskKind, Session
  <2>4. StackInv'
    <3>1. \A i \in 1 .. Len(stack') : stack'[i].fn \notin {"execute", "wrap"}
      BY <2>2
    <3>2. Shape(stack')
      <4>1. Adjacent(frame1, frame2)
        BY DEF Adjacent
      <4>2. \A i \in 2 .. Len(stack') : i = 2 /\ i - 1 = 1
        BY <2>2
      <4> QED
        BY <2>2, <4>1, <4>2 DEF Shape
    <3>3. StackOK(stack', nested', alive', procId')
      BY <2>2, <3>1, <3>2, <1>4, PlainStack DEF Plain
    <3> QED
      BY <3>3 DEF StackInv, StackOK, NoDanglingFrame, Owned, Live
  <2>5. TaskInv'
    <3>1. CallbackMatches'
      <4> SUFFICES ASSUME NEW t \in pending', t.proc = procId'
                   PROVE  t.stamp = taskStamp' /\ t.kind = taskCall' /\ taskState' # "none"
        BY DEF CallbackMatches, Outstanding, Live
      <4>1. t \notin pending
        BY <1>3, <1>1
      <4> QED
        BY <4>1, <1>6
    <3>2. \A t \in pending' : t.proc <= procId'
      <4> SUFFICES ASSUME NEW t \in pending' PROVE t.proc <= procId'
        OBVIOUS
      <4>1. CASE t \in pending
        BY <4>1, <1>1, <1>3
      <4>2. CASE t = task
        BY <4>2, <1>1
      <4> QED
        BY <4>1, <4>2, <1>6
    <3>3. ~(On("execute") \/ Body)' /\ ~Wraps(stack')
      BY <2>2 DEF On, Body, Top, Wraps
    <3>4. \E t \in (pending \union lost)' : t.proc = procId'
      <4>1. task \in (pending \union lost)' /\ task.proc = procId'
        BY <1>1, <1>6
      <4> QED
        BY <4>1
    <3> QED
      BY <1>6, <3>1, <3>2, <3>3, <3>4 DEF TaskInv
  <2>6. HostInv'
    BY <1>1, <1>6 DEF IInv, HostInv
  <2> QED
    BY <2>3, <2>4, <2>5, <2>6 DEF IInv
<1> QED
  BY <1>5, <1>6 DEF Create, Idle

\* The process is gone, and nothing on the stack used it.
LEMMA ReleaseInv ==
    ASSUME RuntimeAssumption, IInv, Release, procId' = procId,
           stack' \in Seq(Frame), Shape(stack'), Plain(stack'),
           pending' \in SUBSET pending, lost' = lost,
           session' \in Session, debugger' \in Nat,
           HostLocks /\ session' = "idle" => stack' = <<>>
    PROVE  IInv'
<1>1. TypeOK'
  <2>1. /\ DOMAIN exports' \in SUBSET Addr /\ exports' \in [DOMAIN exports' -> Nat]
        /\ DOMAIN mapping' \in SUBSET Addr /\ mapping' \in [DOMAIN mapping' -> Nat]
    <3>1. exports' = NoCode /\ mapping' = NoCode
      BY DEF Release
    <3> QED
      BY <3>1, NoCodeType
  <2>2. pAddress' \in Addr
    BY DEF RuntimeAssumption, Release
  <2>3. /\ procState' \in ProcState /\ taskState' \in TaskState /\ taskCall' \in TaskKind
        /\ fatal' \in Fatal
    BY DEF Release, ProcState, TaskState, TaskKind, Fatal
  <2>4. links' \in SUBSET Addr /\ pending' \in SUBSET Task /\ lost' \in SUBSET Task
    BY DEF Release, IInv, TypeOK
  <2>5. /\ alive' \in BOOLEAN /\ xInvalid' \in BOOLEAN /\ unsynced' \in BOOLEAN
        /\ interpreter' \in BOOLEAN /\ debugCheck' \in BOOLEAN /\ completed' \in BOOLEAN
    BY DEF Release
  <2>6. /\ procId' \in Nat /\ taskStamp' \in Nat /\ codeVer' \in Nat /\ resolveIndex' \in Nat
        /\ nested' \in Nat /\ owed' \in Int
    BY DEF Release, IInv, TypeOK
  <2> QED
    BY <2>1, <2>2, <2>3, <2>4, <2>5, <2>6 DEF TypeOK
<1>2. StackInv' /\ TaskInv'
  <2>1. procId' \in Nat /\ alive' \in BOOLEAN /\ alive' = FALSE /\ nested' \in Nat /\ taskState' = "none"
    BY <1>1 DEF TypeOK, Release
  <2>2. StackOK(stack', nested', alive', procId')
    BY <2>1, PlainStack
  <2>3. ~Body'
    <3> SUFFICES ASSUME stack' # <<>> PROVE stack'[Len(stack')].fn # "wrap"
      BY DEF Body, On, Top
    <3>1. Len(stack') \in 1 .. Len(stack')
      BY PopSeq
    <3> QED
      BY <3>1 DEF Plain
  <2>4. \A t \in pending' : t.proc <= procId' /\ (alive' => t.proc # procId')
    BY <2>1 DEF IInv, TaskInv
  <2> QED
    BY <2>1, <2>2, <2>3, <2>4, NoTaskInv
<1>3. HostInv'
  BY DEF HostInv, Release
<1> QED
  BY <1>1, <1>2, <1>3 DEF IInv

\* Commands are only taken while nothing of the process runs.
LEMMA CommandInv == RuntimeAssumption /\ IInv /\ Command => IInv'
<1> SUFFICES ASSUME RuntimeAssumption, IInv, Command PROVE IInv'
  OBVIOUS
<1>1. CASE HandleStart
  BY <1>1, CreateInv DEF HandleStart
<1>2. CASE ExecuteStart
  <2>1. CASE Create(FALSE)
    BY <1>2, <2>1, CreateInv DEF ExecuteStart
  <2>2. CASE ~Create(FALSE)
    <3>1. /\ stack = <<>> /\ session' = "execute"
          /\ UNCHANGED <<procId, alive, procVars, codeVars, pAddress, loadVars, callVars,
                         stack, pending, lost, fatal, debugger>>
      BY <1>2, <2>2 DEF ExecuteStart, Idle
    <3>2. TypeOK'
      BY <3>1 DEF IInv, TypeOK, procVars, codeVars, loadVars, callVars, Session
    <3>3. StackInv'
      BY <3>1 DEF IInv, StackInv, NoDanglingFrame, Live, callVars
    <3>4. TaskInv'
      BY <3>1 DEF IInv, TaskInv, CallbackMatches, Outstanding, Live, On, Body, Top,
                  Wraps, procVars, callVars
    <3>5. HostInv'
      BY <3>1 DEF IInv, HostInv, procVars
    <3> QED
      BY <3>2, <3>3, <3>4, <3>5 DEF IInv
  <2> QED
    BY <2>1, <2>2
<1>3. CASE HandleDestroy
  <2>1. /\ Release /\ procId' = procId /\ stack' = <<>> /\ pending' = pending /\ lost' = lost
        /\ session' = "handle" /\ debugger' = 0
    BY <1>3 DEF HandleDestroy, Idle
  <2>2. stack' \in Seq(Frame) /\ Shape(stack') /\ Plain(stack')
    BY <2>1, EmptyStack DEF StackOK, Plain, Shape
  <2> QED
    BY <2>1, <2>2, ReleaseInv DEF Session
<1>4. CASE HandleRun
  <2> DEFINE frame == [fn |-> "execute", proc |-> procId, at |-> "enter"]
  <2>1. /\ HostLocks /\ session = "idle" /\ session' = "handle" /\ debugger' = debugger
        /\ alive /\ alive' = TRUE /\ debugger = procId
        /\ stack' = <<frame>>
        /\ UNCHANGED <<procId, alive, procVars, codeVars, pAddress, loadVars, callVars,
                       pending, lost, fatal>>
    BY <1>4 DEF HandleRun, Idle, IInv, HostInv, TypeOK
  <2>2. taskState = "none" /\ taskState' = "none"
    BY <2>1 DEF IInv, HostInv, procVars
  <2>3. frame \in Frame /\ procId' \in Nat /\ nested' \in Nat
    BY <2>1 DEF Frame, ExecuteFrame, IInv, TypeOK, callVars
  <2>4. stack' \in Seq(Frame) /\ stack' = Append(<<>>, frame)
    BY <2>1, <2>3
  <2>5. StackOK(stack', nested', alive', procId')
    <3>1. StackOK(<<>>, nested', alive', procId') /\ ~Wraps(<<>>) /\ <<>> \in Seq(Frame)
      BY <2>3, EmptyStack
    <3>2. frame.fn = "execute" /\ frame.proc = procId'
      BY <2>1
    <3> HIDE DEF frame
    <3> QED
      BY <2>1, <2>3, <2>4, <3>1, <3>2, PushStack
  <2>6. ~Body'
    BY <2>1 DEF Body, On, Top
  <2>7. \A t \in pending' : t.proc <= procId' /\ (alive' => t.proc # procId')
    <3> SUFFICES ASSUME NEW t \in pending PROVE t.proc <= procId /\ t.proc # procId
      BY <2>1
    <3>1. t.proc \in Nat /\ procId \in Nat /\ t.proc < procId
      BY <2>1, <2>2, OlderTasks DEF IInv, TypeOK, Task
    <3> QED
      BY <3>1
  <2>8. StackInv' /\ TaskInv'
    BY <2>1, <2>2, <2>3, <2>5, <2>6, <2>7, NoTaskInv
  <2>9. TypeOK'
    BY <2>1, <2>4 DEF IInv, TypeOK, procVars, codeVars, loadVars, callVars, Session
  <2>10. HostInv'
    BY <2>1 DEF IInv, HostInv, procVars
  <2> QED
    BY <2>8, <2>9, <2>10 DEF IInv
<1> QED
  BY <1>1, <1>2, <1>3, <1>4 DEF Command

\* The host is no longer busy.
LEMMA EndSessionInv == RuntimeAssumption /\ IInv /\ EndSession => IInv'
<1> SUFFICES ASSUME RuntimeAssumption, IInv, EndSession PROVE IInv'
  OBVIOUS
<1>1. /\ session # "idle" /\ stack = <<>> /\ session' = "idle"
      /\ HostLocks => pending = {} /\ lost = {}
      /\ UNCHANGED <<procId, stack, pending, lost, debugger>>
  BY DEF EndSession
<1>2. HostLocks => taskState = "none"
  BY <1>1 DEF IInv, TaskInv
<1>3. CASE session = "execute" /\ alive
  <2>1. Release
    BY <1>3 DEF EndSession
  <2>2. stack' \in Seq(Frame) /\ Shape(stack') /\ Plain(stack') /\ stack' = <<>>
    BY <1>1, EmptyStack DEF StackOK, Plain, Shape
  <2>3. session' \in Session /\ debugger' \in Nat /\ pending' \in SUBSET pending
    BY <1>1 DEF IInv, TypeOK, Session
  <2> QED
    BY <1>1, <2>1, <2>2, <2>3, ReleaseInv
<1>4. CASE ~(session = "execute" /\ alive)
  <2>1. UNCHANGED <<alive, procVars, codeVars, pAddress, loadVars, callVars, fatal>>
    BY <1>4 DEF EndSession
  <2>2. TypeOK'
    BY <1>1, <2>1 DEF IInv, TypeOK, procVars, codeVars, loadVars, callVars, Session
  <2>3. StackInv'
    BY <1>1, <2>1 DEF IInv, StackInv, NoDanglingFrame, Live, callVars
  <2>4. TaskInv'
    BY <1>1, <2>1 DEF IInv, TaskInv, CallbackMatches, Outstanding, Live, On, Body, Top,
                      procVars, callVars
  <2>5. HostInv'
    BY <1>1, <1>2, <1>4, <2>1 DEF IInv, HostInv, procVars
  <2> QED
    BY <2>2, <2>3, <2>4, <2>5 DEF IInv
<1> QED
  BY <1>3, <1>4

-----------------------------------------------------------------------------
(* Guest code. *)

\* What holds while guest code, or fExecute before it, runs.
LEMMA GuestFacts ==
    ASSUME IInv, On("execute")
    PROVE  /\ taskState = "none" /\ \A t \in pending : t.proc < procId
           /\ Below \in Seq(Frame) /\ Shape(Below) /\ Plain(Below) /\ Answering(Below)
           /\ Top \in ExecuteFrame /\ Top.fn = "execute"
<1>1. taskState = "none" /\ TypeOK /\ TaskInv
  BY DEF IInv, TaskInv
<1>2. \A t \in pending : t.proc < procId
  BY <1>1, RunningFacts, OlderTasks
<1>3. Below \in Seq(Frame) /\ Shape(Below) /\ Plain(Below) /\ Answering(Below)
  BY RunningFacts, UnderExecute DEF On, Below, Top
<1>4. Top \in ExecuteFrame /\ Top.fn = "execute"
  BY RunningFacts, FrameKinds DEF On
<1> QED
  BY <1>1, <1>2, <1>3, <1>4

\* Guest code goes on at a mapped block, or its translation starts.
LEMMA GotoInv ==
    ASSUME IInv, On("execute"), NEW address \in Addr, Goto(address)
    PROVE  IInv'
<1>1. /\ alive /\ alive = TRUE /\ taskState = "none" /\ (HostLocks => session # "idle")
      /\ procId \in Nat /\ nested \in Nat
  BY RunningFacts, GuestFacts
<1>2. Below \in Seq(Frame) /\ Shape(Below) /\ Plain(Below) /\ Answering(Below)
  BY GuestFacts
<1>3. CASE address \in DOMAIN mapping
  <2> DEFINE frame == [Top EXCEPT !.at = address]
  <2>1. /\ stack' = Append(Below, frame)
        /\ UNCHANGED <<procId, alive, procVars, codeVars, pAddress, loadVars, callVars,
                       pending, hostVars, fatal>>
    BY <1>3 DEF Goto
  <2>2. frame \in ExecuteFrame /\ frame.fn = "execute" /\ frame.proc = procId
    BY GuestFacts, RunningFacts DEF ExecuteFrame
  <2>3. frame \in Frame
    BY <2>2 DEF Frame
  <2>4. stack' \in Seq(Frame) /\ stack' # <<>> /\ stack'[Len(stack')] = frame
    BY <2>1, <2>3, <1>2, PushSeq
  <2>5. StackOK(stack', nested', alive', procId')
    <3>1. StackOK(Below, nested, alive, procId) /\ ~Wraps(Below)
      BY <1>1, <1>2, PlainStack
    <3>2. Below # <<>> => Adjacent(Below[Len(Below)], frame)
      BY <1>2, <2>2 DEF Answering, Adjacent
    <3>3. UNCHANGED <<nested, alive, procId>>
      BY <2>1 DEF callVars
    <3> HIDE DEF frame
    <3>4. StackOK(Append(Below, frame), nested, alive, procId)
      BY <1>1, <1>2, <2>2, <2>3, <3>1, <3>2, PushStack
    <3> QED
      BY <2>1, <3>3, <3>4
  <2>6. ~Body'
    BY <2>2, <2>4 DEF Body, On, Top
  <2> QED
    BY <1>1, <2>1, <2>4, <2>5, <2>6, SteadyInv DEF IInv, TypeOK, HostInv, codeVars, callVars
<1>4. CASE address \notin DOMAIN mapping
  <2>1. UNCHANGED <<codeVars, callVars>> /\ Retranslate(address, Below)
    BY <1>4 DEF Goto
  <2> QED
    BY <1>1, <1>2, <2>1, RetranslateInv DEF IInv, TypeOK, codeVars, callVars
<1> QED
  BY <1>3, <1>4

\* Flushing keeps the map in its type.
LEMMA FlushType ==
    ASSUME Flush
    PROVE  /\ DOMAIN mapping' \in SUBSET Addr /\ mapping' \in [DOMAIN mapping' -> Nat]
           /\ unsynced' \in BOOLEAN
<1>1. mapping' = NoCode /\ unsynced' = FALSE
  BY DEF Flush
<1> QED
  BY <1>1, NoCodeType

\* fExecute is entered.
LEMMA ExecuteEnterInv == IInv /\ ExecuteEnter => IInv'
<1> SUFFICES ASSUME IInv, ExecuteEnter PROVE IInv'
  OBVIOUS
<1>1. On("execute") /\ pAddress \in Addr
  BY DEF ExecuteEnter, IInv, TypeOK
<1>2. CASE xInvalid
  <2>1. /\ xInvalid' = FALSE /\ Flush /\ UNCHANGED codeVer /\ Retranslate(pAddress, Below)
        /\ UNCHANGED callVars
    BY <1>2 DEF ExecuteEnter
  <2>2. alive /\ taskState = "none" /\ (HostLocks => session # "idle")
    BY <1>1, RunningFacts, GuestFacts
  <2>3. xInvalid' \in BOOLEAN
    BY <2>1
  <2> QED
    BY <1>1, <2>1, <2>2, <2>3, FlushType, GuestFacts, RetranslateInv DEF IInv, TypeOK, callVars
<1>3. CASE ~xInvalid
  BY <1>1, <1>3, GotoInv DEF ExecuteEnter
<1> QED
  BY <1>2, <1>3

\* Guest code runs, writes code, makes a system call or stops.
LEMMA GuestStepInv == IInv /\ GuestStep => IInv'
<1> SUFFICES ASSUME IInv, GuestStep PROVE IInv'
  OBVIOUS
<1>1. On("execute") /\ Guest /\ Top.at \in Addr
  BY DEF GuestStep, GuestGoto, GuestFence, GuestStore, GuestFault, GuestHalt, GuestSyscall, Guest
<1>2. /\ alive /\ alive = TRUE /\ taskState = "none" /\ (HostLocks => session # "idle")
      /\ procId \in Nat /\ nested \in Nat /\ Top.proc = procId
      /\ stack \in Seq(Frame) /\ stack # <<>> /\ StackOK(stack, nested, alive, procId)
  BY <1>1, RunningFacts, GuestFacts
<1>3. Below \in Seq(Frame) /\ Shape(Below) /\ Plain(Below) /\ Answering(Below)
  BY <1>1, GuestFacts
<1>4. CASE GuestGoto
  BY <1>1, <1>4, GotoInv DEF GuestGoto
<1>5. CASE GuestFence
  <2>1. PICK next \in Addr : Retranslate(next, Below)
    BY <1>5 DEF GuestFence
  <2>2. Flush /\ UNCHANGED <<codeVer, xInvalid, callVars>>
    BY <1>5 DEF GuestFence
  <2> QED
    BY <1>2, <1>3, <2>1, <2>2, FlushType, RetranslateInv DEF IInv, TypeOK, callVars
<1>6. CASE GuestStore
  <2>1. codeVer' = codeVer + 1 /\ UNCHANGED <<xInvalid, callVars>> /\ codeVer' \in Nat
    BY <1>6 DEF GuestStore, IInv, TypeOK
  <2>2. CASE DetectWrites
    <3>1. Flush /\ \E next \in Addr : Retranslate(next, Below)
      BY <1>6, <2>2 DEF GuestStore
    <3>2. PICK next \in Addr : Retranslate(next, Below)
      BY <3>1
    <3> QED
      BY <1>2, <1>3, <2>1, <3>1, <3>2, FlushType, RetranslateInv DEF IInv, TypeOK, callVars
  <2>3. CASE ~DetectWrites
    <3>1. /\ unsynced' = TRUE
          /\ UNCHANGED <<procId, alive, procVars, mapping, pAddress, loadVars,
                         stack, pending, hostVars, fatal>>
      BY <1>6, <2>3 DEF GuestStore
    <3>2. StackOK(stack', nested', alive', procId') /\ ~Body'
      BY <1>1, <1>2, <2>1, <3>1 DEF callVars, Body, On, Top
    <3>3. unsynced' \in BOOLEAN
      BY <3>1
    <3> QED
      BY <1>2, <2>1, <3>1, <3>2, <3>3, SteadyInv DEF IInv, TypeOK, HostInv, callVars
  <2> QED
    BY <2>2, <2>3
<1>7. CASE GuestFault
  <2>1. /\ pAddress' = Top.at /\ fatal' = "guest" /\ stack' \in Unwound(Below)
        /\ UNCHANGED <<procId, alive, procVars, codeVars, loadVars, callVars, pending, hostVars>>
    BY <1>7 DEF GuestFault, Abort
  <2>2. StackOK(Below, nested, alive, procId)
    BY <1>2, <1>3, PlainStack
  <2>3. stack' \in Seq(Frame) /\ StackOK(stack', nested, alive, procId) /\ Answering(stack')
    BY <1>2, <1>3, <2>1, <2>2, UnwoundStack
  <2>4. ~Body' /\ StackOK(stack', nested', alive', procId')
    BY <2>1, <2>3 DEF Answering, Body, On, Top, callVars
  <2>5. fatal' \in Fatal \ {"doubleTask", "coreNotLoaded"}
    BY <2>1 DEF Fatal
  <2> QED
    BY <1>1, <1>2, <2>1, <2>3, <2>4, <2>5, SteadyInv DEF IInv, TypeOK, codeVars, callVars
<1>8. CASE GuestHalt
  <2>1. /\ pAddress' = Top.at /\ stack' = Below
        /\ UNCHANGED <<procId, alive, procVars, codeVars, loadVars, callVars, pending, hostVars, fatal>>
    BY <1>8 DEF GuestHalt
  <2>2. StackOK(stack', nested', alive', procId')
    BY <1>2, <1>3, <2>1, PlainStack DEF callVars
  <2>3. ~Body'
    BY <1>3, <2>1 DEF Answering, Body, On, Top
  <2> QED
    BY <1>1, <1>2, <1>3, <2>1, <2>2, <2>3, SteadyInv DEF IInv, TypeOK, HostInv, codeVars, callVars
<1>9. CASE GuestSyscall
  <2> DEFINE frame == [fn |-> "wrap", proc |-> procId, inplace |-> TRUE,
                       at |-> "body", level |-> 1]
  <2>1. /\ pAddress' \in Addr /\ completed' = FALSE /\ nested' = 1 /\ owed' = owed + 1
        /\ stack' = Append(stack, frame)
        /\ UNCHANGED <<procId, alive, procVars, codeVars, loadVars, pending, hostVars, fatal>>
    BY <1>9 DEF GuestSyscall
  <2>2. frame \in Frame
    BY <1>2 DEF Frame, WrapFrame
  <2>3. stack' \in Seq(Frame)
    BY <1>2, <2>1, <2>2, PushSeq
  <2>4. StackOK(stack', nested', alive', procId')
    <3>1. stack[Len(stack)].fn = "execute"
      BY <1>1 DEF On, Top
    <3>2. ~Wraps(stack)
      <4>1. Len(stack) \in 1 .. Len(stack)
        BY <1>2, PopSeq
      <4>2. \A i \in 1 .. (Len(stack) - 1) : stack[i].fn # "wrap"
        BY <1>2, <3>1, <4>1 DEF StackOK, NeverInside
      <4>3. ASSUME NEW i \in 1 .. Len(stack), stack[i].fn = "wrap" PROVE FALSE
        <5>1. i # Len(stack)
          BY <3>1, <4>3
        <5>2. i \in 1 .. (Len(stack) - 1)
          BY <4>1, <5>1
        <5> QED
          BY <4>2, <4>3, <5>2
      <4> QED
        BY <4>3 DEF Wraps
    <3>3. StackOK(stack, 1, alive, procId)
      BY <1>2, <3>2 DEF StackOK, Levels, Wraps
    <3>4. Adjacent(stack[Len(stack)], frame)
      BY <1>1, <3>1 DEF Adjacent, Top
    <3>5. \A i \in 1 .. Len(stack) : stack[i].fn # "wrap"
      BY <3>2 DEF Wraps
    <3>6. frame.fn = "wrap" /\ frame.proc = procId /\ 1 <= frame.level /\ frame.level <= 1
      OBVIOUS
    <3> HIDE DEF frame
    <3>7. StackOK(Append(stack, frame), 1, alive, procId)
      BY <1>2, <2>2, <3>3, <3>4, <3>5, <3>6, PushStack
    <3> QED
      BY <2>1, <3>7
  <2>5. owed' \in Int /\ nested' \in Nat
    BY <2>1 DEF IInv, TypeOK
  <2>6. ~completed' /\ completed' \in BOOLEAN
    BY <2>1
  <2> QED
    BY <1>2, <2>1, <2>3, <2>4, <2>5, <2>6, SteadyInv DEF IInv, TypeOK, HostInv, codeVars
<1> QED
  BY <1>4, <1>5, <1>6, <1>7, <1>8, <1>9 DEF GuestStep

-----------------------------------------------------------------------------
(* System calls. *)

\* What the frames below a wrapper look like.
LEMMA WrapFacts ==
    ASSUME IInv, On("wrap")
    PROVE  /\ Top \in WrapFrame /\ Top.fn = "wrap" /\ Top.inplace \in BOOLEAN
           /\ nested - 1 \in Nat /\ Below \in Seq(Frame)
           /\ Top.inplace =>
                /\ Below # <<>> /\ Below[Len(Below)].fn = "execute" /\ ~Wraps(Below)
                /\ Below[Len(Below)] = stack[Len(stack) - 1] /\ stack[Len(stack) - 1].at \in Addr
                /\ \A m \in Nat : StackOK(Below, m, alive, procId)
                /\ Pop(Below) \in Seq(Frame) /\ Shape(Pop(Below))
                /\ Plain(Pop(Below)) /\ Answering(Pop(Below))
           /\ ~Top.inplace =>
                /\ Answering(Below) /\ StackOK(Below, nested - 1, alive, procId)
                /\ nested - 1 = 0 => ~Wraps(Below)
<1>1. /\ stack # <<>> /\ stack \in Seq(Frame) /\ Top \in Frame
      /\ StackOK(stack, nested, alive, procId) /\ nested \in Nat
  BY RunningFacts
<1>2. Top \in WrapFrame /\ Top.fn = "wrap" /\ stack[Len(stack)].fn = "wrap"
  BY <1>1, FrameKinds DEF On, Top
<1>3. Top.inplace \in BOOLEAN /\ Top.level \in Nat
  BY <1>2 DEF WrapFrame
<1>4. nested - 1 \in Nat
  <2>1. Len(stack) \in 1 .. Len(stack)
    BY <1>1, PopSeq
  <2>2. 1 <= Top.level /\ Top.level <= nested
    BY <1>1, <1>2, <2>1 DEF StackOK, Levels, Top
  <2> QED
    BY <1>1, <1>3, <2>2
<1>5. Below \in Seq(Frame)
  BY <1>1, PopSeq DEF Below
<1>6. CASE Top.inplace
  <2>1. stack[Len(stack)].inplace
    BY <1>6 DEF Top
  <2>2. /\ Len(stack) > 1 /\ stack[Len(stack) - 1].fn = "execute"
        /\ stack[Len(stack) - 1].at \in Addr
        /\ Pop(stack) \in Seq(Frame) /\ Pop(stack) # <<>>
        /\ Pop(stack)[Len(Pop(stack))] = stack[Len(stack) - 1]
        /\ ~Wraps(Pop(stack)) /\ \A m \in Nat : StackOK(Pop(stack), m, alive, procId)
        /\ Pop(Pop(stack)) \in Seq(Frame) /\ Shape(Pop(Pop(stack)))
        /\ Plain(Pop(Pop(stack))) /\ Answering(Pop(Pop(stack)))
    BY <1>1, <1>2, <2>1, UnderInplace
  <2> QED
    BY <1>2, <1>3, <1>4, <1>5, <1>6, <2>2 DEF Below
<1>7. CASE ~Top.inplace
  <2>1. ~stack[Len(stack)].inplace
    BY <1>7 DEF Top
  <2>2. /\ Answering(Pop(stack)) /\ StackOK(Pop(stack), nested - 1, alive, procId)
        /\ nested - 1 = 0 => ~Wraps(Pop(stack))
    BY <1>1, <1>2, <2>1, UnderContinued
  <2> QED
    BY <1>2, <1>3, <1>4, <1>5, <1>7, <2>2 DEF Below
<1> QED
  BY <1>6, <1>7

\* The stack is left to the host or a caller, and the task of the process stays what it is.
LEMMA SuspendInv ==
    ASSUME IInv, alive, alive' = TRUE,
           UNCHANGED <<procId, procState, taskStamp, taskCall, exports, links, codeVars, pAddress,
                       loadVars, owed, pending, lost, session, fatal>>,
           debugger' \in Nat, debugger' = debugger \/ debugger' = procId,
           stack' \in Seq(Frame), nested' \in Nat, StackOK(stack', nested', alive', procId'),
           ~On("execute")', ~Body', Wraps(stack') => Wraps(stack),
           taskState' \in TaskState, taskState' # "none" => taskState # "none",
           completed' \in BOOLEAN, taskState' # "none" => completed' = completed,
           taskState' = "none" => taskState = "none",
           HostLocks => session # "idle"
    PROVE  IInv'
<1>1. TypeOK'
  BY DEF IInv, TypeOK, codeVars, loadVars
<1>2. StackInv'
  BY DEF StackInv, StackOK, NoDanglingFrame, Owned, Live
<1>3. TaskInv'
  <2>1. CallbackMatches'
    BY DEF IInv, TaskInv, CallbackMatches, Outstanding, Live
  <2> QED
    BY <2>1 DEF IInv, TaskInv
<1>4. HostInv'
  BY DEF IInv, HostInv
<1> QED
  BY <1>1, <1>2, <1>3, <1>4 DEF IInv

\* fWrap ends, completed or not, nested or not.
LEMMA WrapEndInv ==
    ASSUME IInv, On("wrap"), NEW c \in BOOLEAN, WrapEnd(c),
           c = completed \/ taskState = "none", c => taskState = "none"
    PROVE  IInv'
<1>1. /\ alive /\ alive = TRUE /\ (HostLocks => session # "idle") /\ Top.proc = procId
      /\ procId \in Nat /\ nested \in Nat /\ stack \in Seq(Frame) /\ stack # <<>>
  BY RunningFacts
<1>2. completed' = c /\ nested' = nested - 1 /\ nested' \in Nat /\ Below \in Seq(Frame)
  BY WrapFacts DEF WrapEnd
<1>3. CASE nested - 1 > 0 \/ ~c
  <2>1. /\ stack' = IF Top.inplace THEN Pop(Below) ELSE Below
        /\ UNCHANGED <<owed, procId, alive, procVars, codeVars, pAddress, loadVars,
                       pending, hostVars, fatal>>
    BY <1>3 DEF WrapEnd
  <2>2. /\ stack' \in Seq(Frame) /\ StackOK(stack', nested', alive', procId')
        /\ Answering(stack')
    <3>1. CASE Top.inplace
      <4>1. stack' = Pop(Below)
        BY <2>1, <3>1
      <4>2. StackOK(Pop(Below), nested', alive', procId')
        BY <1>2, <3>1, WrapFacts, PlainStack
      <4> QED
        BY <3>1, <4>1, <4>2, WrapFacts
    <3>2. CASE ~Top.inplace
      BY <1>2, <2>1, <3>2, WrapFacts
    <3> QED
      BY <3>1, <3>2
  <2>3. ~On("execute")' /\ ~Body'
    BY <2>2 DEF Answering, On, Body, Top
  <2>4. Wraps(stack)
    <3>1. Len(stack) \in 1 .. Len(stack)
      BY <1>1, PopSeq
    <3> QED
      BY <3>1 DEF Wraps, On, Top
  <2>5. taskState' # "none" => completed' = completed
    BY <1>2, <2>1 DEF procVars
  <2>6. completed' \in BOOLEAN /\ debugger' \in Nat /\ taskState' \in TaskState
    BY <1>2, <2>1 DEF IInv, TypeOK, hostVars, procVars
  <2> QED
    BY <1>1, <1>2, <2>1, <2>2, <2>3, <2>4, <2>5, <2>6, SuspendInv DEF procVars, hostVars
<1>4. CASE ~(nested - 1 > 0 \/ ~c)
  <2>1. c /\ nested - 1 = 0 /\ taskState = "none"
    <3>1. nested - 1 = 0
      <4>1. nested - 1 \in Nat /\ ~(nested - 1 > 0)
        BY <1>4, WrapFacts
      <4> QED
        BY <1>1, <4>1
    <3>2. c /\ taskState = "none"
      BY <1>4
    <3> QED
      BY <3>1, <3>2
  <2>2. owed' = owed - 1 /\ owed' \in Int /\ completed' \in BOOLEAN
    BY <1>2, <1>4 DEF WrapEnd, IInv, TypeOK
  <2>3. CASE Top.inplace /\ xInvalid
    <3>1. xInvalid' = FALSE /\ Flush /\ UNCHANGED codeVer /\ Retranslate(pAddress, Pop(Below))
      BY <1>4, <2>3 DEF WrapEnd
    <3>2. xInvalid' \in BOOLEAN
      BY <3>1
    <3>3. /\ Pop(Below) \in Seq(Frame) /\ Shape(Pop(Below))
          /\ Plain(Pop(Below)) /\ Answering(Pop(Below))
      BY <2>3, WrapFacts
    <3>4. pAddress \in Addr /\ codeVer' \in Nat
      BY <3>1 DEF IInv, TypeOK
    <3> QED
      BY <1>1, <1>2, <2>1, <2>2, <3>1, <3>2, <3>3, <3>4, FlushType, RetranslateInv
  <2>4. CASE ~(Top.inplace /\ xInvalid)
    <3>1. /\ stack' = IF Top.inplace THEN Below ELSE Enter(Below)
          /\ UNCHANGED <<procId, alive, procVars, codeVars, pAddress, loadVars,
                         pending, hostVars, fatal>>
      BY <1>4, <2>4 DEF WrapEnd
    <3>2. stack' \in Seq(Frame) /\ StackOK(stack', nested', alive', procId') /\ ~Body'
      <4>1. CASE Top.inplace
        <5>1. stack' = Below /\ Below # <<>> /\ Below[Len(Below)].fn = "execute"
          BY <3>1, <4>1, WrapFacts
        <5>2. ~Body'
          BY <5>1 DEF Body, On, Top
        <5> QED
          BY <1>2, <3>1, <4>1, <5>1, <5>2, WrapFacts
      <4>2. CASE ~Top.inplace
        <5> DEFINE frame == [fn |-> "execute", proc |-> procId, at |-> "enter"]
        <5>1. stack' = Append(Below, frame)
          BY <3>1, <4>2 DEF Enter
        <5>2. frame \in Frame /\ frame.fn = "execute" /\ frame.proc = procId
          BY <1>1 DEF Frame, ExecuteFrame
        <5>3. stack' \in Seq(Frame) /\ stack' # <<>> /\ stack'[Len(stack')] = frame
          BY <1>2, <5>1, <5>2, PushSeq
        <5>4. Answering(Below) /\ StackOK(Below, nested - 1, alive, procId) /\ ~Wraps(Below)
          BY <2>1, <4>2, WrapFacts
        <5>5. Below # <<>> => Adjacent(Below[Len(Below)], frame)
          BY <5>2, <5>4 DEF Answering, Adjacent
        <5>6. ~Body'
          BY <5>2, <5>3 DEF Body, On, Top
        <5> HIDE DEF frame
        <5>7. StackOK(Append(Below, frame), nested - 1, alive, procId)
          BY <1>1, <1>2, <5>2, <5>4, <5>5, PushStack
        <5> QED
          BY <1>2, <3>1, <5>1, <5>3, <5>6, <5>7
      <4> QED
        BY <4>1, <4>2
    <3> QED
      BY <1>1, <1>2, <2>1, <2>2, <3>1, <3>2, SteadyInv DEF IInv, TypeOK, HostInv, codeVars
  <2> QED
    BY <2>3, <2>4
<1> QED
  BY <1>3, <1>4

\* The callback of a system call runs and fWrap ends.
LEMMA SyscallStepInv == RuntimeAssumption /\ IInv /\ SyscallStep => IInv'
<1> SUFFICES ASSUME RuntimeAssumption, IInv, SyscallStep PROVE IInv'
  OBVIOUS
<1>1. On("wrap")
  BY DEF SyscallStep, BodyReturn, CallIncomplete, BodyIssue, BodyChangeCode, BodyExit, BodyFatal, Body
<1>2. /\ alive /\ alive = TRUE /\ (HostLocks => session # "idle") /\ Top.proc = procId
      /\ procId \in Nat /\ nested \in Nat /\ stack \in Seq(Frame) /\ stack # <<>>
      /\ StackOK(stack, nested, alive, procId)
  BY <1>1, RunningFacts
<1>3. Body => taskState = "none" /\ ~completed
  BY DEF IInv, TaskInv
<1>4. CASE BodyReturn
  BY <1>1, <1>3, <1>4, WrapEndInv DEF BodyReturn
<1>5. CASE CallIncomplete
  <2>1. completed => taskState = "none"
    <3>1. Wraps(stack)
      <4>1. Len(stack) \in 1 .. Len(stack) /\ stack[Len(stack)].fn = "wrap"
        BY <1>1, <1>2, PopSeq DEF On, Top
      <4> QED
        BY <4>1 DEF Wraps
    <3> QED
      BY <3>1 DEF IInv, TaskInv
  <2>2. completed \in BOOLEAN /\ WrapEnd(completed)
    BY <1>5 DEF CallIncomplete, IInv, TypeOK
  <2> QED
    BY <1>1, <2>1, <2>2, WrapEndInv
<1>6. CASE BodyIssue
  <2> DEFINE frame == [Top EXCEPT !.at = "issued"]
             base == Append(Below, frame)
  <2>1. /\ taskState = "none" /\ ~completed
        /\ StartTask("syscall", base, pending)
        /\ UNCHANGED <<fatal, owed, procId, alive, procState, exports, links, codeVars, pAddress,
                       loadVars, completed, nested, hostVars>>
    BY <1>3, <1>6 DEF BodyIssue
  <2>2. frame \in WrapFrame /\ frame.fn = "wrap" /\ frame.at = "issued" /\ frame.proc = procId
        /\ frame.level = Top.level /\ frame.inplace = Top.inplace
    BY <1>1, <1>2, WrapFacts DEF WrapFrame
  <2>3. frame \in Frame
    BY <2>2 DEF Frame
  <2>4. base \in Seq(Frame) /\ base # <<>> /\ base[Len(base)] = frame
    BY <1>1, <2>3, WrapFacts, PushSeq
  <2>5. StackOK(base, nested, alive, procId)
    <3>1. /\ Len(stack) \in Nat /\ Len(stack) \in 1 .. Len(stack) /\ Len(Below) = Len(stack) - 1
          /\ \A i \in 1 .. (Len(stack) - 1) : Below[i] = stack[i]
      BY <1>2, PopSeq DEF Below
    <3>2. StackOK(Below, nested, alive, procId)
      <4>1. Len(stack) - 1 \in 0 .. Len(stack)
        BY <3>1
      <4> QED
        BY <1>2, <4>1, CutStack DEF Below, Pop
    <3>3. /\ 1 <= Top.level /\ Top.level <= nested
          /\ \A i \in 1 .. Len(Below) : Below[i].fn = "wrap" => Below[i].level < Top.level
      BY <1>1, <1>2, <3>1 DEF StackOK, Levels, On, Top
    <3>4. Below # <<>> => Adjacent(Below[Len(Below)], frame)
      <4>1. CASE Top.inplace
        BY <1>1, <2>2, <4>1, WrapFacts DEF Adjacent
      <4>2. CASE ~Top.inplace
        BY <1>1, <2>2, <4>2, WrapFacts DEF Adjacent, Answering
      <4> QED
        BY <4>1, <4>2
    <3>5. Below = <<>> => ~frame.inplace
      BY <1>1, <2>2, WrapFacts
    <3> HIDE DEF frame
    <3> QED
      BY <1>1, <1>2, <2>2, <2>3, <3>2, <3>3, <3>4, <3>5, WrapFacts, PushStack
  <2>6. \A t \in pending : t.proc < procId
    BY <1>2, <2>1, OlderTasks DEF IInv
  <2>7. TaskTypes' /\ StackInv' /\ TaskInv'
    <3>1. "syscall" \in TaskKind /\ taskStamp \in Nat /\ pending \in SUBSET Task
      BY DEF TaskKind, IInv, TypeOK
    <3>2. procId' = procId /\ nested' = nested /\ alive' = TRUE /\ ~completed'
      BY <1>2, <2>1
    <3>3. StackOK(base, nested', alive', procId')
      BY <1>2, <2>5, <3>2
    <3>4. base[Len(base)].fn = "wrap" /\ base[Len(base)].at = "issued"
      BY <2>2, <2>4
    <3> HIDE DEF base
    <3> QED
      BY <1>2, <2>1, <2>4, <2>6, <3>1, <3>2, <3>3, <3>4, StartTaskInv
  <2>8. TypeOK'
    BY <2>1, <2>7 DEF IInv, TypeOK, TaskTypes, codeVars, loadVars, hostVars
  <2>9. HostInv'
    BY <1>2, <2>1 DEF IInv, HostInv, hostVars
  <2> QED
    BY <2>7, <2>8, <2>9 DEF IInv
<1>7. CASE BodyChangeCode
  <2>1. /\ codeVer' = codeVer + 1
        /\ UNCHANGED <<procId, alive, procVars, mapping, pAddress, loadVars, callVars,
                       stack, pending, hostVars, fatal>>
    BY <1>7 DEF BodyChangeCode
  <2>2. codeVer' \in Nat
    BY <2>1 DEF IInv, TypeOK
  <2>3. xInvalid' \in BOOLEAN /\ unsynced' \in BOOLEAN
    BY <1>7 DEF BodyChangeCode, IInv, TypeOK
  <2>4. taskState = "none" /\ ~completed'
    BY <1>3, <1>7, <2>1 DEF BodyChangeCode, callVars
  <2>5. StackOK(stack', nested', alive', procId')
    BY <1>2, <2>1 DEF callVars
  <2> QED
    BY <1>2, <2>1, <2>2, <2>3, <2>4, <2>5, SteadyInv DEF IInv, TypeOK, HostInv, callVars
<1>8. CASE BodyExit
  <2>1. /\ Top.inplace /\ Release /\ stack' = Pop(Below) /\ pending' = pending
        /\ UNCHANGED <<procId, hostVars>>
    BY <1>8 DEF BodyExit, Shutdown
  <2>2. stack' \in Seq(Frame) /\ Shape(stack') /\ Plain(stack')
    BY <1>1, <2>1, WrapFacts
  <2>3. session' \in Session /\ debugger' \in Nat /\ lost' = lost /\ pending' \in SUBSET pending
    BY <2>1 DEF IInv, TypeOK, hostVars
  <2>4. HostLocks /\ session' = "idle" => stack' = <<>>
    BY <1>2, <2>1 DEF hostVars
  <2> QED
    BY <2>1, <2>2, <2>3, <2>4, ReleaseInv
<1>9. CASE BodyFatal
  <2>1. /\ pAddress' \in {pAddress} \union (IF Top.inplace THEN {stack[Len(stack) - 1].at} ELSE {})
        /\ fatal' = "syscall" /\ stack' \in Unwound(Below) /\ owed' = 0
        /\ UNCHANGED <<procId, alive, procVars, codeVars, loadVars, completed, nested,
                       pending, hostVars>>
    BY <1>9 DEF BodyFatal, Abort
  <2>2. Body /\ taskState = "none"
    BY <1>3, <1>9 DEF BodyFatal
  <2>3. StackOK(Below, nested, alive, procId) /\ Below \in Seq(Frame)
    <3>1. Len(stack) \in Nat /\ Len(stack) - 1 \in 0 .. Len(stack)
      BY <1>2, PopSeq
    <3> QED
      BY <1>1, <1>2, <3>1, CutStack, WrapFacts DEF Below, Pop
  <2>4. stack' \in Seq(Frame) /\ StackOK(stack', nested, alive, procId) /\ Answering(stack')
    BY <1>2, <2>1, <2>3, UnwoundStack
  <2>5. ~Body' /\ StackOK(stack', nested', alive', procId')
    BY <2>1, <2>4 DEF Answering, Body, On, Top
  <2>6. fatal' \in Fatal \ {"doubleTask", "coreNotLoaded"}
    BY <2>1 DEF Fatal
  <2>7. pAddress' \in Addr
    <3>1. pAddress \in Addr /\ (Top.inplace => stack[Len(stack) - 1].at \in Addr)
      BY <1>1, WrapFacts DEF IInv, TypeOK
    <3> QED
      BY <2>1, <3>1
  <2>8. owed' \in Int
    BY <2>1
  <2> QED
    BY <1>2, <2>1, <2>2, <2>4, <2>5, <2>6, <2>7, <2>8, SteadyInv DEF IInv, TypeOK, codeVars
<1> QED
  BY <1>4, <1>5, <1>6, <1>7, <1>8, <1>9 DEF SyscallStep

-----------------------------------------------------------------------------
(* Returns to fHandleTask, fLoadBlock and the command. *)

\* What remains below the activation which returns.
LEMMA UnderReturn ==
    ASSUME NEW s \in Seq(Frame), NEW n \in Nat, NEW a, NEW p, StackOK(s, n, a, p), s # <<>>,
           s[Len(s)].fn \in {"task", "block", "create"}
    PROVE  /\ Pop(s) \in Seq(Frame) /\ StackOK(Pop(s), n, a, p)
           /\ Wraps(Pop(s)) => Wraps(s)
           /\ Pop(s) # <<>> => \/ Pop(s)[Len(Pop(s))].fn \in {"create", "block", "task"}
                               \/ /\ Pop(s)[Len(Pop(s))].fn = "wrap"
                                  /\ Pop(s)[Len(Pop(s))].at = "issued"
<1>1. /\ Len(s) \in Nat /\ Len(s) >= 1 /\ Len(s) - 1 \in 0 .. Len(s)
      /\ Pop(s) \in Seq(Frame) /\ Len(Pop(s)) = Len(s) - 1
      /\ \A i \in 1 .. (Len(s) - 1) : Pop(s)[i] = s[i]
  BY PopSeq
<1>2. StackOK(Pop(s), n, a, p)
  BY <1>1, CutStack DEF Pop
<1>3. Wraps(Pop(s)) => Wraps(s)
  BY <1>1 DEF Wraps
<1>4. ASSUME Pop(s) # <<>>
      PROVE  \/ Pop(s)[Len(Pop(s))].fn \in {"create", "block", "task"}
             \/ Pop(s)[Len(Pop(s))].fn = "wrap" /\ Pop(s)[Len(Pop(s))].at = "issued"
  <2>1. Len(s) > 1 /\ Pop(s)[Len(Pop(s))] = s[Len(s) - 1]
    BY <1>4, PopSeq
  <2>2. Adjacent(s[Len(s) - 1], s[Len(s)])
    <3>1. Len(s) \in 2 .. Len(s)
      BY <1>1, <2>1
    <3> QED
      BY <3>1 DEF StackOK, Shape
  <2> QED
    BY <2>1, <2>2 DEF Adjacent
<1> QED
  BY <1>1, <1>2, <1>3, <1>4

\* The host, fLoadBlock and fLoadCore return.
LEMMA ReturnStepInv == IInv /\ ReturnStep => IInv'
<1> SUFFICES ASSUME IInv, ReturnStep PROVE IInv'
  OBVIOUS
<1>1. /\ stack # <<>> /\ stack[Len(stack)].fn \in {"task", "block", "create"}
      /\ stack' = Below
  BY DEF ReturnStep, TaskReturn, BlockReturn, CreateReturn, On, Top
<1>2. /\ stack \in Seq(Frame) /\ nested \in Nat /\ procId \in Nat /\ alive \in BOOLEAN
      /\ StackOK(stack, nested, alive, procId)
  BY StackInvOK DEF IInv, TypeOK
<1>3. /\ stack' \in Seq(Frame) /\ StackOK(stack', nested, alive, procId)
      /\ Wraps(stack') => Wraps(stack)
      /\ stack' # <<>> => \/ stack'[Len(stack')].fn \in {"create", "block", "task"}
                          \/ stack'[Len(stack')].fn = "wrap" /\ stack'[Len(stack')].at = "issued"
  BY <1>1, <1>2, UnderReturn DEF Below
<1>4. ~On("execute")' /\ ~Body'
  BY <1>3 DEF On, Body, Top
<1>5. HostLocks => session # "idle"
  BY <1>1 DEF IInv, HostInv
<1>6. /\ UNCHANGED <<procId, alive, procState, taskStamp, taskCall, exports, links, codeVars,
                     pAddress, loadVars, callVars, pending, lost, session, fatal>>
      /\ taskState' \in TaskState /\ (taskState' = "none" <=> taskState = "none")
      /\ debugger' = debugger \/ (alive /\ debugger' = procId)
  <2>1. CASE TaskReturn
    <3>1. /\ taskState' = taskState \/ (taskState # "none" /\ taskState' = "awaiting")
          /\ UNCHANGED <<procId, alive, procState, taskStamp, taskCall, exports, links, codeVars,
                         pAddress, loadVars, callVars, pending, hostVars, fatal>>
      BY <2>1 DEF TaskReturn
    <3> QED
      BY <3>1 DEF hostVars, IInv, TypeOK, TaskState
  <2>2. CASE BlockReturn
    BY <2>2 DEF BlockReturn, hostVars, procVars, IInv, TypeOK
  <2>3. CASE CreateReturn
    BY <2>3 DEF CreateReturn, procVars, IInv, TypeOK
  <2> QED
    BY <2>1, <2>2, <2>3 DEF ReturnStep
<1>7. TypeOK'
  BY <1>2, <1>3, <1>6 DEF IInv, TypeOK, codeVars, loadVars, callVars
<1>8. StackInv'
  BY <1>3, <1>6 DEF StackInv, StackOK, NoDanglingFrame, Owned, Live, callVars
<1>9. TaskInv'
  <2>1. CallbackMatches'
    BY <1>6 DEF IInv, TaskInv, CallbackMatches, Outstanding, Live
  <2> QED
    BY <1>3, <1>4, <1>6, <2>1 DEF IInv, TaskInv, callVars
<1>10. HostInv'
  BY <1>5, <1>6 DEF IInv, HostInv
<1> QED
  BY <1>7, <1>8, <1>9, <1>10 DEF IInv

-----------------------------------------------------------------------------
(* Completion of tasks. *)

\* Where the host answers and no wrapper waits, nothing on the stack uses the process.
LEMMA AnsweringPlain ==
    ASSUME NEW s \in Seq(Frame), Shape(s), Answering(s), ~Wraps(s)
    PROVE  Plain(s)
<1> SUFFICES ASSUME NEW i \in 1 .. Len(s), s[i].fn = "execute" PROVE FALSE
  BY DEF Plain, Wraps
<1>1. s # <<>> /\ Len(s) \in Nat /\ s[Len(s)].fn = "task"
  BY DEF Answering
<1>2. i # Len(s)
  BY <1>1
<1>3. i + 1 \in 2 .. Len(s) /\ (i + 1) - 1 = i /\ i + 1 \in 1 .. Len(s)
  BY <1>1, <1>2
<1>4. Adjacent(s[i], s[i + 1])
  BY <1>3 DEF Shape
<1>5. s[i + 1].fn = "wrap"
  BY <1>4 DEF Adjacent
<1> QED
  BY <1>3, <1>5 DEF Wraps

\* A task is completed: its callback runs if the process still exists.
LEMMA TaskCompletedInv ==
    ASSUME RuntimeAssumption, IInv, Answering(stack), NEW t \in pending, TaskCompleted(t)
    PROVE  IInv'
<1> DEFINE rest == pending \ {t}
<1>1. /\ stack \in Seq(Frame) /\ nested \in Nat /\ procId \in Nat /\ alive \in BOOLEAN
      /\ StackOK(stack, nested, alive, procId) /\ rest \in SUBSET Task /\ rest \in SUBSET pending
      /\ taskStamp \in Nat /\ t \in Task
  BY StackInvOK DEF IInv, TypeOK
<1>2. ~On("execute") /\ ~Body /\ ~On("wrap")
  BY AnsweringIdle
<1>3. CASE ~Live(t.proc)
  <2>1. /\ pending' = rest
        /\ UNCHANGED <<procId, alive, procVars, codeVars, pAddress, loadVars, callVars,
                       stack, hostVars, fatal>>
    BY <1>3 DEF TaskCompleted
  <2>2. TypeOK'
    BY <1>1, <2>1 DEF IInv, TypeOK, procVars, codeVars, loadVars, callVars, hostVars
  <2>3. StackInv'
    BY <2>1 DEF IInv, StackInv, NoDanglingFrame, Live, callVars
  <2>4. TaskInv'
    <3>1. CallbackMatches'
      BY <2>1 DEF IInv, TaskInv, CallbackMatches, Outstanding, Live, procVars
    <3>2. taskState' # "none" => \E u \in (pending \union lost)' : u.proc = procId'
      <4> SUFFICES ASSUME taskState # "none"
                   PROVE  \E u \in rest \union lost : u.proc = procId
        BY <2>1 DEF procVars, hostVars
      <4>1. PICK u \in pending \union lost : u.proc = procId
        BY DEF IInv, TaskInv
      <4>2. u # t
        BY <1>3, <4>1 DEF Live, IInv, HostInv
      <4> QED
        BY <4>1, <4>2
    <3>3. /\ ~(On("execute") \/ Body)'
          /\ \A u \in pending' : u.proc <= procId'
          /\ taskState' # "none" /\ taskCall' = "syscall" => ~completed'
          /\ taskState' # "none" /\ Wraps(stack') => taskCall' = "syscall"
      BY <1>2, <2>1 DEF IInv, TaskInv, On, Body, Top, procVars, callVars
    <3> QED
      BY <3>1, <3>2, <3>3 DEF TaskInv
  <2>5. HostInv'
    BY <2>1 DEF IInv, HostInv, procVars, hostVars
  <2> QED
    BY <2>2, <2>3, <2>4, <2>5 DEF IInv
<1>4. CASE Live(t.proc)
  <2>1. /\ alive /\ alive = TRUE /\ t.proc = procId /\ t.stamp = taskStamp /\ t.kind = taskCall
        /\ taskState # "none"
        /\ HostLocks => session # "idle"
        /\ procState # "none" /\ taskCall \in TaskKind
    BY <1>1, <1>4 DEF IInv, TypeOK, TaskInv, HostInv, CallbackMatches, Outstanding, Live
  <2>2. \A u \in rest : u.proc < procId
    <3> SUFFICES ASSUME NEW u \in rest PROVE u.proc < procId
      OBVIOUS
    <3>1. u \in Task /\ u.proc \in Nat /\ u.proc <= procId
      BY <1>1 DEF IInv, TaskInv, Task
    <3>2. ASSUME u.proc = procId PROVE FALSE
      <4>1. u.stamp = taskStamp /\ u.kind = taskCall
        BY <2>1, <3>2 DEF IInv, TaskInv, CallbackMatches, Outstanding, Live
      <4>2. u = t
        BY <1>1, <2>1, <3>1, <3>2, <4>1 DEF Task
      <4> QED
        BY <4>2
    <3> QED
      BY <1>1, <3>1, <3>2
  <2>3. Wraps(stack) => taskCall = "syscall"
    BY <2>1 DEF IInv, TaskInv
  <2>4. taskCall = "syscall" => ~completed
    BY <2>1 DEF IInv, TaskInv
  <2>5. ~Wraps(stack) => Shape(stack) /\ Plain(stack)
    BY <1>1, AnsweringPlain DEF StackOK
  <2>6. stack # <<>> => stack[Len(stack)].fn \in {"create", "block", "task"}
    BY DEF Answering
  <2>7. ASSUME Shutdown(stack, rest), ~Wraps(stack) PROVE IInv'
    <3>1. Release /\ stack' = stack /\ pending' = rest /\ UNCHANGED <<procId, hostVars>>
      BY <2>7 DEF Shutdown
    <3>2. stack' \in Seq(Frame) /\ Shape(stack') /\ Plain(stack')
      BY <1>1, <2>5, <2>7, <3>1
    <3>3. session' \in Session /\ debugger' \in Nat /\ lost' = lost /\ pending' \in SUBSET pending
      BY <1>1, <3>1 DEF IInv, TypeOK, hostVars
    <3>4. HostLocks /\ session' = "idle" => stack' = <<>>
      BY <2>1, <3>1 DEF hostVars
    <3> QED
      BY <3>1, <3>2, <3>3, <3>4, ReleaseInv
  <2>8. ASSUME NEW kind \in TaskKind, kind # "syscall", StartTask(kind, stack, rest),
               ~Wraps(stack), procState' \in ProcState \ {"none"},
               resolveIndex' \in Nat, interpreter' \in BOOLEAN,
               UNCHANGED <<procId, alive, exports, links, codeVars, pAddress,
                           debugCheck, callVars, hostVars, fatal>>
        PROVE  IInv'
    <3>1. alive' = TRUE /\ procId' = procId /\ nested' \in Nat
          /\ StackOK(stack, nested', alive', procId')
      BY <1>1, <2>1, <2>8 DEF callVars
    <3>2. TaskTypes' /\ StackInv' /\ TaskInv'
      <4> HIDE DEF rest
      <4> QED
        BY <1>1, <2>2, <2>6, <2>8, <3>1, StartTaskInv
    <3>3. TypeOK'
      BY <2>8, <3>2 DEF IInv, TypeOK, TaskTypes, codeVars, callVars, hostVars
    <3>4. HostInv'
      BY <2>1, <2>8 DEF IInv, HostInv, hostVars
    <3> QED
      BY <3>2, <3>3, <3>4 DEF IInv
  <2>9. CASE taskCall = "core" /\ CoreLoaded(rest)
    <3>1. ~Wraps(stack)
      BY <2>3, <2>9
    <3>2. CASE Shutdown(stack, rest)
      BY <2>7, <3>1, <3>2
    <3>3. CASE /\ procState' = "coreLoaded"
               /\ StartTask("resolve", stack, rest)
               /\ UNCHANGED <<procId, alive, exports, links, codeVars, pAddress, loadVars, callVars,
                              hostVars, fatal>>
      <4>1. "resolve" \in TaskKind /\ procState' \in ProcState \ {"none"}
        BY <3>3 DEF TaskKind, ProcState
      <4>2. resolveIndex' \in Nat /\ interpreter' \in BOOLEAN /\ debugCheck' = debugCheck
        BY <3>3 DEF loadVars, IInv, TypeOK
      <4> QED
        BY <2>8, <3>1, <3>3, <4>1, <4>2
    <3> QED
      BY <2>9, <3>2, <3>3 DEF CoreLoaded
  <2>10. CASE taskCall = "resolve" /\ Resolved(rest)
    <3>1. ~Wraps(stack)
      BY <2>3, <2>10
    <3>2. CASE Shutdown(stack, rest)
      BY <2>7, <3>1, <3>2
    <3>3. CASE ~Shutdown(stack, rest)
      <4>1. /\ UNCHANGED <<procId, alive, procState, exports, links, codeVars, pAddress,
                           interpreter, debugCheck, callVars, hostVars, fatal>>
            /\ \/ resolveIndex' = resolveIndex + 1 /\ StartTask("resolve", stack, rest)
               \/ resolveIndex' = 0 /\ StartTask("read", stack, rest)
        BY <2>10, <3>3 DEF Resolved
      <4>2. resolveIndex' \in Nat
        BY <4>1 DEF IInv, TypeOK
      <4>3. procState' \in ProcState \ {"none"} /\ interpreter' \in BOOLEAN
        BY <2>1, <4>1 DEF IInv, TypeOK
      <4>4. "resolve" \in TaskKind /\ "read" \in TaskKind
        BY DEF TaskKind
      <4> QED
        BY <2>8, <3>1, <4>1, <4>2, <4>3, <4>4
    <3> QED
      BY <3>2, <3>3
  <2>11. CASE taskCall = "read" /\ BinaryLoaded(rest)
    <3>1. ~Wraps(stack)
      BY <2>3, <2>11
    <3>2. CASE Shutdown(stack, rest)
      BY <2>7, <3>1, <3>2
    <3>3. CASE /\ interpreter' = TRUE /\ StartTask("resolve", stack, rest)
               /\ UNCHANGED <<procId, alive, procState, exports, links, codeVars, pAddress,
                              resolveIndex, debugCheck, callVars, hostVars, fatal>>
      <4>1. procState' \in ProcState \ {"none"} /\ resolveIndex' \in Nat
        BY <2>1, <3>3 DEF IInv, TypeOK
      <4>2. "resolve" \in TaskKind /\ interpreter' \in BOOLEAN
        BY <3>3 DEF TaskKind
      <4> QED
        BY <2>8, <3>1, <3>3, <4>1, <4>2
    <3>4. CASE /\ pAddress' = Entry /\ xInvalid' \in {xInvalid, TRUE}
               /\ UNCHANGED <<mapping, codeVer, unsynced>>
               /\ LoadBlock(stack, rest, "none")
               /\ UNCHANGED <<procId, alive, loadVars, callVars, hostVars>>
      <4>1. /\ LoadTypes /\ fatal \notin {"doubleTask", "coreNotLoaded"} /\ taskCall \in TaskKind
            /\ taskStamp \in Nat
        BY DEF IInv, TypeOK, HostInv, LoadTypes
      <4>2. pAddress' \in Addr
        BY <3>4 DEF RuntimeAssumption
      <4>3. /\ alive' = TRUE /\ procId' = procId /\ nested' \in Nat
            /\ StackOK(stack, nested', alive', procId')
        BY <1>1, <2>1, <3>4 DEF callVars
      <4>4. /\ DOMAIN mapping' \in SUBSET Addr /\ mapping' \in [DOMAIN mapping' -> Nat]
            /\ codeVer' \in Nat /\ unsynced' \in BOOLEAN
        BY <3>4 DEF IInv, TypeOK
      <4>5. xInvalid' \in BOOLEAN
        BY <3>4 DEF IInv, TypeOK
      <4>6. /\ TaskTypes' /\ StackInv' /\ TaskInv' /\ LoadTypes'
            /\ procState' # "none" /\ fatal' \notin {"doubleTask", "coreNotLoaded"}
        <5> HIDE DEF rest
        <5> QED
          BY <1>1, <2>1, <2>2, <3>1, <3>4, <4>1, <4>2, <4>3, <4>4, LoadBlockInv
      <4>7. TypeOK'
        BY <3>4, <4>2, <4>4, <4>5, <4>6
           DEF IInv, TypeOK, TaskTypes, LoadTypes, loadVars, callVars, hostVars
      <4>8. HostInv'
        BY <2>1, <3>4, <4>3, <4>6 DEF IInv, HostInv, hostVars
      <4> QED
        BY <4>6, <4>7, <4>8 DEF IInv
    <3> QED
      BY <2>11, <3>2, <3>3, <3>4 DEF BinaryLoaded
  <2>12. CASE taskCall = "block" /\ BlockLoaded(rest)
    <3>1. /\ taskState' = "none" /\ pending' = rest
          /\ UNCHANGED <<procId, alive, taskStamp, taskCall, codeVer, xInvalid, unsynced, pAddress,
                         loadVars, callVars, hostVars>>
      BY <2>12 DEF BlockLoaded
    <3>2. ~Wraps(stack) /\ Shape(stack) /\ Plain(stack)
      BY <2>3, <2>5, <2>12
    <3>3. PICK s \in SUBSET DOMAIN exports :
             mapping' = [a \in DOMAIN mapping \union s |->
                            IF a \in DOMAIN mapping THEN mapping[a] ELSE exports[a]]
      BY <2>12 DEF BlockLoaded
    <3>4. DOMAIN mapping' \in SUBSET Addr /\ mapping' \in [DOMAIN mapping' -> Nat]
      BY <3>3 DEF IInv, TypeOK
    <3>5. /\ procState' \in ProcState \ {"none"} /\ stack' \in Seq(Frame)
          /\ DOMAIN exports' \in SUBSET Addr /\ exports' \in [DOMAIN exports' -> Nat]
          /\ links' \in SUBSET Addr
          /\ fatal' \in Fatal \ {"doubleTask", "coreNotLoaded"}
          /\ StackOK(stack', nested, alive, procId) /\ ~Body'
      <4>1. CASE /\ procState' = "coreLoaded" /\ exports' = NoCode /\ links' = {}
                 /\ stack' = Enter(stack) /\ UNCHANGED fatal
        <5> DEFINE frame == [fn |-> "execute", proc |-> procId, at |-> "enter"]
        <5>1. stack' = Append(stack, frame)
          BY <4>1 DEF Enter
        <5>2. frame \in Frame /\ frame.fn = "execute" /\ frame.proc = procId
          BY <1>1 DEF Frame, ExecuteFrame
        <5>3. stack' \in Seq(Frame) /\ stack' # <<>> /\ stack'[Len(stack')] = frame
          BY <1>1, <5>1, <5>2, PushSeq
        <5>4. stack # <<>> => Adjacent(stack[Len(stack)], frame)
          BY <5>2 DEF Answering, Adjacent
        <5>5. ~Body'
          BY <5>2, <5>3 DEF Body, On, Top
        <5>6. DOMAIN exports' \in SUBSET Addr /\ exports' \in [DOMAIN exports' -> Nat]
          BY <4>1, NoCodeType
        <5>7. procState' \in ProcState \ {"none"} /\ links' \in SUBSET Addr
          BY <4>1 DEF ProcState
        <5>8. fatal' \in Fatal \ {"doubleTask", "coreNotLoaded"}
          BY <4>1 DEF IInv, TypeOK, HostInv
        <5> HIDE DEF frame
        <5>9. StackOK(stack', nested, alive, procId)
          BY <1>1, <2>1, <3>2, <5>1, <5>2, <5>4, PushStack
        <5> QED
          BY <5>3, <5>5, <5>6, <5>7, <5>8, <5>9
      <4>2. CASE Abort("blockFailed", stack) /\ UNCHANGED <<procState, exports, links>>
        <5>1. fatal' = "blockFailed" /\ stack' \in Unwound(stack)
          BY <4>2 DEF Abort
        <5>2. stack' \in Seq(Frame) /\ StackOK(stack', nested, alive, procId) /\ Answering(stack')
          BY <1>1, <5>1, UnwoundStack
        <5>3. ~Body'
          BY <5>2 DEF Answering, Body, On, Top
        <5>4. fatal' \in Fatal \ {"doubleTask", "coreNotLoaded"}
          BY <5>1 DEF Fatal
        <5> QED
          BY <2>1, <4>2, <5>2, <5>3, <5>4 DEF IInv, TypeOK
      <4> QED
        BY <2>12, <4>1, <4>2 DEF BlockLoaded
    <3>6. \A u \in pending' : u.proc <= procId' /\ (alive' => u.proc # procId')
      <4> SUFFICES ASSUME NEW u \in rest PROVE u.proc <= procId /\ u.proc # procId
        BY <3>1
      <4>1. u.proc \in Nat /\ u.proc < procId
        BY <1>1, <2>2 DEF Task
      <4> QED
        BY <1>1, <4>1
    <3>7. StackInv' /\ TaskInv'
      <4>1. procId' \in Nat /\ alive' \in BOOLEAN /\ nested' \in Nat
            /\ StackOK(stack', nested', alive', procId')
        BY <1>1, <3>1, <3>5 DEF callVars
      <4> QED
        BY <3>1, <3>5, <3>6, <4>1, NoTaskInv
    <3>8. TypeOK'
      BY <1>1, <3>1, <3>4, <3>5 DEF IInv, TypeOK, TaskState, loadVars, callVars, hostVars
    <3>9. HostInv'
      BY <2>1, <3>1, <3>5 DEF IInv, HostInv, hostVars
    <3> QED
      BY <3>7, <3>8, <3>9 DEF IInv
  <2>13. CASE taskCall = "syscall" /\ CallContinue(rest)
    <3> DEFINE frame == [fn |-> "wrap", proc |-> procId, inplace |-> FALSE,
                         at |-> "body", level |-> nested + 1]
    <3>1. /\ taskState' = "none" /\ pending' = rest /\ nested' = nested + 1 /\ nested' \in Nat
          /\ stack' = Append(stack, frame)
          /\ UNCHANGED <<procId, alive, procState, taskStamp, taskCall, exports, links, codeVars,
                         pAddress, loadVars, completed, owed, hostVars, fatal>>
      BY <1>1, <2>13 DEF CallContinue
    <3>2. frame \in Frame
      BY <1>1 DEF Frame, WrapFrame
    <3>3. stack' \in Seq(Frame)
      BY <1>1, <3>1, <3>2, PushSeq
    <3>4. \A i \in 1 .. Len(stack) : stack[i].fn = "wrap" =>
            stack[i].level \in Nat /\ stack[i].level <= nested
      <4> SUFFICES ASSUME NEW i \in 1 .. Len(stack), stack[i].fn = "wrap"
                   PROVE  stack[i].level \in Nat /\ stack[i].level <= nested
        OBVIOUS
      <4>1. stack[i] \in Frame
        BY <1>1
      <4>2. stack[i] \in WrapFrame
        BY <4>1, FrameKinds
      <4> QED
        BY <1>1, <4>2 DEF WrapFrame, StackOK, Levels
    <3>5. StackOK(stack, nested + 1, alive, procId)
      <4>1. Levels(stack, nested + 1)
        <5> SUFFICES ASSUME NEW j \in 1 .. Len(stack), stack[j].fn = "wrap"
                     PROVE  /\ 1 <= stack[j].level /\ stack[j].level <= nested + 1
                            /\ \A i \in 1 .. (j - 1) :
                                 stack[i].fn = "wrap" => stack[i].level < stack[j].level
          BY DEF Levels
        <5>1. /\ 1 <= stack[j].level
              /\ \A i \in 1 .. (j - 1) : stack[i].fn = "wrap" => stack[i].level < stack[j].level
          BY <1>1 DEF StackOK, Levels
        <5>2. stack[j].level <= nested + 1
          BY <1>1, <3>4
        <5> QED
          BY <5>1, <5>2
      <4> QED
        BY <1>1, <4>1 DEF StackOK
    <3>6. stack # <<>> => Adjacent(stack[Len(stack)], frame)
      BY DEF Answering, Adjacent
    <3>7. /\ 1 <= frame.level /\ frame.level <= nested + 1
          /\ \A i \in 1 .. Len(stack) : stack[i].fn = "wrap" => stack[i].level < frame.level
      <4>1. frame.level = nested + 1
        OBVIOUS
      <4> QED
        BY <1>1, <3>4, <4>1
    <3>8. frame.fn = "wrap" /\ frame.proc = procId /\ ~frame.inplace
      OBVIOUS
    <3>9. StackOK(stack', nested', alive', procId')
      <4> HIDE DEF frame
      <4>1. StackOK(Append(stack, frame), nested + 1, alive, procId)
        BY <1>1, <2>1, <3>1, <3>2, <3>5, <3>6, <3>7, <3>8, PushStack
      <4> QED
        BY <3>1, <4>1
    <3>10. \A u \in pending' : u.proc <= procId' /\ (alive' => u.proc # procId')
      <4> SUFFICES ASSUME NEW u \in rest PROVE u.proc <= procId /\ u.proc # procId
        BY <3>1
      <4>1. u.proc \in Nat /\ u.proc < procId
        BY <1>1, <2>2 DEF Task
      <4> QED
        BY <1>1, <4>1
    <3>11. StackInv' /\ TaskInv'
      <4>1. procId' \in Nat /\ alive' \in BOOLEAN /\ ~completed'
        BY <1>1, <2>4, <2>13, <3>1
      <4> QED
        BY <3>1, <3>9, <3>10, <4>1, NoTaskInv
    <3>12. TypeOK'
      <4> HIDE DEF frame
      <4> QED
        BY <1>1, <3>1, <3>3 DEF IInv, TypeOK, TaskState, codeVars, loadVars, hostVars
    <3>13. HostInv'
      <4> HIDE DEF frame
      <4> QED
        BY <2>1, <3>1 DEF IInv, HostInv, hostVars
    <3> QED
      BY <3>11, <3>12, <3>13 DEF IInv
  <2> QED
    BY <1>4, <2>9, <2>10, <2>11, <2>12, <2>13 DEF TaskCompleted
<1> QED
  BY <1>3, <1>4

\* The host answers a task, inside of the call that handed it over or at any later time.
LEMMA HostStepInv == RuntimeAssumption /\ IInv /\ HostStep => IInv'
<1> SUFFICES ASSUME RuntimeAssumption, IInv, HostStep PROVE IInv'
  OBVIOUS
<1>1. CASE HostInplace
  <2>1. Answering(stack)
    BY <1>1 DEF HostInplace, On, Top, Answering
  <2>2. PICK t \in pending : TaskCompleted(t)
    BY <1>1 DEF HostInplace
  <2> QED
    BY <2>1, <2>2, TaskCompletedInv
<1>2. CASE HostAsync
  <2>1. Answering(stack)
    BY <1>2 DEF HostAsync, Answering
  <2>2. PICK t \in pending : TaskCompleted(t)
    BY <1>2 DEF HostAsync
  <2> QED
    BY <2>1, <2>2, TaskCompletedInv
<1> QED
  BY <1>1, <1>2 DEF HostStep

\* The host gives a task up: the process waits for ever, but it still waits for a task.
LEMMA HostDropsInv == IInv /\ HostDrops => IInv'
<1> SUFFICES ASSUME IInv, HostDrops PROVE IInv'
  OBVIOUS
<1>1. PICK t \in pending : pending' = pending \ {t} /\ lost' = lost \union {t}
  BY DEF HostDrops
<1>2. UNCHANGED <<procId, alive, procVars, codeVars, pAddress, loadVars, callVars,
                  stack, session, debugger, fatal>>
  BY DEF HostDrops
<1>3. pending' \in SUBSET pending /\ pending' \in SUBSET Task /\ lost' \in SUBSET Task
  BY <1>1 DEF IInv, TypeOK
<1>4. (pending \union lost)' = pending \union lost
  BY <1>1
<1>5. TypeOK'
  BY <1>2, <1>3 DEF IInv, TypeOK, procVars, codeVars, loadVars, callVars
<1>6. StackInv'
  BY <1>2 DEF IInv, StackInv, NoDanglingFrame, Live, callVars
<1>7. TaskInv'
  <2>1. CallbackMatches'
    BY <1>2, <1>3 DEF IInv, TaskInv, CallbackMatches, Outstanding, Live, procVars
  <2>2. \A u \in pending' : u.proc <= procId'
    BY <1>2, <1>3 DEF IInv, TaskInv
  <2>3. /\ (On("execute") \/ Body)' => taskState' = "none"
        /\ Body' => ~completed'
        /\ taskState' # "none" /\ taskCall' = "syscall" => ~completed'
        /\ taskState' # "none" /\ Wraps(stack') => taskCall' = "syscall"
    BY <1>2 DEF IInv, TaskInv, On, Body, Top, procVars, callVars
  <2>4. taskState' # "none" => \E u \in (pending \union lost)' : u.proc = procId'
    BY <1>2, <1>4 DEF IInv, TaskInv, procVars
  <2> QED
    BY <2>1, <2>2, <2>3, <2>4 DEF TaskInv
<1>8. HostInv'
  BY <1>2 DEF IInv, HostInv, procVars
<1> QED
  BY <1>5, <1>6, <1>7, <1>8 DEF IInv

\* A step that changes nothing.
LEMMA StutterInv == IInv /\ UNCHANGED vars => IInv'
<1> SUFFICES ASSUME IInv, UNCHANGED vars PROVE IInv'
  OBVIOUS
<1>1. UNCHANGED <<procId, alive, procVars, codeVars, pAddress, loadVars, callVars,
                  stack, pending, hostVars, fatal>>
  BY DEF vars
<1>2. TypeOK'
  BY <1>1 DEF IInv, TypeOK, procVars, codeVars, loadVars, callVars, hostVars
<1>3. StackInv'
  BY <1>1 DEF IInv, StackInv, NoDanglingFrame, Live, callVars
<1>4. TaskInv'
  <2>1. CallbackMatches'
    BY <1>1 DEF IInv, TaskInv, CallbackMatches, Outstanding, Live, procVars
  <2> QED
    BY <1>1, <2>1 DEF IInv, TaskInv, On, Body, Top, procVars, callVars, hostVars
<1>5. HostInv'
  BY <1>1 DEF IInv, HostInv, procVars, hostVars
<1> QED
  BY <1>2, <1>3, <1>4, <1>5 DEF IInv

-----------------------------------------------------------------------------
(* The invariant and what follows from it. *)

\* Every step of the application, the user and the host preserves the invariant.
LEMMA NextInv == RuntimeAssumption /\ IInv /\ [Next]_vars => IInv'
<1> SUFFICES ASSUME RuntimeAssumption, IInv, [Next]_vars PROVE IInv'
  OBVIOUS
<1>1. CASE Command
  BY <1>1, CommandInv
<1>2. CASE EndSession
  BY <1>2, EndSessionInv
<1>3. CASE ExecuteEnter
  BY <1>3, ExecuteEnterInv
<1>4. CASE GuestStep
  BY <1>4, GuestStepInv
<1>5. CASE SyscallStep
  BY <1>5, SyscallStepInv
<1>6. CASE ReturnStep
  BY <1>6, ReturnStepInv
<1>7. CASE HostStep
  BY <1>7, HostStepInv
<1>8. CASE HostDrops
  BY <1>8, HostDropsInv
<1>9. CASE UNCHANGED vars \/ NoMoreCommands
  BY <1>9, StutterInv DEF NoMoreCommands
<1> QED
  BY <1>1, <1>2, <1>3, <1>4, <1>5, <1>6, <1>7, <1>8, <1>9 DEF Next

\* The inductive invariant holds in every state the application can be in.
THEOREM Invariance == Spec => []IInv
<1>1. RuntimeAssumption /\ Init => IInv
  BY InitInv
<1>2. RuntimeAssumption /\ IInv /\ [Next]_vars => IInv'
  BY NextInv
<1> QED
  BY <1>1, <1>2, RuntimeAssumption, PTL DEF Spec

\* No variable of the process, the systems and the host ever leaves its type: in particular
\* pCurrent.nested, a uint32_t, is never decremented below zero by fWrap.
THEOREM TypeCorrect == Spec => []TypeOK
<1>1. IInv => TypeOK
  BY DEF IInv
<1> QED
  BY <1>1, Invariance, PTL

\* No activation of fExecute or fWrap is returned to after its process was destroyed: not when
\* the guest exits on top of other activations, and not through the pointer of the debugger.
THEOREM FramesOutlived == Spec => []NoDanglingFrame
<1>1. IInv => NoDanglingFrame
  BY DEF IInv, StackInv
<1> QED
  BY <1>1, Invariance, PTL

\* The process id fTaskCompleted compares is enough: a task that completes finds the callback
\* it was started with, although the callback is not stored with the task.
THEOREM CallbackBelongs == Spec => []CallbackMatches
<1>1. IInv => CallbackMatches
  BY DEF IInv, TaskInv
<1> QED
  BY <1>1, Invariance, PTL

\* Guest code and system calls run only while the process has no task, and it has never two.
THEOREM OneAtATime == Spec => []OneActivity
<1>1. ASSUME IInv PROVE OneActivity
  <2>1. ASSUME NEW t \in Outstanding, NEW u \in Outstanding PROVE t = u
    <3>1. t \in Task /\ u \in Task /\ t.proc = procId /\ u.proc = procId
      BY <1>1, <2>1 DEF IInv, TypeOK, Outstanding, Live
    <3>2. t.stamp = u.stamp /\ t.kind = u.kind
      BY <1>1, <2>1 DEF IInv, TaskInv, CallbackMatches
    <3> QED
      BY <3>1, <3>2 DEF Task
  <2>2. ASSUME On("execute") \/ Body PROVE taskState = "none" /\ Outstanding = {}
    BY <1>1, <2>2 DEF IInv, TaskInv, CallbackMatches
  <2> QED
    BY <2>1, <2>2 DEF OneActivity
<1> QED
  BY <1>1, Invariance, PTL

-----------------------------------------------------------------------------
(***************************************************************************)
(* Proofs about loading: the checks at the head of fHandleTask and of      *)
(* fLoadBlock.  The invariant of RuntimeProofs is enough for the first     *)
(* two; for the third LoadInv relates pProcState to the task of the        *)
(* process, which are set and reset in different functions.                *)
(***************************************************************************)

\* The core is being loaded exactly as long as the task for it is the task of the process.
CoreTask ==
    alive => (procState = "loadingCore" <=> taskState # "none" /\ taskCall = "core")

\* A process which refused a load has no task that could end the one in progress.
Refused ==
    fatal = "loadInProgress" =>
        alive /\ procState = "loadingBlock" /\ (taskState = "none" \/ taskCall # "block")

LoadInv == CoreTask /\ Refused

-----------------------------------------------------------------------------

\* fLoadBlock, called while the process has no task and its core is loaded.
LEMMA LoadBlockLoad ==
    ASSUME NEW base, NEW rest, LoadBlock(base, rest, "none"),
           LoadInv, alive, alive' = alive, procState \notin {"none", "loadingCore"}
    PROVE  LoadInv'
<1>1. CASE /\ procState = "loadingBlock" /\ Abort("loadInProgress", base)
           /\ taskState' = "none" /\ UNCHANGED procState
  BY <1>1 DEF LoadInv, CoreTask, Refused, Abort
<1>2. CASE /\ procState' = "loadingBlock" /\ Abort("blockFailed", base)
           /\ taskState' = "none"
  BY <1>2 DEF LoadInv, CoreTask, Refused, Abort
<1>3. CASE /\ procState = "coreLoaded" /\ procState' = "loadingBlock"
           /\ \E b : StartTask("block", b, rest)
           /\ UNCHANGED fatal
  BY <1>3 DEF LoadInv, CoreTask, Refused, StartTask
<1> QED
  BY <1>1, <1>2, <1>3 DEF LoadBlock

\* shutdown leaves nothing to say about.
LEMMA ReleaseLoad == Release => LoadInv'
  BY DEF Release, LoadInv, CoreTask, Refused

\* A step that touches neither the states of the process nor its errors.
LEMMA SteadyLoad == LoadInv /\ UNCHANGED <<alive, procVars, fatal>> => LoadInv'
  BY DEF LoadInv, CoreTask, Refused, procVars

\* A process without a task fails for another reason than a load.
LEMMA FailLoad ==
    ASSUME LoadInv, UNCHANGED <<alive, procVars>>, fatal' # "loadInProgress"
    PROVE  LoadInv'
  BY DEF LoadInv, CoreTask, Refused, procVars

\* fExecute starts the translation of a block.
LEMMA RetranslateLoad ==
    ASSUME IInv, LoadInv, On("execute") \/ On("wrap"), taskState = "none",
           NEW address, NEW base, Retranslate(address, base)
    PROVE  LoadInv'
<1>1. alive /\ procState # "none"
  BY RunningFacts
<1>2. procState # "loadingCore"
  BY <1>1 DEF LoadInv, CoreTask
<1>3. LoadBlock(base, pending, "none") /\ alive' = alive
  BY DEF Retranslate
<1> QED
  BY <1>1, <1>2, <1>3, LoadBlockLoad

\* Commands create a process with a core to load, release one, or leave it alone.
LEMMA CommandLoad == LoadInv /\ (Command \/ EndSession) => LoadInv'
<1> SUFFICES ASSUME LoadInv, Command \/ EndSession PROVE LoadInv'
  OBVIOUS
<1>1. ASSUME NEW debug, Create(debug) PROVE LoadInv'
  <2>1. ~alive /\ UNCHANGED fatal
    BY <1>1 DEF Create
  <2>2. fatal' # "loadInProgress"
    BY <2>1 DEF LoadInv, Refused
  <2>3. CASE procState' = "loadingCore" /\ taskState' = "started" /\ taskCall' = "core"
    BY <2>2, <2>3 DEF LoadInv, CoreTask, Refused
  <2>4. CASE UNCHANGED alive
    BY <2>1, <2>2, <2>4 DEF LoadInv, CoreTask, Refused
  <2> QED
    BY <1>1, <2>3, <2>4 DEF Create
<1>2. CASE HandleStart
  BY <1>1, <1>2 DEF HandleStart
<1>3. CASE ExecuteStart
  BY <1>1, <1>3, SteadyLoad DEF ExecuteStart
<1>4. CASE HandleDestroy
  BY <1>4, ReleaseLoad DEF HandleDestroy
<1>5. CASE HandleRun
  BY <1>5, SteadyLoad DEF HandleRun
<1>6. CASE EndSession
  BY <1>6, ReleaseLoad, SteadyLoad DEF EndSession
<1> QED
  BY <1>2, <1>3, <1>4, <1>5, <1>6 DEF Command

\* Guest code has no task; all it does to loading is to ask for a translation, or to fail.
LEMMA GuestLoad == IInv /\ LoadInv /\ (ExecuteEnter \/ GuestStep) => LoadInv'
<1> SUFFICES ASSUME IInv, LoadInv, ExecuteEnter \/ GuestStep PROVE LoadInv'
  OBVIOUS
<1>1. On("execute")
  BY DEF ExecuteEnter, GuestStep, GuestGoto, GuestFence, GuestStore, GuestFault, GuestHalt,
         GuestSyscall, Guest
<1>2. taskState = "none"
  BY <1>1 DEF IInv, TaskInv
<1>3. ASSUME NEW address, NEW base, Retranslate(address, base) PROVE LoadInv'
  BY <1>1, <1>2, <1>3, RetranslateLoad
<1>4. ASSUME NEW address, Goto(address) PROVE LoadInv'
  BY <1>3, <1>4, SteadyLoad DEF Goto
<1>5. CASE ExecuteEnter
  BY <1>3, <1>4, <1>5 DEF ExecuteEnter
<1>6. CASE GuestGoto
  BY <1>4, <1>6 DEF GuestGoto
<1>7. CASE GuestFence
  BY <1>3, <1>7 DEF GuestFence
<1>8. CASE GuestStore
  BY <1>3, <1>8, SteadyLoad DEF GuestStore
<1>9. CASE GuestFault
  BY <1>9, FailLoad DEF GuestFault, Abort
<1>10. CASE GuestHalt \/ GuestSyscall
  BY <1>10, SteadyLoad DEF GuestHalt, GuestSyscall
<1> QED
  BY <1>5, <1>6, <1>7, <1>8, <1>9, <1>10 DEF GuestStep

\* A system call may start a task, but not while the core is loading, and never one for a block.
LEMMA SyscallLoad == IInv /\ LoadInv /\ SyscallStep => LoadInv'
<1> SUFFICES ASSUME IInv, LoadInv, SyscallStep PROVE LoadInv'
  OBVIOUS
<1>1. ASSUME NEW c, On("wrap"), taskState = "none", WrapEnd(c) PROVE LoadInv'
  <2>1. CASE UNCHANGED <<alive, procVars, fatal>>
    BY <2>1, SteadyLoad
  <2>2. CASE Retranslate(pAddress, Pop(Below))
    BY <1>1, <2>2, RetranslateLoad
  <2> QED
    BY <1>1, <2>1, <2>2 DEF WrapEnd
<1>2. ASSUME NEW c, WrapEnd(c), c = FALSE PROVE LoadInv'
  BY <1>2, SteadyLoad DEF WrapEnd
<1>3. Body => On("wrap") /\ taskState = "none"
  BY DEF Body, IInv, TaskInv
<1>4. CASE BodyReturn
  BY <1>1, <1>3, <1>4 DEF BodyReturn
<1>5. CASE CallIncomplete
  <2>1. CASE taskState = "none"
    BY <1>1, <1>5, <2>1 DEF CallIncomplete
  <2>2. CASE taskState # "none"
    <3>1. Wraps(stack)
      <4>1. On("wrap") /\ stack \in Seq(Frame)
        BY <1>5 DEF CallIncomplete, IInv, TypeOK
      <4>2. Len(stack) \in 1 .. Len(stack) /\ stack[Len(stack)].fn = "wrap"
        BY <4>1 DEF On, Top
      <4> QED
        BY <4>2 DEF Wraps
    <3>2. completed = FALSE
      BY <2>2, <3>1 DEF IInv, TypeOK, TaskInv
    <3> QED
      BY <1>2, <1>5, <3>2 DEF CallIncomplete
  <2> QED
    BY <2>1, <2>2
<1>6. CASE BodyIssue
  <2>1. taskState = "none" /\ alive /\ UNCHANGED <<alive, procState>>
    BY <1>3, <1>6, RunningFacts DEF BodyIssue
  <2>2. \E b : StartTask("syscall", b, pending) /\ UNCHANGED fatal
    BY <1>6, <2>1 DEF BodyIssue
  <2> QED
    BY <2>1, <2>2 DEF StartTask, LoadInv, CoreTask, Refused
<1>7. CASE BodyChangeCode
  BY <1>7, SteadyLoad DEF BodyChangeCode
<1>8. CASE BodyExit
  BY <1>8, ReleaseLoad DEF BodyExit, Shutdown
<1>9. CASE BodyFatal
  BY <1>9, FailLoad DEF BodyFatal, Abort
<1> QED
  BY <1>4, <1>5, <1>6, <1>7, <1>8, <1>9 DEF SyscallStep

\* The task of the process ends: its callback ends the load it belongs to.
LEMMA TaskCompletedLoad ==
    ASSUME IInv, LoadInv, NEW t \in pending, TaskCompleted(t)
    PROVE  LoadInv'
<1> DEFINE rest == pending \ {t}
<1>1. CASE ~Live(t.proc)
  BY <1>1, SteadyLoad DEF TaskCompleted
<1>2. CASE Live(t.proc)
  <2>1. alive /\ taskState # "none" /\ t.kind = taskCall /\ procState # "none"
    BY <1>2 DEF IInv, TaskInv, HostInv, CallbackMatches, Outstanding, Live
  <2>2. ASSUME NEW s, NEW u, Shutdown(s, u) PROVE LoadInv'
    BY <2>2, ReleaseLoad DEF Shutdown
  <2>3. ASSUME NEW kind \in {"resolve", "read"}, StartTask(kind, stack, rest),
               UNCHANGED <<alive, fatal>>, procState' # "loadingCore",
               procState = "loadingBlock" => procState' = procState
        PROVE  LoadInv'
    BY <2>3 DEF StartTask, LoadInv, CoreTask, Refused
  <2>4. CASE taskCall = "core" /\ CoreLoaded(rest)
    <3>1. procState = "loadingCore"
      BY <2>1, <2>4 DEF LoadInv, CoreTask
    <3> QED
      BY <2>2, <2>3, <2>4, <3>1 DEF CoreLoaded
  <2>5. CASE taskCall = "resolve" /\ Resolved(rest)
    <3>1. procState # "loadingCore"
      BY <2>1, <2>5 DEF LoadInv, CoreTask
    <3> QED
      BY <2>2, <2>3, <2>5, <3>1 DEF Resolved
  <2>6. CASE taskCall = "read" /\ BinaryLoaded(rest)
    <3>1. procState # "loadingCore"
      BY <2>1, <2>6 DEF LoadInv, CoreTask
    <3>2. CASE LoadBlock(stack, rest, "none") /\ UNCHANGED alive
      BY <2>1, <3>1, <3>2, LoadBlockLoad
    <3>3. CASE StartTask("resolve", stack, rest) /\ UNCHANGED <<alive, procState, fatal>>
      BY <2>3, <3>1, <3>3
    <3> QED
      BY <2>2, <2>6, <3>2, <3>3 DEF BinaryLoaded
  <2>7. CASE taskCall = "block" /\ BlockLoaded(rest)
    <3>1. procState # "loadingCore" /\ fatal # "loadInProgress"
      BY <2>1, <2>7 DEF LoadInv, CoreTask, Refused
    <3>2. taskState' = "none" /\ procState' # "loadingCore" /\ fatal' # "loadInProgress"
      BY <2>7, <3>1 DEF BlockLoaded, Abort
    <3> QED
      BY <3>2 DEF LoadInv, CoreTask, Refused
  <2>8. CASE taskCall = "syscall" /\ CallContinue(rest)
    <3>1. procState # "loadingCore"
      BY <2>1, <2>8 DEF LoadInv, CoreTask
    <3> QED
      BY <2>8, <3>1 DEF CallContinue, LoadInv, CoreTask, Refused
  <2> QED
    BY <1>2, <2>4, <2>5, <2>6, <2>7, <2>8 DEF TaskCompleted
<1> QED
  BY <1>1, <1>2

\* Every step preserves the relation of pProcState to the task.
LEMMA NextLoad == IInv /\ LoadInv /\ [Next]_vars => LoadInv'
<1> SUFFICES ASSUME IInv, LoadInv, [Next]_vars PROVE LoadInv'
  OBVIOUS
<1>1. CASE Command \/ EndSession
  BY <1>1, CommandLoad
<1>2. CASE ExecuteEnter \/ GuestStep
  BY <1>2, GuestLoad
<1>3. CASE SyscallStep
  BY <1>3, SyscallLoad
<1>4. CASE TaskReturn
  BY <1>4 DEF TaskReturn, LoadInv, CoreTask, Refused
<1>5. CASE BlockReturn \/ CreateReturn
  BY <1>5, SteadyLoad DEF BlockReturn, CreateReturn
<1>6. CASE HostStep
  BY <1>6, TaskCompletedLoad DEF HostStep, HostInplace, HostAsync
<1>7. CASE HostDrops
  BY <1>7, SteadyLoad DEF HostDrops
<1>8. CASE UNCHANGED vars \/ NoMoreCommands
  BY <1>8, SteadyLoad DEF NoMoreCommands, vars
<1> QED
  BY <1>1, <1>2, <1>3, <1>4, <1>5, <1>6, <1>7, <1>8 DEF Next, ReturnStep

\* fHandleTask never finds a task of the process active, fLoadBlock never finds a process whose
\* core was not loaded, and it refuses a load as being in progress only after an earlier one
\* failed in a way nothing repairs.
THEOREM InternalErrors == Spec => []NoInternalError
<1>1. Init => LoadInv
  BY DEF Init, LoadInv, CoreTask, Refused
<1>2. IInv /\ LoadInv /\ [Next]_vars => LoadInv'
  BY NextLoad
<1>3. IInv /\ LoadInv => NoInternalError
  BY DEF IInv, HostInv, TaskInv, CallbackMatches, LoadInv, Refused, NoInternalError
<1> QED
  BY <1>1, <1>2, <1>3, Invariance, PTL DEF Spec

-----------------------------------------------------------------------------
(* Translated code. *)

Loading == taskState # "none" /\ taskCall = "block"

\* What the module being loaded links to is mapped, what it brings is not.
LinksKept ==
    Loading => links \subseteq DOMAIN mapping /\ DOMAIN exports \intersect DOMAIN mapping = {}

\* Unless code changed unnoticed or the next check will flush, all translations are current,
\* those on their way included.
Current ==
    ~unsynced /\ ~xInvalid =>
        /\ \A a \in DOMAIN mapping : mapping[a] = codeVer
        /\ Loading => \A a \in DOMAIN exports : exports[a] = codeVer

\* Guest code runs only after the check.
Checked == Guest => ~xInvalid

CodeInv == LinksKept /\ Current /\ Checked

-----------------------------------------------------------------------------

\* A FatalException leaves a stack on which no guest code runs.
LEMMA UnwoundAnswers ==
    ASSUME NEW s \in Seq(Frame), NEW u \in Unwound(s)
    PROVE  Answering(u)
<1>1. PICK k \in 0 .. Len(s) : u = SubSeq(s, 1, k) /\ (k = 0 \/ s[k].fn = "task")
  BY DEF Unwound
<1>2. u \in Seq(Frame) /\ Len(u) = k /\ \A i \in 1 .. k : u[i] = s[i]
  BY <1>1, CutSeq
<1> QED
  BY <1>1, <1>2 DEF Answering

\* A task that is handed to the host is on top of the stack.
LEMMA IssuedAnswers ==
    ASSUME NEW kind, NEW base \in Seq(Frame), NEW rest, StartTask(kind, base, rest),
           procId \in Nat, taskStamp \in Nat
    PROVE  Answering(stack') /\ taskState' # "none" /\ taskCall' = kind
<1> DEFINE frame == [fn |-> "task", proc |-> procId, stamp |-> taskStamp + 1]
<1>1. stack' = Append(base, frame) /\ taskState' = "started" /\ taskCall' = kind
  BY DEF StartTask
<1>2. frame \in Frame /\ frame.fn = "task"
  BY DEF Frame, TaskFrame
<1> HIDE DEF frame
<1>3. stack' # <<>> /\ stack'[Len(stack')] = frame
  BY <1>1, <1>2, PushSeq
<1> QED
  BY <1>1, <1>2, <1>3 DEF Answering

\* No guest code runs where the host answers.
LEMMA AnsweringNoGuest == Answering(stack') => ~Guest'
  BY DEF Answering, Guest, On, Top

\* fLoadBlock, called while nothing else is loaded and what is mapped is current.
LEMMA LoadBlockCode ==
    ASSUME IInv, NEW base \in Seq(Frame), NEW rest, LoadBlock(base, rest, "none"),
           ~unsynced' /\ ~xInvalid' => \A a \in DOMAIN mapping' : mapping'[a] = codeVer'
    PROVE  CodeInv'
<1>1. procId \in Nat /\ taskStamp \in Nat
  BY DEF IInv, TypeOK
<1>2. ASSUME NEW cause, Abort(cause, base), taskState' = "none" PROVE CodeInv'
  <2>1. ~Guest'
    BY <1>2, UnwoundAnswers, AnsweringNoGuest DEF Abort
  <2> QED
    BY <1>2, <2>1 DEF CodeInv, LinksKept, Current, Checked, Loading
<1>3. CASE /\ \E s \in Translation(pAddress', Linkable) : exports' = [a \in s |-> codeVer']
           /\ links' \in SUBSET Linkable
           /\ StartTask("block", Append(base, [fn |-> "block", proc |-> procId]), rest)
  <2> DEFINE frame == [fn |-> "block", proc |-> procId]
  <2>1. PICK s \in Translation(pAddress', Linkable) : exports' = [a \in s |-> codeVer']
    BY <1>3
  <2>2. s \intersect DOMAIN mapping' = {}
    BY DEF Translation, Linkable
  <2>3. DOMAIN exports' = s /\ \A a \in s : exports'[a] = codeVer'
    BY <2>1
  <2>4. frame \in Frame
    BY <1>1 DEF Frame, BlockFrame
  <2>5. Append(base, frame) \in Seq(Frame)
    BY <2>4, PushSeq
  <2>6. ~Guest'
    BY <1>1, <1>3, <2>5, IssuedAnswers, AnsweringNoGuest
  <2>7. LinksKept'
    BY <1>3, <2>2, <2>3 DEF LinksKept, Linkable
  <2>8. Current'
    BY <2>3 DEF Current
  <2> QED
    BY <2>6, <2>7, <2>8 DEF CodeInv, Checked
<1> QED
  BY <1>2, <1>3 DEF LoadBlock

\* shutdown leaves no code, and the stack to the host.
LEMMA ReleaseCode ==
    ASSUME Release, ~Guest' PROVE CodeInv'
<1>1. taskState' = "none" /\ mapping' = NoCode
  BY DEF Release
<1>2. DOMAIN mapping' = {}
  BY <1>1 DEF NoCode
<1> QED
  BY <1>1, <1>2 DEF CodeInv, LinksKept, Current, Checked, Loading

\* A step that changes neither the code nor what is loaded.
LEMMA SteadyCode ==
    ASSUME CodeInv, UNCHANGED <<exports, links, codeVars>>, Loading' => Loading, Checked'
    PROVE  CodeInv'
  BY DEF CodeInv, LinksKept, Current, codeVars

\* fExecute starts a translation, at once or after a flush.
LEMMA RetranslateCode ==
    ASSUME IInv, taskState = "none", NEW address, NEW base \in Seq(Frame),
           Retranslate(address, base),
           ~unsynced' /\ ~xInvalid' => \A a \in DOMAIN mapping' : mapping'[a] = codeVer'
    PROVE  CodeInv'
<1>1. LoadBlock(base, pending, "none")
  BY DEF Retranslate
<1> QED
  BY <1>1, LoadBlockCode

\* Nothing is mapped after a flush.
LEMMA FlushedCode ==
    ASSUME Flush PROVE \A a \in DOMAIN mapping' : mapping'[a] = codeVer'
<1>1. mapping' = NoCode
  BY DEF Flush
<1>2. DOMAIN mapping' = {}
  BY <1>1 DEF NoCode
<1> QED
  BY <1>2

\* Guest code goes on at a mapped block, or its translation starts.
LEMMA GotoCode ==
    ASSUME IInv, CodeInv, On("execute"), ~xInvalid, NEW address, Goto(address)
    PROVE  CodeInv'
<1>1. taskState = "none" /\ Below \in Seq(Frame)
  BY GuestFacts
<1>2. CASE address \in DOMAIN mapping
  BY <1>2, SteadyCode DEF Goto, Checked, codeVars, procVars, Loading
<1>3. CASE address \notin DOMAIN mapping
  <2>1. Retranslate(address, Below) /\ UNCHANGED codeVars
    BY <1>3 DEF Goto
  <2>2. ~unsynced' /\ ~xInvalid' => \A a \in DOMAIN mapping' : mapping'[a] = codeVer'
    BY <2>1 DEF CodeInv, Current, codeVars
  <2> QED
    BY <1>1, <2>1, <2>2, RetranslateCode
<1> QED
  BY <1>2, <1>3

\* Commands run no guest code, and load at most the core.
LEMMA CommandCode == RuntimeAssumption /\ CodeInv /\ (Command \/ EndSession) => CodeInv'
<1> SUFFICES ASSUME RuntimeAssumption, CodeInv, Command \/ EndSession PROVE CodeInv'
  OBVIOUS
<1>1. ASSUME NEW debug, Create(debug) PROVE CodeInv'
  <2>1. UNCHANGED <<exports, links, codeVars>>
    BY <1>1 DEF Create
  <2>2. Loading' => Loading
    BY <1>1 DEF Create, Loading
  <2>3. ~Guest'
    <3>1. CASE UNCHANGED stack
      BY <1>1, <3>1 DEF Create, Idle, Guest, On
    <3>2. CASE ~UNCHANGED stack
      <4>1. stack' = <<[fn |-> "create", proc |-> procId + 1, debug |-> debug],
                       [fn |-> "task", proc |-> procId + 1, stamp |-> 1]>>
        BY <1>1, <3>2 DEF Create
      <4>2. stack'[Len(stack')].fn = "task"
        BY <4>1
      <4> QED
        BY <4>2 DEF Guest, On, Top
    <3> QED
      BY <3>1, <3>2
  <2> QED
    BY <2>1, <2>2, <2>3, SteadyCode DEF Checked
<1>2. CASE HandleStart
  BY <1>1, <1>2 DEF HandleStart
<1>3. CASE ExecuteStart
  <2>1. CASE Create(FALSE)
    BY <1>1, <2>1
  <2>2. CASE UNCHANGED <<procVars, codeVars, stack>>
    <3>1. ~Guest'
      BY <1>3, <2>2 DEF ExecuteStart, Idle, Guest, On
    <3> QED
      BY <2>2, <3>1, SteadyCode DEF Checked, procVars, Loading
  <2> QED
    BY <1>3, <2>1, <2>2 DEF ExecuteStart
<1>4. CASE HandleDestroy
  BY <1>4, ReleaseCode DEF HandleDestroy, Idle, Guest, On
<1>5. CASE HandleRun
  <2>1. /\ stack' = <<[fn |-> "execute", proc |-> debugger', at |-> "enter"]>>
        /\ UNCHANGED <<procVars, codeVars>>
    BY <1>5 DEF HandleRun
  <2>2. stack'[Len(stack')].at = "enter"
    BY <2>1
  <2>3. ~Guest'
    BY <2>2 DEF Guest, Top, RuntimeAssumption
  <2> QED
    BY <2>1, <2>3, SteadyCode DEF Checked, procVars, Loading
<1>6. CASE EndSession
  <2>1. ~Guest' /\ (Release \/ UNCHANGED <<procVars, codeVars>>)
    BY <1>6 DEF EndSession, Guest, On
  <2> QED
    BY <2>1, ReleaseCode, SteadyCode DEF Checked, procVars, Loading
<1> QED
  BY <1>2, <1>3, <1>4, <1>5, <1>6 DEF Command


\* Guest code runs, writes code, makes a system call or stops.
LEMMA GuestCode == IInv /\ CodeInv /\ (ExecuteEnter \/ GuestStep) => CodeInv'
<1> SUFFICES ASSUME IInv, CodeInv, ExecuteEnter \/ GuestStep PROVE CodeInv'
  OBVIOUS
<1>1. On("execute")
  BY DEF ExecuteEnter, GuestStep, GuestGoto, GuestFence, GuestStore, GuestFault, GuestHalt,
         GuestSyscall, Guest
<1>2. taskState = "none" /\ Below \in Seq(Frame) /\ Answering(Below) /\ ~Loading
  BY <1>1, GuestFacts DEF Loading
<1>3. GuestStep => ~xInvalid
  BY DEF CodeInv, Checked, GuestStep, GuestGoto, GuestFence, GuestStore, GuestFault, GuestHalt,
         GuestSyscall
<1>4. CASE ExecuteEnter
  <2>1. CASE xInvalid
    BY <1>2, <1>4, <2>1, FlushedCode, RetranslateCode DEF ExecuteEnter
  <2>2. CASE ~xInvalid
    BY <1>1, <1>4, <2>2, GotoCode DEF ExecuteEnter
  <2> QED
    BY <2>1, <2>2
<1>5. CASE GuestGoto
  BY <1>1, <1>3, <1>5, GotoCode DEF GuestGoto, GuestStep
<1>6. CASE GuestFence
  BY <1>2, <1>6, FlushedCode, RetranslateCode DEF GuestFence
<1>7. CASE GuestStore
  <2>1. CASE DetectWrites
    BY <1>2, <1>7, <2>1, FlushedCode, RetranslateCode DEF GuestStore
  <2>2. CASE ~DetectWrites
    <3>1. unsynced' = TRUE /\ UNCHANGED <<procVars, xInvalid>>
      BY <1>7, <2>2 DEF GuestStore
    <3>2. ~Loading' /\ ~xInvalid'
      BY <1>2, <1>3, <1>7, <3>1 DEF GuestStep, Loading, procVars
    <3> QED
      BY <3>1, <3>2 DEF CodeInv, LinksKept, Current, Checked
  <2> QED
    BY <2>1, <2>2
<1>8. CASE GuestFault
  <2>1. UNCHANGED <<procVars, codeVars>> /\ stack' \in Unwound(Below)
    BY <1>8 DEF GuestFault, Abort
  <2>2. ~Guest'
    BY <1>2, <2>1, UnwoundAnswers, AnsweringNoGuest
  <2> QED
    BY <2>1, <2>2, SteadyCode DEF Checked, Loading, procVars
<1>9. CASE GuestHalt
  <2>1. UNCHANGED <<procVars, codeVars>> /\ stack' = Below
    BY <1>9 DEF GuestHalt
  <2>2. Answering(stack')
    BY <1>2, <2>1
  <2> QED
    BY <2>1, <2>2, AnsweringNoGuest, SteadyCode DEF Checked, Loading, procVars
<1>10. CASE GuestSyscall
  <2>1. UNCHANGED <<procVars, codeVars>> /\ UNCHANGED xInvalid
    BY <1>10 DEF GuestSyscall, codeVars
  <2> QED
    BY <1>3, <1>10, <2>1, SteadyCode DEF GuestStep, Checked, Loading, procVars
<1> QED
  BY <1>4, <1>5, <1>6, <1>7, <1>8, <1>9, <1>10 DEF GuestStep

\* fWrap returns to guest code only if no code is invalidated.
LEMMA WrapEndCode ==
    ASSUME IInv, CodeInv, On("wrap"), NEW c, WrapEnd(c), c => taskState = "none"
    PROVE  CodeInv'
<1>1. CASE nested - 1 > 0 \/ ~c
  <2>1. /\ stack' = IF Top.inplace THEN Pop(Below) ELSE Below
        /\ UNCHANGED <<procVars, codeVars>>
    BY <1>1 DEF WrapEnd
  <2>2. Answering(stack')
    BY <2>1, WrapFacts
  <2> QED
    BY <2>1, <2>2, AnsweringNoGuest, SteadyCode DEF Checked, Loading, procVars
<1>2. CASE ~(nested - 1 > 0 \/ ~c)
  <2>1. taskState = "none"
    BY <1>2
  <2>2. CASE Top.inplace /\ xInvalid
    <3>1. Flush /\ Retranslate(pAddress, Pop(Below))
      BY <1>2, <2>2 DEF WrapEnd
    <3>2. Pop(Below) \in Seq(Frame)
      BY <2>2, WrapFacts
    <3> QED
      BY <2>1, <3>1, <3>2, FlushedCode, RetranslateCode
  <2>3. CASE ~(Top.inplace /\ xInvalid)
    <3>1. /\ stack' = IF Top.inplace THEN Below ELSE Enter(Below)
          /\ UNCHANGED <<procVars, codeVars>>
      BY <1>2, <2>3 DEF WrapEnd
    <3>2. Checked'
      <4>1. CASE Top.inplace
        BY <2>3, <3>1, <4>1 DEF Checked, codeVars
      <4>2. CASE ~Top.inplace
        <5> DEFINE frame == [fn |-> "execute", proc |-> procId, at |-> "enter"]
        <5>1. Below \in Seq(Frame) /\ procId \in Nat
          BY WrapFacts DEF IInv, TypeOK
        <5>2. frame \in Frame /\ frame.at = "enter"
          BY <5>1 DEF Frame, ExecuteFrame
        <5>3. stack' = Append(Below, frame)
          BY <3>1, <4>2 DEF Enter
        <5> HIDE DEF frame
        <5>4. stack'[Len(stack')].at = "enter"
          BY <5>1, <5>2, <5>3, PushSeq
        <5> QED
          BY <5>4, RuntimeAssumption DEF Checked, Guest, Top, RuntimeAssumption
      <4> QED
        BY <4>1, <4>2
    <3> QED
      BY <3>1, <3>2, SteadyCode DEF Loading, procVars
  <2> QED
    BY <2>2, <2>3
<1> QED
  BY <1>1, <1>2

\* System calls change code, but never while a block is loaded.
LEMMA SyscallCode == IInv /\ CodeInv /\ SyscallStep => CodeInv'
<1> SUFFICES ASSUME IInv, CodeInv, SyscallStep PROVE CodeInv'
  OBVIOUS
<1>1. On("wrap")
  BY DEF SyscallStep, BodyReturn, CallIncomplete, BodyIssue, BodyChangeCode, BodyExit, BodyFatal, Body
<1>2. Body => taskState = "none" /\ ~Loading
  BY DEF IInv, TaskInv, Loading
<1>3. Top.inplace \in BOOLEAN /\ Below \in Seq(Frame) /\ procId \in Nat /\ taskStamp \in Nat
  BY <1>1, WrapFacts DEF IInv, TypeOK
<1>4. CASE BodyReturn
  BY <1>1, <1>2, <1>4, WrapEndCode DEF BodyReturn
<1>5. CASE CallIncomplete
  <2>1. completed => taskState = "none"
    <3>1. Wraps(stack)
      <4>1. stack \in Seq(Frame) /\ stack # <<>>
        BY <1>1, RunningFacts
      <4>2. Len(stack) \in 1 .. Len(stack) /\ stack[Len(stack)].fn = "wrap"
        BY <1>1, <4>1 DEF On, Top
      <4> QED
        BY <4>2 DEF Wraps
    <3> QED
      BY <3>1 DEF IInv, TaskInv
  <2> QED
    BY <1>1, <1>5, <2>1, WrapEndCode DEF CallIncomplete
<1>6. CASE BodyIssue
  <2> DEFINE base == Append(Below, [Top EXCEPT !.at = "issued"])
  <2>1. StartTask("syscall", base, pending) /\ UNCHANGED <<exports, links, codeVars>>
    BY <1>2, <1>6 DEF BodyIssue
  <2>2. [Top EXCEPT !.at = "issued"] \in Frame
    BY <1>1, WrapFacts DEF Frame, WrapFrame
  <2>3. base \in Seq(Frame)
    BY <1>3, <2>2, PushSeq
  <2> HIDE DEF base
  <2>4. Answering(stack') /\ taskCall' = "syscall"
    BY <1>3, <2>1, <2>3, IssuedAnswers
  <2> QED
    BY <2>1, <2>4, AnsweringNoGuest, SteadyCode DEF Checked, Loading
<1>7. CASE BodyChangeCode
  <2>1. /\ unsynced' = TRUE \/ xInvalid' = TRUE
        /\ UNCHANGED <<procVars, stack>>
    BY <1>7 DEF BodyChangeCode
  <2>2. ~Loading' /\ ~Guest'
    BY <1>1, <1>2, <1>7, <2>1 DEF BodyChangeCode, Loading, procVars, Guest, On, Top
  <2> QED
    BY <2>1, <2>2 DEF CodeInv, LinksKept, Current, Checked
<1>8. CASE BodyExit
  <2>1. Release /\ stack' = Pop(Below) /\ Top.inplace
    BY <1>8 DEF BodyExit, Shutdown
  <2>2. Answering(stack')
    BY <1>1, <2>1, WrapFacts
  <2> QED
    BY <2>1, <2>2, AnsweringNoGuest, ReleaseCode
<1>9. CASE BodyFatal
  <2>1. UNCHANGED <<procVars, codeVars>> /\ stack' \in Unwound(Below)
    BY <1>9 DEF BodyFatal, Abort
  <2>2. ~Guest'
    BY <1>3, <2>1, UnwoundAnswers, AnsweringNoGuest
  <2> QED
    BY <2>1, <2>2, SteadyCode DEF Checked, Loading, procVars
<1> QED
  BY <1>4, <1>5, <1>6, <1>7, <1>8, <1>9 DEF SyscallStep

\* Returning from a call that waited for the host runs no guest code.
LEMMA ReturnCode == IInv /\ CodeInv /\ ReturnStep => CodeInv'
<1> SUFFICES ASSUME IInv, CodeInv, ReturnStep PROVE CodeInv'
  OBVIOUS
<1>1. /\ stack # <<>> /\ stack[Len(stack)].fn \in {"task", "block", "create"}
      /\ stack' = Below
  BY DEF ReturnStep, TaskReturn, BlockReturn, CreateReturn, On, Top
<1>2. stack \in Seq(Frame) /\ nested \in Nat /\ StackOK(stack, nested, alive, procId)
  BY StackInvOK DEF IInv, TypeOK
<1>3. stack' # <<>> => \/ stack'[Len(stack')].fn \in {"create", "block", "task"}
                       \/ stack'[Len(stack')].fn = "wrap" /\ stack'[Len(stack')].at = "issued"
  BY <1>1, <1>2, UnderReturn DEF Below
<1>4. ~Guest'
  BY <1>3 DEF Guest, On, Top
<1>5. UNCHANGED <<exports, links, codeVars, taskCall>> /\ (taskState' = "none" <=> taskState = "none")
  BY DEF ReturnStep, TaskReturn, BlockReturn, CreateReturn, procVars
<1> QED
  BY <1>4, <1>5, SteadyCode DEF Checked, Loading

\* The host answers: the only answers that touch code are those which load it.
LEMMA TaskCompletedCode ==
    ASSUME IInv, CodeInv, Answering(stack), NEW t \in pending, TaskCompleted(t)
    PROVE  CodeInv'
<1> DEFINE rest == pending \ {t}
<1>1. ~Guest
  BY DEF Answering, Guest, On, Top
<1>2. stack \in Seq(Frame) /\ procId \in Nat /\ taskStamp \in Nat
  BY DEF IInv, TypeOK
<1>3. ASSUME ~Guest', UNCHANGED <<exports, links, codeVars>>, Loading' => Loading PROVE CodeInv'
  BY <1>3, SteadyCode DEF Checked
<1>4. CASE ~Live(t.proc)
  BY <1>1, <1>3, <1>4 DEF TaskCompleted, procVars, Loading, Guest, On, Top
<1>5. CASE Live(t.proc)
  <2>1. t.kind = taskCall /\ taskState # "none"
    BY <1>5 DEF IInv, TaskInv, CallbackMatches, Outstanding
  <2>2. ASSUME Shutdown(stack, rest) PROVE CodeInv'
    <3>1. Release /\ ~Guest'
      BY <1>1, <2>2 DEF Shutdown, Guest, On, Top
    <3> QED
      BY <3>1, ReleaseCode
  <2>3. ASSUME NEW kind \in {"resolve", "read"}, StartTask(kind, stack, rest),
               UNCHANGED <<exports, links, codeVars>>
        PROVE  CodeInv'
    <3>1. Answering(stack') /\ taskCall' = kind
      BY <1>2, <2>3, IssuedAnswers
    <3> QED
      BY <1>3, <2>3, <3>1, AnsweringNoGuest DEF Loading
  <2>4. CASE taskCall = "core" /\ CoreLoaded(rest)
    BY <2>2, <2>3, <2>4 DEF CoreLoaded
  <2>5. CASE taskCall = "resolve" /\ Resolved(rest)
    BY <2>2, <2>3, <2>5 DEF Resolved
  <2>6. CASE taskCall = "read" /\ BinaryLoaded(rest)
    <3>1. CASE /\ xInvalid' \in {xInvalid, TRUE} /\ UNCHANGED <<mapping, codeVer, unsynced>>
               /\ LoadBlock(stack, rest, "none")
      <4>1. ~unsynced' /\ ~xInvalid' => \A a \in DOMAIN mapping' : mapping'[a] = codeVer'
        <5>1. ~xInvalid' => ~xInvalid
          BY <3>1, Zenon
        <5>2. UNCHANGED <<mapping, codeVer, unsynced>>
          BY <3>1
        <5> QED
          BY <5>1, <5>2 DEF CodeInv, Current
      <4> QED
        BY <1>2, <3>1, <4>1, LoadBlockCode
    <3> QED
      BY <2>2, <2>3, <2>6, <3>1 DEF BinaryLoaded
  <2>7. CASE taskCall = "block" /\ BlockLoaded(rest)
    <3>1. Loading
      BY <2>1, <2>7 DEF Loading
    <3>2. ~Loading' /\ UNCHANGED <<codeVer, xInvalid, unsynced>>
      BY <2>7 DEF BlockLoaded, Loading
    <3>3. PICK s \in SUBSET DOMAIN exports :
            mapping' = [a \in DOMAIN mapping \union s |->
                           IF a \in DOMAIN mapping THEN mapping[a] ELSE exports[a]]
      BY <2>7 DEF BlockLoaded
    <3>4. Current'
      BY <3>1, <3>2, <3>3 DEF CodeInv, Current
    <3>5. ~Guest'
      <4>1. CASE stack' = Enter(stack)
        <5> DEFINE frame == [fn |-> "execute", proc |-> procId, at |-> "enter"]
        <5>1. frame \in Frame /\ frame.at = "enter"
          BY <1>2 DEF Frame, ExecuteFrame
        <5>2. stack' = Append(stack, frame)
          BY <4>1 DEF Enter
        <5> HIDE DEF frame
        <5>3. stack'[Len(stack')].at = "enter"
          BY <1>2, <5>1, <5>2, PushSeq
        <5> QED
          BY <5>3, RuntimeAssumption DEF Guest, Top, RuntimeAssumption
      <4>2. CASE stack' \in Unwound(stack)
        BY <1>2, <4>2, UnwoundAnswers, AnsweringNoGuest
      <4> QED
        BY <2>7, <4>1, <4>2 DEF BlockLoaded, Abort
    <3> QED
      BY <3>2, <3>4, <3>5 DEF CodeInv, LinksKept, Checked
  <2>8. CASE taskCall = "syscall" /\ CallContinue(rest)
    <3> DEFINE frame == [fn |-> "wrap", proc |-> procId, inplace |-> FALSE,
                         at |-> "body", level |-> nested + 1]
    <3>1. /\ stack' = Append(stack, frame) /\ taskState' = "none"
          /\ UNCHANGED <<exports, links, codeVars>>
      BY <2>8 DEF CallContinue
    <3>2. frame \in Frame /\ frame.fn = "wrap"
      BY <1>2 DEF Frame, WrapFrame, IInv, TypeOK
    <3> HIDE DEF frame
    <3>3. stack'[Len(stack')].fn = "wrap"
      BY <1>2, <3>1, <3>2, PushSeq
    <3> QED
      BY <1>3, <3>1, <3>3 DEF Loading, Guest, On, Top
  <2> QED
    BY <1>5, <2>4, <2>5, <2>6, <2>7, <2>8 DEF TaskCompleted
<1> QED
  BY <1>4, <1>5

\* Every step keeps the relation of the code to its translations.
LEMMA NextCode == RuntimeAssumption /\ IInv /\ CodeInv /\ [Next]_vars => CodeInv'
<1> SUFFICES ASSUME RuntimeAssumption, IInv, CodeInv, [Next]_vars PROVE CodeInv'
  OBVIOUS
<1>1. CASE Command \/ EndSession
  BY <1>1, CommandCode
<1>2. CASE ExecuteEnter \/ GuestStep
  BY <1>2, GuestCode
<1>3. CASE SyscallStep
  BY <1>3, SyscallCode
<1>4. CASE ReturnStep
  BY <1>4, ReturnCode
<1>5. CASE HostInplace
  <2>1. Answering(stack) /\ \E t \in pending : TaskCompleted(t)
    BY <1>5 DEF HostInplace, On, Top, Answering
  <2> QED
    BY <2>1, TaskCompletedCode
<1>6. CASE HostAsync
  <2>1. Answering(stack) /\ \E t \in pending : TaskCompleted(t)
    BY <1>6 DEF HostAsync, Answering
  <2> QED
    BY <2>1, TaskCompletedCode
<1>7. CASE HostDrops \/ UNCHANGED vars \/ NoMoreCommands
  <2>1. UNCHANGED <<procVars, codeVars, stack>>
    BY <1>7 DEF HostDrops, NoMoreCommands, vars
  <2> QED
    BY <2>1, SteadyCode DEF CodeInv, Checked, Loading, procVars, codeVars, Guest, On, Top
<1> QED
  BY <1>1, <1>2, <1>3, <1>4, <1>5, <1>6, <1>7 DEF Next, HostStep

\* The relation of the code to its translations holds in every state.
THEOREM CodeInvariance == Spec => []CodeInv
<1>1. Init => CodeInv
  <2> SUFFICES ASSUME Init PROVE CodeInv
    OBVIOUS
  <2>1. taskState = "none" /\ mapping = NoCode /\ ~xInvalid
    BY DEF Init
  <2>2. DOMAIN mapping = {}
    BY <2>1 DEF NoCode
  <2> QED
    BY <2>1, <2>2 DEF CodeInv, LinksKept, Current, Checked, Loading
<1>2. RuntimeAssumption /\ IInv /\ CodeInv /\ [Next]_vars => CodeInv'
  BY NextCode
<1> QED
  BY <1>1, <1>2, RuntimeAssumption, Invariance, PTL DEF Spec

\* Whatever the guest writes, unmaps or protects, and wherever the host answers, guest code
\* runs on translations of the code as it is, up to changes FENCE.I is needed for.
THEOREM CodeCurrent == Spec => []FreshCode
<1>1. CodeInv => FreshCode
  BY DEF CodeInv, Current, Checked, FreshCode
<1> QED
  BY <1>1, CodeInvariance, PTL

\* A module is instantiated with all blocks it links to, and defines none that exists.
THEOREM LinksFound == Spec => []LinksResolve
<1>1. ASSUME IInv, CodeInv PROVE LinksResolve
  <2> SUFFICES ASSUME NEW t \in Outstanding, t.kind = "block"
               PROVE  /\ links \subseteq DOMAIN mapping
                      /\ DOMAIN exports \intersect DOMAIN mapping = {}
    BY DEF LinksResolve
  <2>1. Loading
    BY <1>1 DEF IInv, TaskInv, CallbackMatches, Loading
  <2> QED
    BY <1>1, <2>1 DEF CodeInv, LinksKept
<1> QED
  BY <1>1, CodeInvariance, Invariance, PTL

-----------------------------------------------------------------------------
(***************************************************************************)
(* Proofs about the results of system calls.  pCurrent.nested alone tells  *)
(* fWrap whether it is the outermost wrapper, and it is wrong after a      *)
(* fatal error, which does not lower it.  So the invariant says that it    *)
(* counts the wrappers exactly while a result is owed, and that a result   *)
(* which is owed is on its way: with the callback that runs, with the task *)
(* the process waits for, or with a wrapper further out.                   *)
(***************************************************************************)

\* The wrappers of s have the levels 1 .. n.
Exact(s, n) ==
    \A k \in 1 .. n : \E i \in 1 .. Len(s) : s[i].fn = "wrap" /\ s[i].level = k

Waits == taskState # "none" /\ taskCall = "syscall"

\* Who holds the result, and that nobody else does.
Answered ==
    /\ owed \in {0, 1}
    /\ On("execute") => owed = 0
    /\ taskState # "none" => (owed = 1 <=> taskCall = "syscall")
    /\ Body => owed = 1
    /\ completed /\ Wraps(stack) => owed = 1

Owing ==
    owed = 1 => Exact(stack, nested) /\ (Waits \/ Body \/ (completed /\ Wraps(stack)))

\* The host still works on the task of a system call.
Wakes == Waits => \E t \in pending : t.proc = procId

AnswerInv == Answered /\ Owing /\ Wakes

-----------------------------------------------------------------------------
(* Stacks. *)

\* Wrappers survive exactly if the part of the stack that is cut off has none.
LEMMA ExactPrefix ==
    ASSUME NEW s \in Seq(Frame), s # <<>>, s[Len(s)].fn # "wrap", NEW n
    PROVE  Exact(Pop(s), n) <=> Exact(s, n)
<1>1. /\ Len(s) \in Nat /\ Len(s) >= 1 /\ Pop(s) \in Seq(Frame) /\ Len(Pop(s)) = Len(s) - 1
      /\ \A i \in 1 .. (Len(s) - 1) : Pop(s)[i] = s[i]
  BY PopSeq
<1>2. ASSUME Exact(Pop(s), n) PROVE Exact(s, n)
  BY <1>1, <1>2 DEF Exact
<1>3. ASSUME Exact(s, n), NEW k \in 1 .. n
      PROVE  \E i \in 1 .. Len(Pop(s)) : Pop(s)[i].fn = "wrap" /\ Pop(s)[i].level = k
  <2>1. PICK i \in 1 .. Len(s) : s[i].fn = "wrap" /\ s[i].level = k
    BY <1>3 DEF Exact
  <2>2. i # Len(s)
    BY <2>1
  <2>3. i \in 1 .. (Len(s) - 1)
    BY <1>1, <2>2
  <2> QED
    BY <1>1, <2>1, <2>3
<1> QED
  BY <1>2, <1>3 DEF Exact

\* A call of something else than fWrap does not count.
LEMMA ExactPush ==
    ASSUME NEW s \in Seq(Frame), NEW f \in Frame, NEW n, Exact(s, n)
    PROVE  Exact(Append(s, f), n)
<1>1. /\ Len(s) \in Nat /\ Len(Append(s, f)) = Len(s) + 1
      /\ \A i \in 1 .. Len(s) : Append(s, f)[i] = s[i]
  BY PushSeq
<1>2. ASSUME NEW k \in 1 .. n
      PROVE  \E i \in 1 .. Len(Append(s, f)) :
                Append(s, f)[i].fn = "wrap" /\ Append(s, f)[i].level = k
  <2>1. PICK i \in 1 .. Len(s) : s[i].fn = "wrap" /\ s[i].level = k
    BY <1>2 DEF Exact
  <2> QED
    BY <1>1, <2>1
<1> QED
  BY <1>2 DEF Exact

\* A call of fWrap counts one more.
LEMMA ExactCall ==
    ASSUME NEW s \in Seq(Frame), NEW f \in Frame, NEW n \in Nat, Exact(s, n),
           f.fn = "wrap", f.level = n + 1
    PROVE  Exact(Append(s, f), n + 1)
<1>1. /\ Len(s) \in Nat /\ Len(Append(s, f)) = Len(s) + 1 /\ Append(s, f)[Len(s) + 1] = f
      /\ \A i \in 1 .. Len(s) : Append(s, f)[i] = s[i]
  BY PushSeq
<1>2. ASSUME NEW k \in 1 .. (n + 1)
      PROVE  \E i \in 1 .. Len(Append(s, f)) :
                Append(s, f)[i].fn = "wrap" /\ Append(s, f)[i].level = k
  <2>1. CASE k = n + 1
    <3>1. Len(s) + 1 \in 1 .. Len(Append(s, f))
      BY <1>1
    <3> QED
      BY <1>1, <2>1, <3>1
  <2>2. CASE k # n + 1
    <3>1. k \in 1 .. n
      BY <2>2
    <3>2. PICK i \in 1 .. Len(s) : s[i].fn = "wrap" /\ s[i].level = k
      BY <3>1 DEF Exact
    <3> QED
      BY <1>1, <3>2
  <2> QED
    BY <2>1, <2>2
<1> QED
  BY <1>2 DEF Exact

\* The innermost wrapper has the highest level, so the others count exactly without it.
LEMMA ExactReturn ==
    ASSUME NEW s \in Seq(Frame), s # <<>>, s[Len(s)].fn = "wrap", NEW n \in Nat,
           Levels(s, n), Exact(s, n)
    PROVE  Exact(Pop(s), n - 1)
<1>1. /\ Len(s) \in Nat /\ Len(s) >= 1 /\ Pop(s) \in Seq(Frame) /\ Len(Pop(s)) = Len(s) - 1
      /\ \A i \in 1 .. (Len(s) - 1) : Pop(s)[i] = s[i]
  BY PopSeq
<1>2. \A i \in 1 .. Len(s) : s[i].fn = "wrap" => s[i].level \in Nat
  <2>1. \A i \in 1 .. Len(s) : s[i] \in Frame
    OBVIOUS
  <2> QED
    BY <2>1, FrameKinds DEF WrapFrame
<1>3. /\ s[Len(s)].level \in Nat /\ 1 <= s[Len(s)].level /\ s[Len(s)].level <= n
      /\ \A i \in 1 .. (Len(s) - 1) : s[i].fn = "wrap" => s[i].level < s[Len(s)].level
  <2>1. Len(s) \in 1 .. Len(s)
    BY <1>1
  <2> QED
    BY <1>2, <2>1 DEF Levels
<1>4. s[Len(s)].level = n
  <2>1. n \in 1 .. n
    BY <1>3
  <2>2. PICK i \in 1 .. Len(s) : s[i].fn = "wrap" /\ s[i].level = n
    BY <2>1 DEF Exact
  <2>3. CASE i = Len(s)
    BY <2>2, <2>3
  <2>4. CASE i # Len(s)
    <3>1. i \in 1 .. (Len(s) - 1)
      BY <1>1, <2>4
    <3>2. n < s[Len(s)].level
      BY <1>3, <2>2, <3>1
    <3> QED
      BY <1>3, <3>2
  <2> QED
    BY <2>3, <2>4
<1>5. ASSUME NEW k \in 1 .. (n - 1)
      PROVE  \E i \in 1 .. Len(Pop(s)) : Pop(s)[i].fn = "wrap" /\ Pop(s)[i].level = k
  <2>1. k \in 1 .. n /\ k # n
    BY <1>5
  <2>2. PICK i \in 1 .. Len(s) : s[i].fn = "wrap" /\ s[i].level = k
    BY <2>1 DEF Exact
  <2>3. i # Len(s)
    BY <1>4, <2>1, <2>2
  <2>4. i \in 1 .. (Len(s) - 1)
    BY <1>1, <2>3
  <2> QED
    BY <1>1, <2>2, <2>4
<1> QED
  BY <1>5 DEF Exact

\* Where something is counted, there is a wrapper.
LEMMA ExactWraps ==
    ASSUME NEW s \in Seq(Frame), NEW n \in Nat, Exact(s, n), n > 0 PROVE Wraps(s)
<1>1. 1 \in 1 .. n
  OBVIOUS
<1> QED
  BY <1>1 DEF Exact, Wraps

\* The innermost activation replaced by one of the same kind and level.
LEMMA ExactReplace ==
    ASSUME NEW s \in Seq(Frame), s # <<>>, NEW f \in Frame, NEW n, Exact(s, n),
           s[Len(s)].fn = "wrap", f.fn = "wrap", f.level = s[Len(s)].level
    PROVE  Exact(Append(Pop(s), f), n)
<1> DEFINE c == Append(Pop(s), f)
<1>1. /\ Len(s) \in Nat /\ Len(s) >= 1 /\ Pop(s) \in Seq(Frame) /\ Len(Pop(s)) = Len(s) - 1
      /\ \A i \in 1 .. (Len(s) - 1) : Pop(s)[i] = s[i]
  BY PopSeq
<1>2. /\ Len(c) = Len(s) /\ c[Len(s)] = f
      /\ \A i \in 1 .. (Len(s) - 1) : c[i] = s[i]
  <2>1. /\ Len(c) = Len(Pop(s)) + 1 /\ c[Len(Pop(s)) + 1] = f
        /\ \A i \in 1 .. Len(Pop(s)) : c[i] = Pop(s)[i]
    BY <1>1, PushSeq
  <2> HIDE DEF c
  <2> QED
    BY <1>1, <2>1
<1> HIDE DEF c
<1>3. ASSUME NEW k \in 1 .. n PROVE \E i \in 1 .. Len(c) : c[i].fn = "wrap" /\ c[i].level = k
  <2>1. PICK i \in 1 .. Len(s) : s[i].fn = "wrap" /\ s[i].level = k
    BY <1>3 DEF Exact
  <2>2. c[i].fn = "wrap" /\ c[i].level = k
    <3>1. CASE i = Len(s)
      BY <1>2, <2>1, <3>1
    <3>2. CASE i # Len(s)
      <4>1. i \in 1 .. (Len(s) - 1)
        BY <1>1, <3>2
      <4> QED
        BY <1>2, <2>1, <4>1
    <3> QED
      BY <3>1, <3>2
  <2> QED
    BY <1>2, <2>2
<1>4. Exact(c, n)
  BY <1>3 DEF Exact
<1> QED
  BY <1>4 DEF c

\* The wrappers of a stack whose innermost activation is another.
LEMMA WrapsPop ==
    ASSUME NEW s \in Seq(Frame), s # <<>>, s[Len(s)].fn # "wrap"
    PROVE  Wraps(Pop(s)) <=> Wraps(s)
<1>1. /\ Len(s) \in Nat /\ Len(s) >= 1 /\ Len(Pop(s)) = Len(s) - 1
      /\ \A i \in 1 .. (Len(s) - 1) : Pop(s)[i] = s[i]
  BY PopSeq
<1>2. ASSUME NEW i \in 1 .. Len(s), s[i].fn = "wrap" PROVE i \in 1 .. (Len(s) - 1)
  <2>1. i # Len(s)
    BY <1>2
  <2> QED
    BY <1>1, <2>1
<1> QED
  BY <1>1, <1>2 DEF Wraps

\* A FatalException adds no wrapper.
LEMMA UnwoundWraps ==
    ASSUME NEW s \in Seq(Frame), NEW u \in Unwound(s)
    PROVE  u \in Seq(Frame) /\ (Wraps(u) => Wraps(s))
<1>1. PICK k \in 0 .. Len(s) : u = SubSeq(s, 1, k)
  BY DEF Unwound
<1>2. u \in Seq(Frame) /\ Len(u) = k /\ \A i \in 1 .. k : u[i] = s[i]
  BY <1>1, CutSeq
<1> QED
  BY <1>2 DEF Wraps

\* The wrapper that runs is on the stack.
LEMMA TopWraps ==
    ASSUME stack \in Seq(Frame), On("wrap") PROVE Wraps(stack)
<1>1. Len(stack) \in 1 .. Len(stack) /\ stack[Len(stack)].fn = "wrap"
  BY DEF On, Top
<1> QED
  BY <1>1 DEF Wraps

-----------------------------------------------------------------------------
(* Operations several actions share. *)

\* Nothing is owed, and nothing is left of a system call.
LEMMA NothingOwed ==
    ASSUME owed' = 0, ~Body', completed' => ~Wraps(stack'),
           taskState' # "none" => taskCall' # "syscall"
    PROVE  AnswerInv'
  BY DEF AnswerInv, Answered, Owing, Wakes, Waits

\* No wrapper, nothing owed.
LEMMA PlainAnswer ==
    ASSUME owed' = 0, stack' \in Seq(Frame), ~Wraps(stack'),
           taskState' # "none" => taskCall' # "syscall"
    PROVE  AnswerInv'
<1>1. ~Body'
  <2> SUFFICES ASSUME Body' PROVE FALSE
    OBVIOUS
  <2>1. Len(stack') \in 1 .. Len(stack') /\ stack'[Len(stack')].fn = "wrap"
    BY DEF Body, On, Top
  <2> QED
    BY <2>1 DEF Wraps
<1> QED
  BY <1>1, NothingOwed

\* shutdown forgets the call.
LEMMA ReleaseAnswer ==
    ASSUME Release, ~Body' PROVE AnswerInv'
<1>1. owed' = 0 /\ completed' = FALSE /\ taskState' = "none"
  BY DEF Release
<1> QED
  BY <1>1, NothingOwed

\* A step that touches neither calls nor tasks.
LEMMA SteadyAnswer ==
    ASSUME AnswerInv, UNCHANGED <<procId, taskState, taskCall, callVars, stack>>,
           pending \subseteq pending'
    PROVE  AnswerInv'
  BY DEF AnswerInv, Answered, Owing, Wakes, Waits, callVars, On, Body, Top

\* A task that is no system call is started.
LEMMA StartAnswer ==
    ASSUME IInv, NEW kind \in TaskKind \ {"syscall"}, NEW base \in Seq(Frame), ~Wraps(base),
           NEW rest, StartTask(kind, base, rest), owed' = 0
    PROVE  AnswerInv'
<1> DEFINE frame == [fn |-> "task", proc |-> procId, stamp |-> taskStamp + 1]
<1>1. stack' = Append(base, frame) /\ taskCall' = kind
  BY DEF StartTask
<1>2. frame \in Frame /\ frame.fn = "task"
  BY DEF Frame, TaskFrame, IInv, TypeOK
<1> HIDE DEF frame
<1>3. stack' \in Seq(Frame) /\ ~Wraps(stack')
  BY <1>1, <1>2, PushSeq, WrapsPush
<1> QED
  BY <1>1, <1>3, PlainAnswer

\* fLoadBlock, called while nothing is owed.
LEMMA LoadBlockAnswer ==
    ASSUME IInv, NEW base \in Seq(Frame), ~Wraps(base), NEW rest, LoadBlock(base, rest, "none"),
           owed' = 0
    PROVE  AnswerInv'
<1>1. ASSUME NEW cause, Abort(cause, base), taskState' = "none" PROVE AnswerInv'
  BY <1>1, UnwoundWraps, PlainAnswer DEF Abort
<1>2. CASE StartTask("block", Append(base, [fn |-> "block", proc |-> procId]), rest)
  <2> DEFINE frame == [fn |-> "block", proc |-> procId]
  <2>1. frame \in Frame /\ frame.fn = "block"
    BY DEF Frame, BlockFrame, IInv, TypeOK
  <2>2. Append(base, frame) \in Seq(Frame) /\ ~Wraps(Append(base, frame))
    BY <2>1, PushSeq, WrapsPush
  <2>3. "block" \in TaskKind \ {"syscall"}
    BY DEF TaskKind
  <2> QED
    BY <1>2, <2>2, <2>3, StartAnswer
<1> QED
  BY <1>1, <1>2 DEF LoadBlock

\* fExecute starts a translation.
LEMMA RetranslateAnswer ==
    ASSUME IInv, taskState = "none", NEW address, NEW base \in Seq(Frame), Plain(base),
           Retranslate(address, base), owed' = 0
    PROVE  AnswerInv'
<1>1. LoadBlock(base, pending, "none") /\ ~Wraps(base)
  BY DEF Retranslate, Plain, Wraps
<1> QED
  BY <1>1, LoadBlockAnswer

-----------------------------------------------------------------------------
(* The actions. *)

\* Commands come while nothing runs and nothing is owed.
LEMMA CommandAnswer == IInv /\ AnswerInv /\ (Command \/ EndSession) => AnswerInv'
<1> SUFFICES ASSUME IInv, AnswerInv, Command \/ EndSession PROVE AnswerInv'
  OBVIOUS
<1>1. ASSUME stack = <<>> PROVE ~Body /\ ~Wraps(stack) /\ ~On("execute")
  BY <1>1 DEF Body, On, Wraps
<1>2. ASSUME stack = <<>>, taskState = "none" PROVE owed = 0
  BY <1>1, <1>2 DEF AnswerInv, Answered, Owing, Waits
<1>3. ASSUME NEW debug, Create(debug) PROVE AnswerInv'
  <2>1. stack = <<>> /\ taskState = "none" /\ procId \in Nat /\ UNCHANGED callVars
    BY <1>3 DEF Create, Idle, IInv, HostInv, TypeOK
  <2>2. owed' = 0
    BY <1>2, <2>1 DEF callVars
  <2>3. CASE UNCHANGED <<taskState, stack>>
    BY <1>1, <2>1, <2>2, <2>3, PlainAnswer DEF IInv, TypeOK
  <2>4. CASE taskCall' = "core" /\ stack' = <<[fn |-> "create", proc |-> procId + 1, debug |-> debug],
                                             [fn |-> "task", proc |-> procId + 1, stamp |-> 1]>>
    <3>1. ~Wraps(stack')
      BY <2>4 DEF Wraps
    <3>2. ~Body'
      <4>1. stack'[Len(stack')].fn = "task"
        BY <2>4
      <4> QED
        BY <4>1 DEF Body, On, Top
    <3> QED
      BY <2>2, <2>4, <3>1, <3>2, NothingOwed
  <2> QED
    BY <1>3, <2>3, <2>4 DEF Create
<1>4. CASE HandleStart
  BY <1>3, <1>4 DEF HandleStart
<1>5. CASE ExecuteStart
  <2>1. CASE UNCHANGED <<procId, procVars, callVars, stack, pending>>
    BY <2>1, SteadyAnswer DEF procVars
  <2> QED
    BY <1>3, <1>5, <2>1 DEF ExecuteStart
<1>6. CASE HandleDestroy
  <2>1. Release /\ stack' = <<>>
    BY <1>6 DEF HandleDestroy, Idle
  <2> QED
    BY <2>1, ReleaseAnswer DEF Body, On
<1>7. CASE HandleRun
  <2>1. /\ stack = <<>> /\ taskState = "none" /\ UNCHANGED <<procVars, callVars>>
        /\ stack' = <<[fn |-> "execute", proc |-> debugger', at |-> "enter"]>>
    BY <1>7 DEF HandleRun, Idle, IInv, HostInv
  <2>2. owed' = 0
    BY <1>2, <2>1 DEF callVars
  <2>3. ~Wraps(stack')
    BY <2>1 DEF Wraps
  <2>4. ~Body'
    <3>1. stack'[Len(stack')].fn = "execute"
      BY <2>1
    <3> QED
      BY <3>1 DEF Body, On, Top
  <2> QED
    BY <2>1, <2>2, <2>3, <2>4, NothingOwed DEF procVars
<1>8. CASE EndSession
  <2>1. stack' = <<>> /\ UNCHANGED <<procId, stack, pending>>
    BY <1>8 DEF EndSession
  <2>2. CASE Release
    BY <2>1, <2>2, ReleaseAnswer DEF Body, On
  <2>3. CASE UNCHANGED <<procVars, callVars>>
    BY <2>1, <2>3, SteadyAnswer DEF procVars
  <2> QED
    BY <1>8, <2>2, <2>3 DEF EndSession
<1> QED
  BY <1>4, <1>5, <1>6, <1>7, <1>8 DEF Command

\* Guest code owes nothing until it makes a system call.
LEMMA GuestAnswer == IInv /\ AnswerInv /\ (ExecuteEnter \/ GuestStep) => AnswerInv'
<1> SUFFICES ASSUME IInv, AnswerInv, ExecuteEnter \/ GuestStep PROVE AnswerInv'
  OBVIOUS
<1>1. On("execute")
  BY DEF ExecuteEnter, GuestStep, GuestGoto, GuestFence, GuestStore, GuestFault, GuestHalt,
         GuestSyscall, Guest
<1>2. /\ taskState = "none" /\ owed = 0
      /\ Below \in Seq(Frame) /\ Plain(Below) /\ Top \in ExecuteFrame
      /\ stack \in Seq(Frame) /\ stack # <<>> /\ procId \in Nat
  BY <1>1, GuestFacts, RunningFacts DEF AnswerInv, Answered
<1>3. ~Wraps(Below)
  BY <1>2 DEF Plain, Wraps
<1>4. ASSUME NEW address, Retranslate(address, Below), UNCHANGED callVars PROVE AnswerInv'
  BY <1>2, <1>4, RetranslateAnswer DEF callVars
<1>5. ASSUME NEW address \in Addr, Goto(address) PROVE AnswerInv'
  <2>1. CASE address \in DOMAIN mapping
    <3> DEFINE frame == [Top EXCEPT !.at = address]
    <3>1. stack' = Append(Below, frame) /\ UNCHANGED <<procVars, callVars>>
      BY <1>5, <2>1 DEF Goto
    <3>2. frame \in Frame /\ frame.fn = "execute"
      BY <1>2 DEF Frame, ExecuteFrame
    <3> HIDE DEF frame
    <3>3. stack' \in Seq(Frame) /\ ~Wraps(stack')
      BY <1>2, <1>3, <3>1, <3>2, PushSeq, WrapsPush
    <3> QED
      BY <1>2, <3>1, <3>3, PlainAnswer DEF procVars, callVars
  <2>2. CASE address \notin DOMAIN mapping
    BY <1>4, <1>5, <2>2 DEF Goto
  <2> QED
    BY <2>1, <2>2
<1>6. CASE ExecuteEnter
  <2>1. pAddress \in Addr
    BY DEF IInv, TypeOK
  <2> QED
    BY <1>4, <1>5, <1>6, <2>1 DEF ExecuteEnter
<1>7. CASE GuestGoto
  BY <1>5, <1>7 DEF GuestGoto
<1>8. CASE GuestFence
  BY <1>4, <1>8 DEF GuestFence, callVars
<1>9. CASE GuestStore
  <2>1. CASE DetectWrites
    BY <1>4, <1>9, <2>1 DEF GuestStore, callVars
  <2>2. CASE ~DetectWrites
    <3>1. UNCHANGED <<procId, procVars, callVars, stack, pending>>
      BY <1>9, <2>2 DEF GuestStore
    <3> QED
      BY <3>1, SteadyAnswer DEF procVars
  <2> QED
    BY <2>1, <2>2
<1>10. CASE GuestFault
  <2>1. stack' \in Unwound(Below) /\ UNCHANGED <<procVars, callVars>>
    BY <1>10 DEF GuestFault, Abort
  <2> QED
    BY <1>2, <1>3, <2>1, UnwoundWraps, PlainAnswer DEF procVars, callVars
<1>11. CASE GuestHalt
  <2>1. stack' = Below /\ UNCHANGED <<procVars, callVars>>
    BY <1>11 DEF GuestHalt
  <2> QED
    BY <1>2, <1>3, <2>1, PlainAnswer DEF procVars, callVars
<1>12. CASE GuestSyscall
  <2> DEFINE frame == [fn |-> "wrap", proc |-> procId, inplace |-> TRUE,
                       at |-> "body", level |-> 1]
  <2>1. /\ stack' = Append(stack, frame) /\ completed' = FALSE /\ nested' = 1 /\ owed' = 1
        /\ UNCHANGED procVars
    BY <1>2, <1>12 DEF GuestSyscall
  <2>2. frame \in Frame /\ frame.fn = "wrap" /\ frame.level = 1 /\ frame.at = "body"
    BY <1>2 DEF Frame, WrapFrame
  <2> HIDE DEF frame
  <2>3. Exact(stack, 0)
    BY DEF Exact
  <2>4. Exact(stack', 1)
    BY <1>2, <2>1, <2>2, <2>3, ExactCall
  <2>5. stack' # <<>> /\ stack'[Len(stack')] = frame
    BY <1>2, <2>1, <2>2, PushSeq
  <2>6. Body' /\ ~On("execute")'
    BY <2>2, <2>5 DEF Body, On, Top
  <2> QED
    BY <1>2, <2>1, <2>4, <2>6 DEF AnswerInv, Answered, Owing, Wakes, Waits, procVars
<1> QED
  BY <1>6, <1>7, <1>8, <1>9, <1>10, <1>11, <1>12 DEF GuestStep

\* The end of fWrap: the result is written by the outermost wrapper, once the call completed.
LEMMA WrapEndAnswer ==
    ASSUME IInv, AnswerInv, On("wrap"), NEW c \in BOOLEAN, WrapEnd(c),
           c => taskState = "none" /\ owed = 1,
           ~c => ~Body /\ ~completed
    PROVE  AnswerInv'
<1>1. /\ stack \in Seq(Frame) /\ stack # <<>> /\ nested \in Nat /\ Levels(stack, nested)
      /\ stack[Len(stack)].fn = "wrap"
  BY RunningFacts DEF StackOK, On, Top
<1>2. /\ nested - 1 \in Nat /\ Below \in Seq(Frame) /\ Top.inplace \in BOOLEAN
      /\ completed' = c /\ nested' = nested - 1
  BY WrapFacts DEF WrapEnd
<1>3. CASE nested - 1 > 0 \/ ~c
  <2>1. /\ stack' = IF Top.inplace THEN Pop(Below) ELSE Below
        /\ UNCHANGED <<owed, procId, procVars, pending>>
    BY <1>3 DEF WrapEnd
  <2>2. Answering(stack') /\ stack' \in Seq(Frame)
    BY <2>1, WrapFacts
  <2>3. ~On("execute")' /\ ~Body'
    BY <2>2 DEF Answering, On, Body, Top
  <2>4. ASSUME owed = 1 PROVE Exact(stack', nested')
    <3>1. Exact(Below, nested - 1)
      <4>1. Exact(stack, nested)
        BY <2>4 DEF AnswerInv, Owing
      <4> QED
        BY <1>1, <4>1, ExactReturn DEF Below
    <3>2. CASE ~Top.inplace
      BY <1>2, <2>1, <3>1, <3>2
    <3>3. CASE Top.inplace
      <4>1. Below # <<>> /\ Below[Len(Below)].fn # "wrap"
        BY <3>3, WrapFacts
      <4>2. Exact(Pop(Below), nested - 1)
        BY <1>2, <3>1, <4>1, ExactPrefix
      <4> QED
        BY <1>2, <2>1, <3>3, <4>2
    <3> QED
      BY <3>2, <3>3
  <2>5. Answered'
    BY <1>2, <2>1, <2>3 DEF AnswerInv, Answered, procVars
  <2>6. Owing'
    <3> SUFFICES ASSUME owed = 1
                 PROVE  Exact(stack', nested') /\ (Waits' \/ (completed' /\ Wraps(stack')))
      BY <2>1 DEF Owing
    <3>1. CASE c
      <4>1. nested' > 0 /\ nested' \in Nat
        BY <1>2, <1>3, <3>1
      <4>2. Wraps(stack')
        BY <2>2, <2>4, <4>1, ExactWraps
      <4> QED
        BY <1>2, <2>4, <3>1, <4>2
    <3>2. CASE ~c
      <4>1. Waits
        BY <3>2 DEF AnswerInv, Owing
      <4>2. Waits'
        BY <2>1, <4>1 DEF Waits, procVars
      <4> QED
        BY <2>4, <4>2
    <3> QED
      BY <3>1, <3>2
  <2>7. Wakes'
    BY <2>1 DEF AnswerInv, Wakes, Waits, procVars
  <2> QED
    BY <2>5, <2>6, <2>7 DEF AnswerInv
<1>4. CASE ~(nested - 1 > 0 \/ ~c)
  <2>1. taskState = "none" /\ owed' = 0 /\ nested - 1 = 0
    <3>1. c /\ ~(nested - 1 > 0)
      BY <1>4, Zenon
    <3>2. owed' = owed - 1
      BY <3>1, Zenon DEF WrapEnd
    <3>3. taskState = "none" /\ owed = 1
      BY <3>1, Zenon
    <3>4. owed' = 0
      BY <3>2, <3>3
    <3>5. ~(nested - 1 > 0) /\ nested - 1 \in Nat
      BY <1>2, <3>1, Zenon
    <3>6. nested - 1 = 0
      BY <1>1, <3>5
    <3> QED
      BY <3>3, <3>4, <3>6
  <2>2. CASE Top.inplace /\ xInvalid
    <3>1. Retranslate(pAddress, Pop(Below))
      BY <1>4, <2>2 DEF WrapEnd
    <3>2. Pop(Below) \in Seq(Frame) /\ Plain(Pop(Below))
      BY <2>2, WrapFacts
    <3> QED
      BY <2>1, <3>1, <3>2, RetranslateAnswer
  <2>3. CASE ~(Top.inplace /\ xInvalid)
    <3>1. stack' = (IF Top.inplace THEN Below ELSE Enter(Below)) /\ UNCHANGED procVars
      BY <1>4, <2>3 DEF WrapEnd
    <3>2. ~Wraps(Below)
      BY <1>2, <2>1, WrapFacts
    <3>3. stack' \in Seq(Frame) /\ ~Wraps(stack')
      <4>1. CASE Top.inplace
        BY <1>2, <3>1, <3>2, <4>1
      <4>2. CASE ~Top.inplace
        <5> DEFINE frame == [fn |-> "execute", proc |-> procId, at |-> "enter"]
        <5>1. frame \in Frame /\ frame.fn = "execute"
          BY DEF Frame, ExecuteFrame, IInv, TypeOK
        <5>2. stack' = Append(Below, frame)
          BY <3>1, <4>2 DEF Enter
        <5> HIDE DEF frame
        <5> QED
          BY <1>2, <3>2, <5>1, <5>2, PushSeq, WrapsPush
      <4> QED
        BY <4>1, <4>2
    <3> QED
      BY <2>1, <3>1, <3>3, PlainAnswer DEF procVars
  <2> QED
    BY <2>2, <2>3
<1> QED
  BY <1>3, <1>4

\* The callback of a system call returns, waits for a task, or fails.
LEMMA SyscallAnswer == IInv /\ AnswerInv /\ SyscallStep => AnswerInv'
<1> SUFFICES ASSUME IInv, AnswerInv, SyscallStep PROVE AnswerInv'
  OBVIOUS
<1>1. On("wrap")
  BY DEF SyscallStep, BodyReturn, CallIncomplete, BodyIssue, BodyChangeCode, BodyExit, BodyFatal, Body
<1>2. Body => taskState = "none" /\ completed = FALSE /\ owed = 1
  BY DEF IInv, TypeOK, TaskInv, AnswerInv, Answered
<1>3. /\ stack \in Seq(Frame) /\ stack # <<>> /\ Below \in Seq(Frame) /\ Top \in WrapFrame
      /\ Top.fn = "wrap" /\ procId \in Nat /\ taskStamp \in Nat /\ Wraps(stack)
  <2>1. taskStamp \in Nat
    BY DEF IInv, TypeOK
  <2>2. stack \in Seq(Frame)
    BY <1>1, RunningFacts
  <2> QED
    BY <1>1, <2>1, <2>2, RunningFacts, WrapFacts, TopWraps
<1>4. CASE BodyReturn
  BY <1>1, <1>2, <1>4, WrapEndAnswer DEF BodyReturn
<1>5. CASE CallIncomplete
  <2>1. ~Body /\ WrapEnd(completed) /\ completed \in BOOLEAN
    BY <1>5 DEF CallIncomplete, Body, IInv, TypeOK
  <2>2. completed => taskState = "none" /\ owed = 1
    BY <1>3 DEF IInv, TaskInv, AnswerInv, Answered
  <2> QED
    BY <1>1, <2>1, <2>2, WrapEndAnswer
<1>6. CASE BodyIssue
  <2> DEFINE frame == [Top EXCEPT !.at = "issued"]
             base  == Append(Below, frame)
             task  == [fn |-> "task", proc |-> procId, stamp |-> taskStamp + 1]
  <2>1. StartTask("syscall", base, pending) /\ UNCHANGED <<owed, completed, nested, procId>>
    BY <1>2, <1>6 DEF BodyIssue
  <2>2. frame \in Frame /\ frame.fn = "wrap" /\ frame.level = Top.level
    BY <1>3 DEF Frame, WrapFrame
  <2>3. task \in Frame
    BY <1>3 DEF Frame, TaskFrame
  <2>4. stack' = Append(base, task) /\ taskState' # "none" /\ taskCall' = "syscall"
    BY <2>1 DEF StartTask
  <2>5. \E t \in pending' : t.proc = procId'
    <3>1. [proc |-> procId, kind |-> "syscall", stamp |-> taskStamp + 1] \in pending'
      BY <2>1 DEF StartTask
    <3>2. [proc |-> procId, kind |-> "syscall", stamp |-> taskStamp + 1].proc = procId'
      BY <2>1
    <3> QED
      BY <3>1, <3>2, Zenon
  <2>6. Exact(stack, nested)
    BY <1>2, <1>6 DEF BodyIssue, AnswerInv, Owing
  <2> HIDE DEF frame, task
  <2>7. base \in Seq(Frame)
    BY <1>3, <2>2, PushSeq
  <2>8. Answering(stack')
    BY <1>3, <2>1, <2>7, IssuedAnswers
  <2>9. Exact(base, nested)
    BY <1>3, <2>2, <2>6, ExactReplace DEF Below, Top
  <2> HIDE DEF base
  <2>10. Exact(stack', nested')
    BY <2>1, <2>3, <2>4, <2>7, <2>9, ExactPush
  <2>11. ~On("execute")' /\ ~Body' /\ owed' = 1
    BY <1>2, <1>6, <2>1, <2>8 DEF Answering, On, Body, Top, BodyIssue
  <2> QED
    BY <2>4, <2>5, <2>10, <2>11 DEF AnswerInv, Answered, Owing, Wakes, Waits
<1>7. CASE BodyChangeCode
  <2>1. UNCHANGED <<procId, procVars, callVars, stack, pending>>
    BY <1>7 DEF BodyChangeCode
  <2> QED
    BY <2>1, SteadyAnswer DEF procVars
<1>8. CASE BodyExit
  <2>1. Release /\ stack' = Pop(Below) /\ Top.inplace
    BY <1>8 DEF BodyExit, Shutdown
  <2>2. Answering(stack')
    BY <1>1, <2>1, WrapFacts
  <2>3. ~Body'
    BY <2>2 DEF Answering, Body, On, Top
  <2> QED
    BY <2>1, <2>3, ReleaseAnswer
<1>9. CASE BodyFatal
  <2>1. stack' \in Unwound(Below) /\ UNCHANGED <<procVars, completed>> /\ owed' = 0
    BY <1>9 DEF BodyFatal, Abort
  <2>2. Answering(stack')
    BY <1>3, <2>1, UnwoundAnswers
  <2>3. ~Body'
    BY <2>2 DEF Answering, Body, On, Top
  <2> QED
    BY <1>2, <1>9, <2>1, <2>3, NothingOwed DEF BodyFatal, procVars
<1> QED
  BY <1>4, <1>5, <1>6, <1>7, <1>8, <1>9 DEF SyscallStep

\* Returning from a call that waited for the host touches no wrapper.
LEMMA ReturnAnswer == IInv /\ AnswerInv /\ ReturnStep => AnswerInv'
<1> SUFFICES ASSUME IInv, AnswerInv, ReturnStep PROVE AnswerInv'
  OBVIOUS
<1>1. /\ stack # <<>> /\ stack[Len(stack)].fn \in {"task", "block", "create"}
      /\ stack' = Pop(stack)
  BY DEF ReturnStep, TaskReturn, BlockReturn, CreateReturn, On, Top, Below
<1>2. stack \in Seq(Frame) /\ nested \in Nat /\ StackOK(stack, nested, alive, procId)
  BY StackInvOK DEF IInv, TypeOK
<1>3. stack' # <<>> => \/ stack'[Len(stack')].fn \in {"create", "block", "task"}
                       \/ stack'[Len(stack')].fn = "wrap" /\ stack'[Len(stack')].at = "issued"
  BY <1>1, <1>2, UnderReturn
<1>4. ~On("execute")' /\ ~Body' /\ ~Body
  BY <1>1, <1>3 DEF On, Body, Top
<1>5. /\ Wraps(stack') <=> Wraps(stack)
      /\ Exact(stack, nested) => Exact(stack', nested)
  <2>1. stack[Len(stack)].fn # "wrap"
    BY <1>1
  <2> QED
    BY <1>1, <1>2, <2>1, WrapsPop, ExactPrefix
<1>6. /\ UNCHANGED <<procId, taskCall, callVars, pending>>
      /\ taskState' = "none" <=> taskState = "none"
  BY DEF ReturnStep, TaskReturn, BlockReturn, CreateReturn, procVars
<1> QED
  BY <1>4, <1>5, <1>6 DEF AnswerInv, Answered, Owing, Wakes, Waits, callVars

\* The host answers: only the answer to a system call finds one that is open.
LEMMA TaskCompletedAnswer ==
    ASSUME IInv, AnswerInv, Answering(stack), NEW t \in pending, TaskCompleted(t)
    PROVE  AnswerInv'
<1> DEFINE rest == pending \ {t}
<1>1. stack \in Seq(Frame) /\ procId \in Nat /\ nested \in Nat
  BY DEF IInv, TypeOK
<1>2. CASE ~Live(t.proc)
  <2>1. pending' = rest /\ UNCHANGED <<procId, procVars, callVars, stack>>
    BY <1>2 DEF TaskCompleted
  <2>2. Waits => t.proc # procId
    BY <1>2 DEF Waits, Live, IInv, HostInv
  <2>3. Wakes'
    BY <2>1, <2>2 DEF AnswerInv, Wakes, Waits, procVars
  <2> QED
    BY <2>1, <2>3 DEF AnswerInv, Answered, Owing, Waits, procVars, callVars, On, Body, Top
<1>3. CASE Live(t.proc)
  <2>1. t.kind = taskCall /\ taskState # "none"
    BY <1>3 DEF IInv, TaskInv, CallbackMatches, Outstanding
  <2>2. taskCall # "syscall" => owed = 0 /\ ~Wraps(stack)
    BY <2>1 DEF AnswerInv, Answered, IInv, TaskInv
  <2>3. ASSUME Shutdown(stack, rest) PROVE AnswerInv'
    <3>1. Release /\ stack' = stack
      BY <2>3 DEF Shutdown
    <3>2. ~Body'
      BY <3>1 DEF Answering, Body, On, Top
    <3> QED
      BY <3>1, <3>2, ReleaseAnswer
  <2>4. ASSUME NEW kind \in {"resolve", "read"}, StartTask(kind, stack, rest), UNCHANGED owed,
               taskCall # "syscall"
        PROVE  AnswerInv'
    <3>1. kind \in TaskKind \ {"syscall"}
      BY DEF TaskKind
    <3> QED
      BY <1>1, <2>2, <2>4, <3>1, StartAnswer
  <2>5. CASE taskCall = "core" /\ CoreLoaded(rest)
    BY <2>3, <2>4, <2>5 DEF CoreLoaded, callVars
  <2>6. CASE taskCall = "resolve" /\ Resolved(rest)
    BY <2>3, <2>4, <2>6 DEF Resolved, callVars
  <2>7. CASE taskCall = "read" /\ BinaryLoaded(rest)
    <3>1. CASE LoadBlock(stack, rest, "none") /\ UNCHANGED owed
      BY <1>1, <2>2, <2>7, <3>1, LoadBlockAnswer
    <3> QED
      BY <2>3, <2>4, <2>7, <3>1 DEF BinaryLoaded, callVars
  <2>8. CASE taskCall = "block" /\ BlockLoaded(rest)
    <3>1. taskState' = "none" /\ owed' = 0
      BY <2>2, <2>8 DEF BlockLoaded, callVars
    <3>2. stack' \in Seq(Frame) /\ ~Wraps(stack')
      <4>1. CASE stack' = Enter(stack)
        <5> DEFINE frame == [fn |-> "execute", proc |-> procId, at |-> "enter"]
        <5>1. frame \in Frame /\ frame.fn = "execute"
          BY <1>1 DEF Frame, ExecuteFrame
        <5>2. stack' = Append(stack, frame)
          BY <4>1 DEF Enter
        <5> HIDE DEF frame
        <5> QED
          BY <1>1, <2>2, <2>8, <5>1, <5>2, PushSeq, WrapsPush
      <4>2. CASE stack' \in Unwound(stack)
        BY <1>1, <2>2, <2>8, <4>2, UnwoundWraps
      <4> QED
        BY <2>8, <4>1, <4>2 DEF BlockLoaded, Abort
    <3> QED
      BY <3>1, <3>2, PlainAnswer
  <2>9. CASE taskCall = "syscall" /\ CallContinue(rest)
    <3> DEFINE frame == [fn |-> "wrap", proc |-> procId, inplace |-> FALSE,
                         at |-> "body", level |-> nested + 1]
    <3>1. /\ stack' = Append(stack, frame) /\ taskState' = "none" /\ nested' = nested + 1
          /\ UNCHANGED <<completed, owed>>
      BY <2>9 DEF CallContinue
    <3>2. owed = 1 /\ Exact(stack, nested)
      BY <2>1, <2>9 DEF AnswerInv, Answered, Owing
    <3>3. frame \in Frame /\ frame.fn = "wrap" /\ frame.at = "body" /\ frame.level = nested + 1
      BY <1>1 DEF Frame, WrapFrame
    <3> HIDE DEF frame
    <3>4. Exact(stack', nested')
      BY <1>1, <3>1, <3>2, <3>3, ExactCall
    <3>5. stack' # <<>> /\ stack'[Len(stack')] = frame
      BY <1>1, <3>1, <3>3, PushSeq
    <3>6. Body' /\ ~On("execute")'
      BY <3>3, <3>5 DEF Body, On, Top
    <3> QED
      BY <3>1, <3>2, <3>4, <3>6 DEF AnswerInv, Answered, Owing, Wakes, Waits
  <2> QED
    BY <1>3, <2>5, <2>6, <2>7, <2>8, <2>9 DEF TaskCompleted
<1> QED
  BY <1>2, <1>3

\* The host gives up the load of a module, which no system call waits for.
LEMMA DropsAnswer == IInv /\ AnswerInv /\ HostDrops => AnswerInv'
<1> SUFFICES ASSUME IInv, AnswerInv, HostDrops PROVE AnswerInv'
  OBVIOUS
<1>1. PICK t \in pending : t.kind \in {"core", "block"} /\ pending' = pending \ {t}
  BY DEF HostDrops
<1>2. UNCHANGED <<procId, procVars, callVars, stack>>
  BY DEF HostDrops
<1>3. Waits => t.proc # procId
  BY <1>1 DEF Waits, IInv, HostInv, TaskInv, CallbackMatches, Outstanding, Live
<1>4. Wakes'
  BY <1>1, <1>2, <1>3 DEF AnswerInv, Wakes, Waits, procVars
<1> QED
  BY <1>2, <1>4 DEF AnswerInv, Answered, Owing, Waits, procVars, callVars, On, Body, Top

\* Every step keeps count of the results.
LEMMA NextAnswer == IInv /\ AnswerInv /\ [Next]_vars => AnswerInv'
<1> SUFFICES ASSUME IInv, AnswerInv, [Next]_vars PROVE AnswerInv'
  OBVIOUS
<1>1. CASE Command \/ EndSession
  BY <1>1, CommandAnswer
<1>2. CASE ExecuteEnter \/ GuestStep
  BY <1>2, GuestAnswer
<1>3. CASE SyscallStep
  BY <1>3, SyscallAnswer
<1>4. CASE ReturnStep
  BY <1>4, ReturnAnswer
<1>5. CASE HostInplace
  <2>1. Answering(stack) /\ \E t \in pending : TaskCompleted(t)
    BY <1>5 DEF HostInplace, On, Top, Answering
  <2> QED
    BY <2>1, TaskCompletedAnswer
<1>6. CASE HostAsync
  <2>1. Answering(stack) /\ \E t \in pending : TaskCompleted(t)
    BY <1>6 DEF HostAsync, Answering
  <2> QED
    BY <2>1, TaskCompletedAnswer
<1>7. CASE HostDrops
  BY <1>7, DropsAnswer
<1>8. CASE UNCHANGED vars \/ NoMoreCommands
  BY <1>8, SteadyAnswer DEF NoMoreCommands, vars, procVars
<1> QED
  BY <1>1, <1>2, <1>3, <1>4, <1>5, <1>6, <1>7, <1>8 DEF Next, HostStep

\* The count of the results is right in every state.
THEOREM AnswerInvariance == Spec => []AnswerInv
<1>1. Init => AnswerInv
  <2> SUFFICES ASSUME Init PROVE AnswerInv
    OBVIOUS
  <2>1. stack = <<>> /\ taskState = "none" /\ owed = 0 /\ completed = FALSE
    BY DEF Init
  <2> QED
    BY <2>1 DEF AnswerInv, Answered, Owing, Wakes, Waits, Body, On
<1>2. IInv /\ AnswerInv /\ [Next]_vars => AnswerInv'
  BY NextAnswer
<1> QED
  BY <1>1, <1>2, Invariance, PTL DEF Spec

\* However the callbacks of a call are spread over tasks, answers in-place and nested wrappers,
\* the guest gets one result for it, and runs on only with it.
THEOREM OneResult == Spec => []ResultOnce
<1>1. AnswerInv => ResultOnce
  BY DEF AnswerInv, Answered, ResultOnce, Guest
<1> QED
  BY <1>1, AnswerInvariance, PTL

\* A call that is suspended while nothing runs is one the host still works for.
THEOREM Awakened == Spec => []NoLostWakeup
<1>1. ASSUME IInv, AnswerInv PROVE NoLostWakeup
  <2> SUFFICES ASSUME owed = 1, stack = <<>> PROVE \E t \in Outstanding : t.kind = "syscall"
    BY DEF NoLostWakeup
  <2>1. ~Body /\ ~Wraps(stack)
    BY DEF Body, On, Wraps
  <2>2. Waits
    BY <1>1, <2>1 DEF AnswerInv, Owing
  <2>3. PICK t \in pending : t.proc = procId
    BY <1>1, <2>2 DEF AnswerInv, Wakes
  <2>4. t \in Outstanding
    BY <1>1, <2>2, <2>3 DEF Outstanding, Live, Waits, IInv, HostInv
  <2> QED
    BY <1>1, <2>2, <2>4 DEF IInv, TaskInv, CallbackMatches, Waits
<1> QED
  BY <1>1, AnswerInvariance, Invariance, PTL

-----------------------------------------------------------------------------
(***************************************************************************)
(* The proof that Runtime implements TaskProtocol: every step of the       *)
(* process, its guest, the commands and the host is a step of the protocol *)
(* or changes nothing the protocol speaks of.                              *)
(***************************************************************************)

\* The tasks the host has, or had and lost, and the questions they are in the protocol.
Tasks == pending \union lost
Asked == {<<t.proc, t.stamp>> : t \in pending \union lost}

\* A number is given to one task only.
Distinct ==
    /\ pending \intersect lost = {}
    /\ \A t, u \in Tasks : t.proc = u.proc /\ t.stamp = u.stamp => t = u
    /\ \A t \in Tasks : t.proc <= procId

\* The process has no task but the one it waits for, lost ones included.
Single == \A t \in Tasks : Live(t.proc) => t.stamp = taskStamp /\ taskState # "none"

\* Until its task is awaited the process is still in the activation that started it.
InHost(s, p, n) == \E i \in 1 .. Len(s) : s[i] = [fn |-> "task", proc |-> p, stamp |-> n]
Begun == alive /\ taskState = "started" => InHost(stack, procId, taskStamp)

AskInv == Distinct /\ Single /\ Begun

\* What a step has to be.
Moves == Protocol!Next \/ UNCHANGED <<procId, Status, taskStamp, Asked>>
Keeps == AskInv' /\ Moves

-----------------------------------------------------------------------------
(* The steps of the protocol. *)

\* The types the invariant gives to the tasks.
LEMMA TaskFacts ==
    ASSUME IInv
    PROVE  /\ procId \in Nat /\ taskStamp \in Nat /\ taskState \in TaskState
           /\ pending \in SUBSET Task /\ lost \in SUBSET Task /\ alive \in BOOLEAN
           /\ stack \in Seq(Frame)
           /\ \A t \in Tasks : t.proc \in Nat /\ t.stamp \in Nat
           /\ alive /\ taskState # "none" => \E t \in Tasks : t.proc = procId
  BY DEF IInv, TypeOK, TaskInv, Task, Tasks

\* A process that runs goes on, or returns to the host: then it rests, or waits for its task.
LEMMA GoOn ==
    ASSUME IInv, AskInv, alive, stack # <<>>, alive' = alive, Begun', taskState' \in TaskState,
           UNCHANGED <<procId, taskStamp, pending, lost>>,
           taskState' = "none" <=> taskState = "none"
    PROVE  Keeps
<1>1. AskInv'
  BY DEF AskInv, Distinct, Single, Tasks, Live
<1>2. Asked' = Asked
  BY DEF Asked
<1>3. Status = "working"
  BY DEF Status
<1>4. CASE stack' # <<>>
  <2>1. Status' = "working"
    BY <1>4 DEF Status
  <2> QED
    BY <1>1, <1>2, <1>3, <2>1 DEF Keeps, Moves
<1>5. CASE stack' = <<>>
  <2>1. taskState' # "started"
    BY <1>5 DEF Begun, InHost
  <2>2. Status' = IF taskState' = "awaiting" THEN "waiting" ELSE "resting"
    BY <1>5 DEF Status
  <2>3. (\E t \in Tasks : t.proc = procId) <=> taskState # "none"
    BY TaskFacts DEF AskInv, Single, Live
  <2>4. (\E q \in Asked : q[1] = procId) <=> taskState # "none"
    <3>1. ASSUME NEW t \in Tasks, t.proc = procId PROVE \E q \in Asked : q[1] = procId
      <4>1. <<t.proc, t.stamp>> \in Asked
        BY DEF Asked, Tasks
      <4>2. <<t.proc, t.stamp>>[1] = procId
        BY <3>1
      <4> QED
        BY <4>1, <4>2
    <3>2. ASSUME NEW q \in Asked, q[1] = procId PROVE \E t \in Tasks : t.proc = procId
      <4>1. PICK t \in Tasks : q = <<t.proc, t.stamp>>
        BY DEF Asked, Tasks
      <4> QED
        BY <3>2, <4>1
    <3> QED
      BY <2>3, <3>1, <3>2
  <2>5. Status' = IF \E q \in Asked : q[1] = procId THEN "waiting" ELSE "resting"
    BY <2>1, <2>2, <2>4 DEF TaskState
  <2>6. Protocol!Pause
    BY <1>2, <1>3, <2>5 DEF Protocol!Pause, Protocol!Own, Asked
  <2> QED
    BY <1>1, <2>6 DEF Keeps, Moves, Protocol!Next
<1> QED
  BY <1>4, <1>5

\* Once the process is gone nothing happens to it.
LEMMA Gone ==
    ASSUME AskInv, ~alive, UNCHANGED <<procId, alive, taskStamp, pending, lost>>
    PROVE  Keeps
<1>1. AskInv'
  BY DEF AskInv, Distinct, Single, Begun, Tasks, Live
<1>2. Asked' = Asked /\ Status' = Status
  BY DEF Asked, Status
<1> QED
  BY <1>1, <1>2 DEF Keeps, Moves

\* What StartTask leaves: one more question, and the activation that asked it.
LEMMA Started ==
    ASSUME NEW kind \in TaskKind, NEW base \in Seq(Frame), NEW rest \in SUBSET Task,
           StartTask(kind, base, rest), lost \in SUBSET Task, rest \intersect lost = {},
           procId \in Nat, procId' = procId, taskStamp \in Nat, alive' = TRUE, lost' = lost,
           \A t \in rest \union lost : t.proc < procId,
           \A t, u \in rest \union lost : t.proc = u.proc /\ t.stamp = u.stamp => t = u
    PROVE  /\ AskInv' /\ Status' = "working" /\ taskStamp' = taskStamp + 1
           /\ Asked' = {<<t.proc, t.stamp>> : t \in rest \union lost}
                           \union {<<procId, taskStamp + 1>>}
<1> DEFINE task == [proc |-> procId, kind |-> kind, stamp |-> taskStamp + 1]
           frame == [fn |-> "task", proc |-> procId, stamp |-> taskStamp + 1]
<1>1. /\ taskState' = "started" /\ taskStamp' = taskStamp + 1
      /\ pending' = rest \union {task} /\ stack' = Append(base, frame)
  BY DEF StartTask
<1>2. task.proc = procId /\ task.stamp = taskStamp + 1
  OBVIOUS
<1>3. frame \in Frame
  BY DEF Frame, TaskFrame
<1>4. \A t \in rest \union lost : t.proc \in Nat /\ t.stamp \in Nat
  BY DEF Task
<1>5. frame = [fn |-> "task", proc |-> procId', stamp |-> taskStamp']
  BY <1>1
<1> HIDE DEF task, frame
<1>6. /\ Len(base) + 1 \in 1 .. Len(stack') /\ stack'[Len(base) + 1] = frame
      /\ stack' # <<>>
  BY <1>1, <1>3, PushSeq
<1>7. Begun'
  BY <1>5, <1>6 DEF Begun, InHost
<1>8. Tasks' = rest \union lost \union {task}
  BY <1>1 DEF Tasks
<1>9. task \notin rest \union lost
  BY <1>2, <1>4
<1>10. Distinct'
  <2>1. pending' \intersect lost' = {}
    BY <1>1, <1>9
  <2>2. \A t, u \in Tasks' : t.proc = u.proc /\ t.stamp = u.stamp => t = u
    BY <1>2, <1>4, <1>8
  <2>3. \A t \in Tasks' : t.proc <= procId'
    BY <1>2, <1>4, <1>8
  <2> QED
    BY <2>1, <2>2, <2>3 DEF Distinct
<1>11. Single'
  <2>1. \A t \in Tasks' : t.proc = procId' => t = task
    BY <1>4, <1>8
  <2> QED
    BY <1>1, <1>2, <2>1 DEF Single, Live
<1>12. Status' = "working"
  BY <1>6 DEF Status
<1>13. Asked' = {<<t.proc, t.stamp>> : t \in rest \union lost} \union {<<procId, taskStamp + 1>>}
  BY <1>2, <1>8 DEF Asked, Tasks
<1> QED
  BY <1>1, <1>7, <1>10, <1>11, <1>12, <1>13 DEF AskInv

\* A process without a task has no question open, and may ask one.
LEMMA Asks ==
    ASSUME IInv, AskInv, alive, stack # <<>>, taskState = "none",
           NEW kind \in TaskKind, NEW base \in Seq(Frame), StartTask(kind, base, pending),
           procId' = procId, alive' = TRUE, lost' = lost
    PROVE  Keeps
<1>1. \A t \in Tasks : t.proc # procId
  BY DEF AskInv, Single, Live
<1>2. \A t \in pending \union lost : t.proc < procId
  BY <1>1, TaskFacts DEF AskInv, Distinct, Tasks
<1>3. /\ AskInv' /\ Status' = "working" /\ taskStamp' = taskStamp + 1
      /\ Asked' = Asked \union {<<procId, taskStamp + 1>>}
  BY <1>2, TaskFacts, Started DEF AskInv, Distinct, Tasks, Asked
<1>4. Status = "working"
  BY DEF Status
<1>5. \A q \in Asked : q[1] # procId
  BY <1>1 DEF Asked, Tasks
<1>6. Protocol!Ask
  BY <1>3, <1>4, <1>5 DEF Protocol!Ask, Protocol!Own, Asked
<1> QED
  BY <1>3, <1>6 DEF Keeps, Moves, Protocol!Next

\* shutdown takes the process from the host; its questions stay.
LEMMA Ends ==
    ASSUME IInv, AskInv, alive, Release, UNCHANGED <<procId, pending, lost>>
    PROVE  Keeps
<1>1. alive' = FALSE /\ taskStamp' = 0
  BY DEF Release
<1>2. AskInv'
  BY <1>1 DEF AskInv, Distinct, Single, Begun, Tasks, Live
<1>3. Asked' = Asked /\ Status' = "absent" /\ Status # "absent"
  BY <1>1 DEF Asked, Status
<1>4. Protocol!End
  BY <1>1, <1>3 DEF Protocol!End, Asked
<1> QED
  BY <1>2, <1>4 DEF Keeps, Moves, Protocol!Next

\* What is left when the host answers the process: no other task of it, and no question but
\* those of processes that are gone.
LEMMA Taken ==
    ASSUME IInv, AskInv, NEW t \in pending, Live(t.proc)
    PROVE  /\ <<t.proc, t.stamp>> = <<procId, taskStamp>> /\ <<procId, taskStamp>> \in Asked
           /\ t \notin lost
           /\ \A u \in (pending \ {t}) \union lost : u.proc < procId
           /\ {<<u.proc, u.stamp>> : u \in (pending \ {t}) \union lost}
                 = Asked \ {<<procId, taskStamp>>}
           /\ taskState # "none"
           /\ Status = IF stack = <<>> THEN "waiting" ELSE "working"
<1>1. t \in Tasks /\ t.proc = procId /\ t.stamp = taskStamp /\ taskState # "none" /\ t \notin lost
  BY DEF AskInv, Distinct, Single, Live, Tasks
<1>2. \A u \in Tasks : u # t => u.proc # procId
  BY <1>1 DEF AskInv, Distinct, Single, Live
<1>3. (pending \ {t}) \union lost = Tasks \ {t}
  BY <1>1 DEF Tasks
<1>4. \A u \in Tasks \ {t} : u.proc < procId
  BY <1>2, TaskFacts DEF AskInv, Distinct
<1>5. Asked = {<<u.proc, u.stamp>> : u \in Tasks}
  BY DEF Asked, Tasks
<1>6. {<<u.proc, u.stamp>> : u \in Tasks \ {t}} = Asked \ {<<procId, taskStamp>>}
  <2>1. \A u \in Tasks \ {t} : <<u.proc, u.stamp>> # <<procId, taskStamp>>
    BY <1>2
  <2>2. \A u \in Tasks : <<u.proc, u.stamp>> # <<procId, taskStamp>> => u \in Tasks \ {t}
    BY <1>1
  <2> QED
    BY <1>5, <2>1, <2>2
<1>7. Status = IF stack = <<>> THEN "waiting" ELSE "working"
  <2>1. CASE stack = <<>>
    <3>1. taskState # "started"
      BY <2>1 DEF AskInv, Begun, InHost, Live
    <3>2. taskState = "awaiting"
      BY <1>1, <3>1, TaskFacts DEF TaskState
    <3> QED
      BY <2>1, <3>2 DEF Status, Live
  <2>2. CASE stack # <<>>
    BY <2>2 DEF Status, Live
  <2> QED
    BY <2>1, <2>2
<1> QED
  BY <1>1, <1>3, <1>4, <1>5, <1>6, <1>7

\* The host answers the process, which goes on without a task.
LEMMA UsesAnswer ==
    ASSUME IInv, AskInv, NEW t \in pending, Live(t.proc),
           pending' = pending \ {t}, taskState' = "none", stack # <<>> => stack' # <<>>,
           UNCHANGED <<procId, alive, taskStamp, lost>>
    PROVE  Keeps
<1>1. /\ <<procId, taskStamp>> \in Asked
      /\ \A u \in pending' \union lost' : u.proc < procId
      /\ Asked' = Asked \ {<<procId, taskStamp>>}
      /\ Status = IF stack = <<>> THEN "waiting" ELSE "working"
  BY Taken DEF Asked
<1>2. AskInv'
  <2>1. \A u \in Tasks' : u \in Tasks /\ u.proc # procId /\ u.proc <= procId
    BY <1>1, TaskFacts DEF Tasks, AskInv, Distinct
  <2>2. pending' \intersect lost' = {}
    BY DEF AskInv, Distinct
  <2>3. Distinct'
    BY <2>1, <2>2 DEF AskInv, Distinct
  <2> QED
    BY <2>1, <2>3 DEF AskInv, Single, Begun, Live
<1>3. Status' = "working" \/ (stack = <<>> /\ Status' = "resting")
  BY DEF Status, Live
<1>4. Status # "absent"
  BY <1>1
<1>5. PICK q : q = <<procId, taskStamp>>
  OBVIOUS
<1>6. q \in {<<u.proc, u.stamp>> : u \in pending \union lost}
  BY <1>1, <1>5 DEF Asked
<1>7. Protocol!Use(q)
  BY <1>1, <1>3, <1>4, <1>5 DEF Protocol!Use, Protocol!Own, Asked
<1>8. Protocol!Answer
  BY <1>6, <1>7 DEF Protocol!Answer
<1> QED
  BY <1>2, <1>8 DEF Keeps, Moves, Protocol!Next

\* The host answers the process, which asks the next question at once.
LEMMA UsesAndAsks ==
    ASSUME IInv, AskInv, NEW t \in pending, Live(t.proc),
           NEW kind \in TaskKind, NEW base \in Seq(Frame), StartTask(kind, base, pending \ {t}),
           procId' = procId, alive' = TRUE, lost' = lost
    PROVE  Keeps
<1>1. /\ <<procId, taskStamp>> \in Asked
      /\ \A u \in (pending \ {t}) \union lost : u.proc < procId
      /\ {<<u.proc, u.stamp>> : u \in (pending \ {t}) \union lost}
            = Asked \ {<<procId, taskStamp>>}
      /\ Status = IF stack = <<>> THEN "waiting" ELSE "working"
  BY Taken
<1>2. /\ pending \ {t} \in SUBSET Task /\ (pending \ {t}) \intersect lost = {}
      /\ \A u, v \in (pending \ {t}) \union lost : u.proc = v.proc /\ u.stamp = v.stamp => u = v
  BY TaskFacts DEF AskInv, Distinct, Tasks
<1>3. /\ AskInv' /\ Status' = "working" /\ taskStamp' = taskStamp + 1
      /\ Asked' = (Asked \ {<<procId, taskStamp>>}) \union {<<procId, taskStamp + 1>>}
  BY <1>1, <1>2, TaskFacts, Started
<1>4. Status # "absent"
  BY <1>1
<1>5. PICK q : q = <<procId, taskStamp>>
  OBVIOUS
<1>6. q \in {<<u.proc, u.stamp>> : u \in pending \union lost}
  BY <1>1, <1>5 DEF Asked
<1>7. Protocol!Use(q)
  BY <1>1, <1>3, <1>4, <1>5 DEF Protocol!Use, Protocol!Own, Asked
<1>8. Protocol!Answer
  BY <1>6, <1>7 DEF Protocol!Answer
<1> QED
  BY <1>3, <1>8 DEF Keeps, Moves, Protocol!Next

\* The host answers the process, which fails.
LEMMA UsesAndEnds ==
    ASSUME IInv, AskInv, NEW t \in pending, Live(t.proc), Shutdown(stack, pending \ {t})
    PROVE  Keeps
<1>1. /\ <<procId, taskStamp>> \in Asked
      /\ {<<u.proc, u.stamp>> : u \in (pending \ {t}) \union lost}
            = Asked \ {<<procId, taskStamp>>}
      /\ Status = IF stack = <<>> THEN "waiting" ELSE "working"
  BY Taken
<1>2. /\ alive' = FALSE /\ taskStamp' = 0
      /\ UNCHANGED <<procId, lost>> /\ pending' = pending \ {t}
  BY DEF Shutdown, Release, hostVars
<1>3. AskInv'
  BY <1>2 DEF AskInv, Distinct, Single, Begun, Tasks, Live
<1>4. Asked' = Asked \ {<<procId, taskStamp>>} /\ Status' = "absent" /\ Status # "absent"
  BY <1>1, <1>2 DEF Asked, Status
<1>5. PICK q : q = <<procId, taskStamp>>
  OBVIOUS
<1>6. q \in {<<u.proc, u.stamp>> : u \in pending \union lost}
  BY <1>1, <1>5 DEF Asked
<1>7. Protocol!Use(q)
  BY <1>1, <1>2, <1>4, <1>5 DEF Protocol!Use, Protocol!Own, Asked
<1>8. Protocol!Answer
  BY <1>6, <1>7 DEF Protocol!Answer
<1> QED
  BY <1>3, <1>8 DEF Keeps, Moves, Protocol!Next

\* The host answers a process that is gone: "Old task silently discarded".
LEMMA Discards ==
    ASSUME IInv, AskInv, NEW t \in pending, ~Live(t.proc), pending' = pending \ {t},
           UNCHANGED <<procId, alive, taskStamp, taskState, stack, lost>>
    PROVE  Keeps
<1>1. AskInv'
  BY DEF AskInv, Distinct, Single, Begun, Tasks, Live
<1>2. Tasks' = Tasks \ {t} /\ t \in Tasks
  BY DEF AskInv, Distinct, Tasks
<1>3. <<t.proc, t.stamp>> \in Asked
  BY DEF Asked
<1>4. Asked' = Asked \ {<<t.proc, t.stamp>>}
  <2>1. Asked = {<<u.proc, u.stamp>> : u \in Tasks} /\ Asked' = {<<u.proc, u.stamp>> : u \in Tasks'}
    BY DEF Asked, Tasks
  <2>2. \A u \in Tasks \ {t} : <<u.proc, u.stamp>> # <<t.proc, t.stamp>>
    BY <1>2 DEF AskInv, Distinct
  <2>3. \A u \in Tasks : <<u.proc, u.stamp>> # <<t.proc, t.stamp>> => u \in Tasks \ {t}
    OBVIOUS
  <2> QED
    BY <1>2, <2>1, <2>2, <2>3
<1>5. Status' = Status /\ ~(Status # "absent" /\ t.proc = procId)
  BY TaskFacts DEF Status, Live
<1>6. Protocol!Discard(<<t.proc, t.stamp>>)
  BY <1>4, <1>5 DEF Protocol!Discard, Protocol!Own, Asked
<1> QED
  BY <1>1, <1>3, <1>6 DEF Keeps, Moves, Protocol!Next, Protocol!Answer, Asked

-----------------------------------------------------------------------------
(* The actions. *)

\* An activation that is not the one of the open task returns.
LEMMA PopInHost ==
    ASSUME NEW s \in Seq(Frame), s # <<>>, NEW p, NEW n, InHost(s, p, n),
           s[Len(s)].fn = "task" => s[Len(s)].proc # p \/ s[Len(s)].stamp # n
    PROVE  InHost(Pop(s), p, n)
<1>1. PICK i \in 1 .. Len(s) : s[i] = [fn |-> "task", proc |-> p, stamp |-> n]
  BY DEF InHost
<1>2. i \in 1 .. (Len(s) - 1)
  BY <1>1, PopSeq
<1> QED
  BY <1>1, <1>2, PopSeq DEF InHost

\* fLoadBlock, called by a process that has no task.
LEMMA LoadBlockMoves ==
    ASSUME IInv, AskInv, alive, stack # <<>>, taskState = "none",
           NEW base \in Seq(Frame), LoadBlock(base, pending, "none"),
           UNCHANGED <<procId, alive, lost>>
    PROVE  Keeps
<1>1. alive' = TRUE
  BY TaskFacts
<1>2. CASE taskState' = "none" /\ UNCHANGED <<taskStamp, pending>>
  BY <1>2, GoOn DEF Begun, TaskState
<1>3. CASE StartTask("block", Append(base, [fn |-> "block", proc |-> procId]), pending)
  <2> DEFINE frame == [fn |-> "block", proc |-> procId]
  <2>1. frame \in Frame
    BY TaskFacts DEF Frame, BlockFrame
  <2>2. Append(base, frame) \in Seq(Frame)
    BY <2>1, PushSeq
  <2> QED
    BY <1>1, <1>3, <2>2, Asks DEF TaskKind
<1> QED
  BY <1>2, <1>3 DEF LoadBlock, Abort

\* fExecute starts a translation.
LEMMA RetranslateMoves ==
    ASSUME IInv, AskInv, alive, stack # <<>>, taskState = "none",
           NEW address, NEW base \in Seq(Frame), Retranslate(address, base)
    PROVE  Keeps
<1>1. LoadBlock(base, pending, "none") /\ UNCHANGED <<procId, alive, lost>>
  BY DEF Retranslate, hostVars
<1> QED
  BY <1>1, LoadBlockMoves

\* The process goes on without a task.
LEMMA Untasked ==
    ASSUME IInv, AskInv, alive, stack # <<>>, taskState = "none",
           UNCHANGED <<procId, alive, taskState, taskStamp, pending, lost>>
    PROVE  Keeps
  BY GoOn DEF Begun, TaskState

\* Guest code runs, and may need a translation.
LEMMA GuestMoves == IInv /\ AskInv /\ (ExecuteEnter \/ GuestStep) => Keeps
<1> SUFFICES ASSUME IInv, AskInv, ExecuteEnter \/ GuestStep PROVE Keeps
  OBVIOUS
<1>1. On("execute")
  BY DEF ExecuteEnter, GuestStep, GuestGoto, GuestFence, GuestStore, GuestFault, GuestHalt,
         GuestSyscall, Guest
<1>2. taskState = "none" /\ Below \in Seq(Frame) /\ alive /\ stack # <<>>
  BY <1>1, GuestFacts, RunningFacts
<1>3. ASSUME NEW address, Goto(address) PROVE Keeps
  BY <1>2, <1>3, Untasked, RetranslateMoves DEF Goto, procVars, hostVars
<1>4. CASE ExecuteEnter
  BY <1>2, <1>3, <1>4, RetranslateMoves DEF ExecuteEnter
<1>5. CASE GuestGoto
  BY <1>3, <1>5 DEF GuestGoto
<1>6. CASE GuestFence
  BY <1>2, <1>6, RetranslateMoves DEF GuestFence
<1>7. CASE GuestStore
  BY <1>2, <1>7, Untasked, RetranslateMoves DEF GuestStore, procVars, hostVars
<1>8. CASE GuestFault
  BY <1>2, <1>8, Untasked DEF GuestFault, procVars, hostVars
<1>9. CASE GuestHalt
  BY <1>2, <1>9, Untasked DEF GuestHalt, procVars, hostVars
<1>10. CASE GuestSyscall
  BY <1>2, <1>10, Untasked DEF GuestSyscall, procVars, hostVars
<1> QED
  BY <1>4, <1>5, <1>6, <1>7, <1>8, <1>9, <1>10 DEF GuestStep

\* fWrap returns, with or without a result.
LEMMA WrapEndMoves ==
    ASSUME IInv, AskInv, On("wrap"), NEW c, WrapEnd(c), c => taskState = "none"
    PROVE  Keeps
<1>1. alive /\ stack # <<>> /\ stack \in Seq(Frame) /\ Top.fn = "wrap" /\ Top = stack[Len(stack)]
  BY RunningFacts DEF On, Top
<1>2. CASE nested - 1 > 0 \/ ~c
  <2>1. /\ stack' = IF Top.inplace THEN Pop(Below) ELSE Below
        /\ UNCHANGED <<procId, alive, taskState, taskStamp, pending, lost>>
    BY <1>2 DEF WrapEnd, procVars, hostVars
  <2>2. Begun'
    <3> SUFFICES ASSUME InHost(stack, procId, taskStamp) PROVE InHost(stack', procId, taskStamp)
      BY <2>1 DEF AskInv, Begun
    <3>1. InHost(Below, procId, taskStamp)
      BY <1>1, PopInHost DEF Below
    <3>2. CASE Top.inplace
      <4>1. Below \in Seq(Frame) /\ Below # <<>> /\ Below[Len(Below)].fn = "execute"
        BY <3>2, WrapFacts
      <4> QED
        BY <2>1, <3>1, <3>2, <4>1, PopInHost
    <3> QED
      BY <2>1, <3>1, <3>2
  <2> QED
    BY <1>1, <2>1, <2>2, TaskFacts, GoOn
<1>3. CASE ~(nested - 1 > 0 \/ ~c)
  <2>1. taskState = "none"
    BY <1>3
  <2>2. CASE Top.inplace /\ xInvalid
    <3>1. Retranslate(pAddress, Pop(Below)) /\ Pop(Below) \in Seq(Frame)
      BY <1>3, <2>2, WrapFacts DEF WrapEnd
    <3> QED
      BY <1>1, <2>1, <3>1, RetranslateMoves
  <2>3. CASE ~(Top.inplace /\ xInvalid)
    BY <1>1, <1>3, <2>1, <2>3, Untasked DEF WrapEnd, procVars, hostVars
  <2> QED
    BY <2>2, <2>3
<1> QED
  BY <1>2, <1>3

\* A callback of a system call returns, asks for a task, fails or ends the process.
LEMMA SyscallMoves == IInv /\ AskInv /\ SyscallStep => Keeps
<1> SUFFICES ASSUME IInv, AskInv, SyscallStep PROVE Keeps
  OBVIOUS
<1>1. On("wrap")
  BY DEF SyscallStep, BodyReturn, CallIncomplete, BodyIssue, BodyChangeCode, BodyExit, BodyFatal, Body
<1>2. Body => taskState = "none"
  BY DEF IInv, TaskInv
<1>3. alive = TRUE /\ stack # <<>> /\ Below \in Seq(Frame)
  BY <1>1, RunningFacts, WrapFacts
<1>4. CASE BodyReturn
  BY <1>1, <1>2, <1>4, WrapEndMoves DEF BodyReturn
<1>5. CASE CallIncomplete
  <2>1. Wraps(stack)
    <3>1. stack \in Seq(Frame)
      BY TaskFacts
    <3>2. Len(stack) \in 1 .. Len(stack) /\ stack[Len(stack)].fn = "wrap"
      BY <1>1, <3>1 DEF On, Top
    <3> QED
      BY <3>2 DEF Wraps
  <2>2. completed => taskState = "none"
    BY <2>1 DEF IInv, TaskInv
  <2> QED
    BY <1>1, <1>5, <2>2, WrapEndMoves DEF CallIncomplete
<1>6. CASE BodyIssue
  <2> DEFINE base == Append(Below, [Top EXCEPT !.at = "issued"])
  <2>1. StartTask("syscall", base, pending) /\ UNCHANGED <<procId, alive, lost>>
    BY <1>2, <1>6 DEF BodyIssue, hostVars
  <2>2. [Top EXCEPT !.at = "issued"] \in Frame
    BY <1>1, WrapFacts DEF Frame, WrapFrame
  <2>3. base \in Seq(Frame)
    BY <1>3, <2>2, PushSeq
  <2> HIDE DEF base
  <2> QED
    BY <1>2, <1>3, <1>6, <2>1, <2>3, Asks DEF BodyIssue, TaskKind
<1>7. CASE BodyChangeCode
  BY <1>2, <1>3, <1>7, Untasked DEF BodyChangeCode, procVars, hostVars
<1>8. CASE BodyExit
  BY <1>3, <1>8, Ends DEF BodyExit, Shutdown, hostVars
<1>9. CASE BodyFatal
  BY <1>2, <1>3, <1>9, Untasked DEF BodyFatal, procVars, hostVars
<1> QED
  BY <1>4, <1>5, <1>6, <1>7, <1>8, <1>9 DEF SyscallStep

\* A call that waited for the host returns: the process awaits its task, or it had its answer.
LEMMA ReturnMoves == IInv /\ AskInv /\ ReturnStep => Keeps
<1> SUFFICES ASSUME IInv, AskInv, ReturnStep PROVE Keeps
  OBVIOUS
<1>1. /\ stack # <<>> /\ stack \in Seq(Frame) /\ stack' = Below
      /\ UNCHANGED <<procId, alive, taskStamp, pending, lost>>
  BY TaskFacts DEF ReturnStep, TaskReturn, BlockReturn, CreateReturn, On, procVars, hostVars
<1>2. taskState' \in TaskState /\ (taskState' = "none" <=> taskState = "none")
  BY TaskFacts DEF ReturnStep, TaskReturn, BlockReturn, CreateReturn, procVars, TaskState
<1>3. CASE ~alive
  BY <1>1, <1>3, Gone
<1>4. CASE alive
  <2>1. Begun'
    <3> SUFFICES ASSUME taskState' = "started" PROVE InHost(Below, procId, taskStamp)
      BY <1>1 DEF Begun
    <3>1. taskState = "started" /\ (Top.fn = "task" => Top.proc # procId \/ Top.stamp # taskStamp)
      <4>1. CASE TaskReturn
        BY <1>4, <4>1 DEF TaskReturn, Live
      <4>2. CASE BlockReturn \/ CreateReturn
        BY <4>2 DEF BlockReturn, CreateReturn, On, procVars
      <4> QED
        BY <4>1, <4>2 DEF ReturnStep
    <3>2. InHost(stack, procId, taskStamp)
      BY <1>4, <3>1 DEF AskInv, Begun
    <3> QED
      BY <1>1, <3>1, <3>2, PopInHost DEF Top, Below
  <2> QED
    BY <1>1, <1>2, <1>4, <2>1, GoOn
<1> QED
  BY <1>3, <1>4

\* A command ends a process, starts one or lets it run on.
LEMMA CommandMoves == IInv /\ AskInv /\ (Command \/ EndSession) => Keeps
<1> SUFFICES ASSUME IInv, AskInv, Command \/ EndSession PROVE Keeps
  OBVIOUS
<1>1. ASSUME NEW debug, Create(debug), UNCHANGED lost PROVE Keeps
  <2>1. /\ ~alive /\ procId' = procId + 1 /\ Status = "absent"
        /\ stack = <<>>
    BY <1>1 DEF Create, Idle, Status
  <2>2. CASE UNCHANGED <<alive, taskStamp, pending>>
    <3>1. AskInv'
      BY <2>1, <2>2, <1>1, TaskFacts DEF AskInv, Distinct, Single, Begun, Tasks, Live
    <3>2. Asked' = Asked /\ Status' = Status
      BY <1>1, <2>1, <2>2 DEF Asked, Status
    <3>3. Protocol!Start
      BY <2>1, <2>2, <3>2 DEF Protocol!Start, Asked
    <3> QED
      BY <3>1, <3>3 DEF Keeps, Moves, Protocol!Next
  <2>3. CASE ~UNCHANGED <<alive, taskStamp, pending>>
    <3> DEFINE task == [proc |-> procId + 1, kind |-> "core", stamp |-> 1]
               frame == [fn |-> "task", proc |-> procId + 1, stamp |-> 1]
               first == [fn |-> "create", proc |-> procId + 1, debug |-> debug]
    <3>1. /\ alive' = TRUE /\ taskState' = "started" /\ taskStamp' = 1
          /\ pending' = pending \union {task} /\ stack' = <<first, frame>>
      BY <1>1, <2>3 DEF Create
    <3>2. task.proc = procId + 1 /\ task.stamp = 1
      OBVIOUS
    <3>3. frame = [fn |-> "task", proc |-> procId', stamp |-> taskStamp']
      BY <2>1, <3>1
    <3> HIDE DEF task, frame, first
    <3>4. 2 \in 1 .. Len(stack') /\ stack'[2] = frame /\ stack' # <<>>
      BY <3>1
    <3>5. Begun'
      BY <3>3, <3>4 DEF Begun, InHost
    <3>6. Tasks' = Tasks \union {task} /\ \A t \in Tasks : t.proc \in Nat /\ t.proc <= procId
      BY <1>1, <3>1, TaskFacts DEF Tasks, AskInv, Distinct
    <3>7. procId \in Nat /\ \A t \in Tasks : t.proc # procId + 1 /\ t.proc <= procId + 1
      BY <3>6, TaskFacts
    <3>8. task \notin Tasks
      BY <3>2, <3>7
    <3>9. Distinct'
      <4>1. pending' \intersect lost' = {}
        BY <1>1, <3>1, <3>8 DEF Tasks, AskInv, Distinct
      <4>2. \A t, u \in Tasks' : t.proc = u.proc /\ t.stamp = u.stamp => t = u
        BY <3>2, <3>6, <3>7 DEF AskInv, Distinct
      <4>3. \A t \in Tasks' : t.proc <= procId'
        BY <2>1, <3>2, <3>6, <3>7
      <4> QED
        BY <4>1, <4>2, <4>3 DEF Distinct
    <3>10. Single'
      BY <2>1, <3>1, <3>2, <3>6, <3>7 DEF Single, Live
    <3>11. Asked' = Asked \union {<<procId + 1, 1>>}
      BY <3>2, <3>6 DEF Asked, Tasks
    <3>12. Status' = "working"
      BY <3>1, <3>4 DEF Status
    <3>13. Protocol!Start
      BY <2>1, <3>1, <3>11, <3>12 DEF Protocol!Start, Asked
    <3> QED
      BY <3>5, <3>9, <3>10, <3>13 DEF Keeps, Moves, Protocol!Next, AskInv
  <2> QED
    BY <2>2, <2>3
<1>2. CASE HandleStart
  <2>1. PICK debug \in BOOLEAN : Create(debug)
    BY <1>2 DEF HandleStart
  <2> QED
    BY <1>1, <2>1 DEF Create
<1>3. CASE ExecuteStart
  <2>1. CASE Create(FALSE)
    BY <1>1, <2>1 DEF Create
  <2>2. CASE UNCHANGED <<procId, alive, procVars, stack, pending, lost>>
    <3>1. UNCHANGED <<procId, alive, taskState, taskStamp, pending, lost, stack>>
      BY <2>2 DEF procVars
    <3>2. AskInv'
      BY <3>1 DEF AskInv, Distinct, Single, Begun, Tasks, Live
    <3>3. Status' = Status /\ Asked' = Asked
      BY <3>1 DEF Status, Asked
    <3> QED
      BY <3>1, <3>2, <3>3 DEF Keeps, Moves
  <2> QED
    BY <1>3, <2>1, <2>2 DEF ExecuteStart
<1>4. CASE HandleDestroy
  BY <1>4, Ends DEF HandleDestroy
<1>5. CASE HandleRun
  <2>1. /\ alive /\ stack = <<>> /\ HostLocks /\ session = "idle"
        /\ UNCHANGED <<procId, alive, taskState, taskStamp, pending, lost>>
    BY <1>5 DEF HandleRun, Idle, procVars
  <2>2. taskState = "none"
    BY <2>1 DEF IInv, HostInv
  <2>3. stack' # <<>>
    BY <1>5 DEF HandleRun
  <2>4. Status = "resting" /\ Status' = "working"
    BY <2>1, <2>2, <2>3 DEF Status
  <2>5. AskInv'
    BY <2>1, <2>2 DEF AskInv, Distinct, Single, Begun, Tasks, Live
  <2>6. Protocol!Wake
    BY <2>1, <2>4 DEF Protocol!Wake
  <2> QED
    BY <2>5, <2>6 DEF Keeps, Moves, Protocol!Next
<1>6. CASE EndSession
  <2>1. CASE alive /\ Release
    BY <1>6, <2>1, Ends DEF EndSession
  <2>2. CASE UNCHANGED <<alive, procVars>>
    <3>1. UNCHANGED <<procId, alive, taskState, taskStamp, pending, lost, stack>>
      BY <1>6, <2>2 DEF EndSession, procVars
    <3>2. AskInv'
      BY <3>1 DEF AskInv, Distinct, Single, Begun, Tasks, Live
    <3>3. Status' = Status /\ Asked' = Asked
      BY <3>1 DEF Status, Asked
    <3> QED
      BY <3>1, <3>2, <3>3 DEF Keeps, Moves
  <2> QED
    BY <1>6, <2>1, <2>2 DEF EndSession
<1> QED
  BY <1>2, <1>3, <1>4, <1>5, <1>6 DEF Command

\* fLoadBlock, called when the host answers.
LEMMA LoadedMoves ==
    ASSUME IInv, AskInv, Answering(stack), NEW t \in pending, Live(t.proc),
           LoadBlock(stack, pending \ {t}, "none"), UNCHANGED <<procId, alive, lost>>
    PROVE  Keeps
<1>1. alive' = TRUE /\ stack \in Seq(Frame)
  BY TaskFacts DEF Live
<1>2. ASSUME stack' \in Unwound(stack) PROVE stack # <<>> => stack' # <<>>
  <2>1. PICK k \in 0 .. Len(stack) :
            /\ stack' = SubSeq(stack, 1, k)
            /\ \A j \in (k + 1) .. Len(stack) : stack[j].fn # "task"
    BY <1>2 DEF Unwound
  <2>2. ASSUME stack # <<>> PROVE k = Len(stack)
    <3>1. stack[Len(stack)].fn = "task" /\ Len(stack) \in Nat
      BY <1>1, <2>2 DEF Answering
    <3> QED
      BY <2>1, <3>1
  <2>3. Len(stack') = k
    BY <1>1, <2>1, CutSeq
  <2> QED
    BY <1>1, <2>2, <2>3
<1>3. ASSUME NEW cause, Abort(cause, stack), taskState' = "none", pending' = pending \ {t},
             UNCHANGED taskStamp
      PROVE  Keeps
  BY <1>2, <1>3, UsesAnswer DEF Abort
<1>4. CASE StartTask("block", Append(stack, [fn |-> "block", proc |-> procId]), pending \ {t})
  <2> DEFINE frame == [fn |-> "block", proc |-> procId]
  <2>1. frame \in Frame
    BY TaskFacts DEF Frame, BlockFrame
  <2>2. Append(stack, frame) \in Seq(Frame)
    BY <1>1, <2>1, PushSeq
  <2> QED
    BY <1>1, <1>4, <2>2, UsesAndAsks DEF TaskKind
<1> QED
  BY <1>3, <1>4 DEF LoadBlock

\* The host answers.
LEMMA AnswerMoves ==
    ASSUME IInv, AskInv, Answering(stack), NEW t \in pending, TaskCompleted(t)
    PROVE  Keeps
<1> DEFINE rest == pending \ {t}
<1>1. stack \in Seq(Frame) /\ procId \in Nat /\ nested \in Nat
  BY TaskFacts DEF IInv, TypeOK
<1>2. CASE ~Live(t.proc)
  BY <1>2, Discards DEF TaskCompleted, procVars, hostVars
<1>3. CASE Live(t.proc)
  <2>1. alive = TRUE
    BY <1>3, TaskFacts DEF Live
  <2>2. ASSUME NEW kind \in {"resolve", "read"}, StartTask(kind, stack, rest),
               UNCHANGED <<procId, alive, hostVars>>
        PROVE  Keeps
    BY <1>1, <1>3, <2>1, <2>2, UsesAndAsks DEF TaskKind, hostVars
  <2>3. CASE Shutdown(stack, rest)
    BY <1>3, <2>3, UsesAndEnds
  <2>4. CASE CoreLoaded(rest)
    BY <2>2, <2>3, <2>4 DEF CoreLoaded
  <2>5. CASE Resolved(rest)
    BY <2>2, <2>3, <2>5 DEF Resolved
  <2>6. CASE BinaryLoaded(rest)
    <3>1. CASE LoadBlock(stack, rest, "none") /\ UNCHANGED <<procId, alive, hostVars>>
      BY <1>3, <3>1, LoadedMoves DEF hostVars
    <3> QED
      BY <2>2, <2>3, <2>6, <3>1 DEF BinaryLoaded
  <2>7. CASE BlockLoaded(rest)
    <3>1. /\ taskState' = "none" /\ pending' = rest
          /\ UNCHANGED <<procId, alive, taskStamp, lost>>
      BY <2>7 DEF BlockLoaded, hostVars
    <3>2. stack # <<>> => stack' # <<>>
      <4>1. CASE stack' = Enter(stack)
        BY <1>1, <4>1 DEF Enter
      <4>2. CASE stack' \in Unwound(stack) /\ stack # <<>>
        <5>1. PICK k \in 0 .. Len(stack) :
                  /\ stack' = SubSeq(stack, 1, k)
                  /\ \A j \in (k + 1) .. Len(stack) : stack[j].fn # "task"
          BY <4>2 DEF Unwound
        <5>2. stack[Len(stack)].fn = "task" /\ Len(stack) \in Nat \ {0}
          BY <1>1, <4>2 DEF Answering
        <5>3. k = Len(stack)
          BY <5>1, <5>2
        <5>4. Len(stack') = k
          BY <1>1, <5>1, CutSeq
        <5> QED
          BY <5>2, <5>3, <5>4
      <4> QED
        BY <2>7, <4>1, <4>2 DEF BlockLoaded, Abort
    <3> QED
      BY <1>3, <3>1, <3>2, UsesAnswer
  <2>8. CASE CallContinue(rest)
    <3>1. /\ taskState' = "none" /\ pending' = rest
          /\ UNCHANGED <<procId, alive, taskStamp, lost>>
      BY <2>8 DEF CallContinue, hostVars
    <3>2. stack' # <<>>
      BY <1>1, <2>8 DEF CallContinue
    <3> QED
      BY <1>3, <3>1, <3>2, UsesAnswer
  <2> QED
    BY <1>3, <2>4, <2>5, <2>6, <2>7, <2>8 DEF TaskCompleted
<1> QED
  BY <1>2, <1>3

\* The host loses a task: the question stays open.
LEMMA DropMoves == AskInv /\ HostDrops => Keeps
<1> SUFFICES ASSUME AskInv, HostDrops PROVE Keeps
  OBVIOUS
<1>1. PICK t \in pending : pending' = pending \ {t} /\ lost' = lost \union {t}
  BY DEF HostDrops
<1>2. UNCHANGED <<procId, alive, taskState, taskStamp, stack>>
  BY DEF HostDrops, procVars
<1>3. Tasks' = Tasks /\ pending' \intersect lost' = {}
  BY <1>1 DEF Tasks, AskInv, Distinct
<1>4. AskInv'
  BY <1>2, <1>3 DEF AskInv, Distinct, Single, Begun, Live
<1>5. Asked' = Asked /\ Status' = Status
  BY <1>2, <1>3 DEF Asked, Tasks, Status
<1> QED
  BY <1>2, <1>4, <1>5 DEF Keeps, Moves

\* Every step is one of the protocol.
LEMMA NextMoves == IInv /\ AskInv /\ [Next]_vars => Keeps
<1> SUFFICES ASSUME IInv, AskInv, [Next]_vars PROVE Keeps
  OBVIOUS
<1>1. CASE Command \/ EndSession
  BY <1>1, CommandMoves
<1>2. CASE ExecuteEnter \/ GuestStep
  BY <1>2, GuestMoves
<1>3. CASE SyscallStep
  BY <1>3, SyscallMoves
<1>4. CASE ReturnStep
  BY <1>4, ReturnMoves
<1>5. CASE HostInplace
  <2>1. Answering(stack) /\ \E t \in pending : TaskCompleted(t)
    BY <1>5 DEF HostInplace, On, Top, Answering
  <2> QED
    BY <2>1, AnswerMoves
<1>6. CASE HostAsync
  <2>1. Answering(stack) /\ \E t \in pending : TaskCompleted(t)
    BY <1>6 DEF HostAsync, Answering
  <2> QED
    BY <2>1, AnswerMoves
<1>7. CASE HostDrops
  BY <1>7, DropMoves
<1>8. CASE UNCHANGED vars \/ NoMoreCommands
  <2>1. UNCHANGED <<procId, alive, taskState, taskStamp, stack, pending, lost>>
    BY <1>8 DEF NoMoreCommands, vars, procVars, hostVars
  <2>2. AskInv'
    BY <2>1 DEF AskInv, Distinct, Single, Begun, Tasks, Live
  <2>3. Asked' = Asked /\ Status' = Status
    BY <2>1 DEF Asked, Status
  <2> QED
    BY <2>1, <2>2, <2>3 DEF Keeps, Moves
<1> QED
  BY <1>1, <1>2, <1>3, <1>4, <1>5, <1>6, <1>7, <1>8 DEF Next, HostStep

-----------------------------------------------------------------------------
\* What the prover knows of tasks and questions holds in every state.
THEOREM AskInvariance == Spec => []AskInv
<1>1. Init => AskInv
  BY DEF Init, AskInv, Distinct, Single, Begun, Tasks
<1>2. IInv /\ AskInv /\ [Next]_vars => AskInv'
  BY NextMoves DEF Keeps
<1> QED
  BY <1>1, <1>2, Invariance, PTL DEF Spec

\* The process implements TaskProtocol, for any host, in-place or not, that keeps or loses tasks:
\* it asks for one thing at a time, an answer wakes the process that asked, once, and one for a
\* process that is gone changes nothing.
THEOREM Implements == Spec => ImplementsProtocol
<1>1. Init => Protocol!Init
  BY DEF Init, Protocol!Init, Status
<1>2. IInv /\ AskInv /\ [Next]_vars => [Protocol!Next]_(Protocol!protocolVars)
  BY NextMoves DEF Keeps, Moves, Protocol!protocolVars, Asked
<1> QED
  BY <1>1, <1>2, Invariance, AskInvariance, PTL DEF Spec, ImplementsProtocol, Protocol!Spec
=============================================================================
