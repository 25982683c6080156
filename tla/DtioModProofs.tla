--------------------------- MODULE DtioModProofs ---------------------------
(***************************************************************************)
(* What TLAPS proves of DtioMod, for any clients, containers, buffers and  *)
(* bounds: its types, that a buffer stays with the call that allocated it, *)
(* that the schedule numbers of the calls under way are distinct, that no  *)
(* container opens files for more than its share of the transfers, and     *)
(* that the containers together implement DtioService.                     *)
(***************************************************************************)
EXTENDS DtioMod, SequenceTheorems, FiniteSetTheorems, TLAPS

(***************************************************************************)
(* The inductive invariant.  The type of the state is not inductive alone: *)
(* a method indexes the disk, the buffers and the map with the arguments   *)
(* of the call whose task it runs.                                         *)
(***************************************************************************)
IoOps == {"Write", "Read"}
MetaOps == {"MetaPut", "MetaGet"}

\* Where a client is in its call tells which task it has submitted, and the
\* method of the task which arguments the call has.
CallAt(c) ==
    /\ pc[c] \in {"idle", "return"} => task[c] = NoTask /\ call[c].buf = None
    /\ pc[c] = "scheduling" => task[c].method = "Schedule" /\ task[c].to = DirectHash(0)
                               /\ call[c].op \in IoOps
    /\ pc[c] = "waiting" => task[c].method = call[c].op /\ call[c].op \in IoOps \union MetaOps
    /\ pc[c] \in {"scheduling", "waiting"} =>
         /\ task[c].state # "none"
         /\ call[c].op \in IoOps => call[c].cell \in Cells /\ call[c].buf \in Buffers
         /\ call[c].op \in MetaOps => call[c].key \in Keys
         /\ call[c].op \in {"Write", "MetaPut"} => call[c].val \in Values

TypeInv == TypeOK /\ \A c \in Clients : CallAt(c)

\* A queued task is in one queue, once: that of its container and its priority.
QueuedAt(n, p) ==
    LET q == lanes[n][p]
    IN  /\ \A i \in 1 .. Len(q) :
             task[q[i]].state = "lane" /\ task[q[i]].to = n /\ Prio(task[q[i]].method) = p
        /\ \A i, j \in 1 .. Len(q) : q[i] = q[j] => i = j

LaneInv == \A n \in Containers, p \in Prios : QueuedAt(n, p)

\* The calls that have asked for a number and not got it.
Pending == {c \in Clients : pc[c] = "scheduling" /\ task[c].state \in {"net", "lane"}}

\* D numbers have been drawn.
Drawn(D) ==
    /\ D + Cardinality(Pending) = calls
    /\ D < Wrap => schedule_num[0] = D
    /\ \A c \in Clients : Numbered(c) => Number(c) < D

NumberInv ==
    /\ IsFiniteSet(Pending)
    /\ calls <= Wrap => \E D \in Nat : Drawn(D)
    /\ ScheduleDistinct
-----------------------------------------------------------------------------
\* A schedule number is reduced to a container.
LEMMA HashInRange == ASSUME NEW h \in Nat PROVE DirectHash(h) \in Containers
  BY NAssumption DEF DirectHash, Containers

LEMMA TaskFields ==
    ASSUME NEW method, NEW to, NEW state, NEW data, NEW out
    PROVE  LET new == NewTask(method, to, state, data, out)
           IN  /\ new.method = method /\ new.to = to /\ new.state = state
               /\ new.data = data /\ new.out = out
               /\ method \in Methods \union {"none"} /\ to \in Containers /\ data \in Content
                  /\ state \in {"none", "net", "lane", "back", "done"} /\ out \in Outputs
                  => new \in Task
  BY DEF NewTask, Task

LEMMA CallFields ==
    ASSUME NEW op, NEW cell, NEW key, NEW val, NEW buf, NEW res
    PROVE  LET new == NewCall(op, cell, key, val, buf, res)
           IN  /\ new.op = op /\ new.cell = cell /\ new.key = key /\ new.val = val
               /\ new.buf = buf /\ new.snum = 0 /\ new.res = res
               /\ op \in Ops \union {"none"} /\ cell \in Cells \union {None}
                  /\ key \in Keys \union {None} /\ val \in Values \union {None}
                  /\ buf \in Buffers \union {None} /\ res \in Answers
                  => new \in Call
  BY DEF NewCall, Call

LEMMA Empties ==
    /\ NoOut \in Outputs /\ NoTask \in Task /\ NoCall \in Call
    /\ NoTask.method = "none" /\ NoTask.state = "none"
    /\ NoCall.op = "none" /\ NoCall.buf = None
<1>1. NoOut \in Outputs
  BY LimitAssumption DEF NoOut, Outputs
<1>2. 0 \in Containers
  BY NAssumption DEF Containers
<1>3. Junk \in Content /\ None \in Answers
  BY DEF Content, Answers
<1> QED
  BY <1>1, <1>2, <1>3, TaskFields, CallFields DEF NoTask, NoCall

\* Submitting a task touches the client's task and queues it, if at all, in the
\* queue of its container and its priority.
LEMMA SubmitEffect ==
    ASSUME TypeOK, NEW c \in Clients, NEW method \in Methods, NEW to \in Containers,
           Submit(c, method, to)
    PROVE  /\ task' \in [Clients -> Task]
           /\ lanes' \in [Containers -> [Prios -> Seq(Clients)]]
           /\ task'[c].method = method /\ task'[c].to = to
           /\ task'[c].state \in {"net", "lane"} /\ task'[c].out = NoOut
           /\ \A d \in Clients : d # c => task'[d] = task[d]
           /\ \/ task'[c].state = "lane" /\ Enqueue(c, to, method)
              \/ task'[c].state = "net" /\ UNCHANGED lanes
<1>1. task' = [task EXCEPT ![c] = NewTask(method, to, IF to = Home[c] THEN "lane" ELSE "net",
                                          Junk, NoOut)]
  BY DEF Submit
<1>2. task'[c] = NewTask(method, to, IF to = Home[c] THEN "lane" ELSE "net", Junk, NoOut)
  BY <1>1 DEF TypeOK
<1>3. Junk \in Content
  BY DEF Content
<1>4. task'[c] \in Task
  BY <1>2, <1>3, TaskFields, Empties
<1>5. task' \in [Clients -> Task] /\ \A d \in Clients : d # c => task'[d] = task[d]
  BY <1>1, <1>2, <1>4 DEF TypeOK
<1>6. Prio(method) \in Prios
  BY DEF Prio, Prios
<1>7. Enqueue(c, to, method) => lanes' \in [Containers -> [Prios -> Seq(Clients)]]
  BY <1>6 DEF Enqueue, TypeOK
<1>8. /\ task'[c].method = method /\ task'[c].to = to /\ task'[c].out = NoOut
      /\ task'[c].state = IF to = Home[c] THEN "lane" ELSE "net"
  BY <1>2, TaskFields
<1>9. CASE to = Home[c]
  BY <1>5, <1>7, <1>8, <1>9 DEF Submit
<1>10. CASE to # Home[c]
  BY <1>5, <1>8, <1>10 DEF Submit, TypeOK
<1> QED
  BY <1>9, <1>10

\* Replacing a task by one with the same method and container.
LEMMA TaskStep ==
    ASSUME TypeOK, NEW c \in Clients, NEW state \in {"net", "lane", "back", "done"},
           NEW data \in Content, NEW out \in Outputs,
           task' = [task EXCEPT ![c] = NewTask(@.method, @.to, state, data, out)]
    PROVE  /\ task' \in [Clients -> Task]
           /\ task'[c].method = task[c].method /\ task'[c].to = task[c].to
           /\ task'[c].state = state /\ task'[c].out = out
           /\ \A d \in Clients : d # c => task'[d] = task[d]
<1>1. task'[c] = NewTask(task[c].method, task[c].to, state, data, out)
  BY DEF TypeOK
<1>2. task[c] \in Task
  BY DEF TypeOK
<1>3. task[c].method \in Methods \union {"none"} /\ task[c].to \in Containers
  BY <1>2 DEF Task
<1>4. task'[c] \in Task
  BY <1>1, <1>3, TaskFields
<1>5. task' \in [Clients -> Task] /\ \A d \in Clients : d # c => task'[d] = task[d]
  BY <1>1, <1>4 DEF TypeOK
<1> QED
  BY <1>1, <1>5, TaskFields

LEMMA CompleteEffect ==
    ASSUME TypeOK, NEW c \in Clients, NEW out \in Outputs, NEW data \in Content,
           Complete(c, out, data)
    PROVE  /\ task' \in [Clients -> Task]
           /\ task'[c].method = task[c].method /\ task'[c].to = task[c].to
           /\ task'[c].state \in {"back", "done"} /\ task'[c].out = out
           /\ \A d \in Clients : d # c => task'[d] = task[d]
<1> DEFINE s == IF Remote(c) THEN "back" ELSE "done"
<1>1. s \in {"back", "done"}
  OBVIOUS
<1>2. task' = [task EXCEPT ![c] = NewTask(task[c].method, task[c].to, s, data, out)]
  BY DEF Complete
<1> HIDE DEF s
<1>3. \A st \in {"net", "lane", "back", "done"}, da \in Content, ou \in Outputs :
        task' = [task EXCEPT ![c] = NewTask(task[c].method, task[c].to, st, da, ou)] =>
          /\ task' \in [Clients -> Task]
          /\ task'[c].method = task[c].method /\ task'[c].to = task[c].to
          /\ task'[c].state = st /\ task'[c].out = ou
          /\ \A d \in Clients : d # c => task'[d] = task[d]
  BY TaskStep
<1> QED
  BY <1>1, <1>2, <1>3

-----------------------------------------------------------------------------
(***************************************************************************)
(* The types, and what a call has when it is where it is.                  *)
(***************************************************************************)

\* A step of the call or of the task of c leaves the other clients where they are.
LEMMA ClientStep ==
    ASSUME TypeInv, NEW c \in Clients, TypeOK', CallAt(c)',
           \A d \in Clients : d # c => /\ pc'[d] = pc[d] /\ call'[d] = call[d]
                                       /\ task'[d] = task[d]
    PROVE  TypeInv'
<1> SUFFICES ASSUME NEW d \in Clients, d # c PROVE CallAt(d)'
  BY DEF TypeInv
<1> QED
  BY DEF TypeInv, CallAt

LEMMA InitType == Init => TypeInv
<1> SUFFICES ASSUME Init PROVE TypeInv
  OBVIOUS
<1>1. \A c \in Clients : CallAt(c)
  BY Empties DEF Init, CallAt
<1>2. << >> \in Seq(Clients)
  OBVIOUS
<1>3. Zero \in Content /\ Junk \in Content
  BY DEF Content
<1>4. TypeOK
  BY <1>2, <1>3, Empties, LimitAssumption DEF Init, TypeOK
<1> QED
  BY <1>1, <1>4 DEF TypeInv

LEMMA BeginIoType ==
    ASSUME TypeInv, NEW c \in Clients, NEW op \in IoOps, NEW x \in Cells,
           NEW v \in Values \union {None}, op = "Write" => v \in Values,
           BeginIo(c, op, x, v)
    PROVE  TypeInv'
<1>1. PICK b \in Buffers :
        /\ buffer' = [buffer EXCEPT ![b] = [owner |-> c,
                            content |-> IF op = "Write" THEN v ELSE @.content]]
        /\ call' = [call EXCEPT ![c] = NewCall(op, x, None, v, b, None)]
  BY DEF BeginIo
<1>2. op \in Ops /\ "Schedule" \in Methods /\ DirectHash(0) \in Containers
  BY HashInRange DEF BeginIo, Methods
<1>3. NewCall(op, x, None, v, b, None) \in Call
  <2>1. None \in Answers
    BY DEF Answers
  <2> QED
    BY <1>2, <2>1, CallFields
<1>4. /\ call' \in [Clients -> Call] /\ call'[c] = NewCall(op, x, None, v, b, None)
      /\ \A d \in Clients : d # c => call'[d] = call[d]
  BY <1>1, <1>3 DEF TypeInv, TypeOK
<1>5. buffer' \in [Buffers -> [owner : Clients \union {None}, content : Content]]
  BY <1>1 DEF TypeInv, TypeOK, Content
<1>6. calls' \in 0 .. MaxIo
  BY LimitAssumption DEF BeginIo, TypeInv, TypeOK
<1>7. /\ pc' \in [Clients -> {"idle", "scheduling", "waiting", "return"}]
      /\ pc'[c] = "scheduling" /\ \A d \in Clients : d # c => pc'[d] = pc[d]
  BY DEF BeginIo, TypeInv, TypeOK
<1>8. Submit(c, "Schedule", DirectHash(0))
  BY DEF BeginIo
<1>9. TypeOK'
  BY <1>2, <1>4, <1>5, <1>6, <1>7, <1>8, SubmitEffect DEF BeginIo, TypeInv, TypeOK, Server
<1>10. CallAt(c)'
  BY <1>2, <1>4, <1>7, <1>8, SubmitEffect, CallFields DEF TypeInv, CallAt, IoOps, MetaOps
<1> QED
  BY <1>2, <1>4, <1>7, <1>8, <1>9, <1>10, SubmitEffect, ClientStep DEF TypeInv

LEMMA BeginMetaType ==
    ASSUME TypeInv, NEW c \in Clients, NEW op \in MetaOps, NEW k \in Keys,
           NEW v \in Values \union {None}, op = "MetaPut" => v \in Values,
           NEW to \in Containers, BeginMeta(c, op, k, v, to)
    PROVE  TypeInv'
<1>1. call' = [call EXCEPT ![c] = NewCall(op, None, k, v, None, None)]
  BY DEF BeginMeta
<1>2. op \in Ops /\ op \in Methods /\ IoRoute(to) \in Containers
  BY HashInRange DEF BeginMeta, Methods, MetaOps, IoRoute
<1>3. NewCall(op, None, k, v, None, None) \in Call
  <2>1. None \in Answers
    BY DEF Answers
  <2> QED
    BY <1>2, <2>1, CallFields
<1>4. /\ call' \in [Clients -> Call] /\ call'[c] = NewCall(op, None, k, v, None, None)
      /\ \A d \in Clients : d # c => call'[d] = call[d]
  BY <1>1, <1>3 DEF TypeInv, TypeOK
<1>5. /\ pc' \in [Clients -> {"idle", "scheduling", "waiting", "return"}]
      /\ pc'[c] = "waiting" /\ \A d \in Clients : d # c => pc'[d] = pc[d]
  BY DEF BeginMeta, TypeInv, TypeOK
<1>6. Submit(c, op, IoRoute(to))
  BY DEF BeginMeta
<1>7. TypeOK'
  BY <1>2, <1>4, <1>5, <1>6, SubmitEffect DEF BeginMeta, TypeInv, TypeOK, Server
<1>8. CallAt(c)'
  BY <1>2, <1>4, <1>5, <1>6, SubmitEffect, CallFields DEF TypeInv, CallAt, IoOps, MetaOps
<1> QED
  BY <1>2, <1>4, <1>5, <1>6, <1>7, <1>8, SubmitEffect, ClientStep DEF TypeInv

\* The serialisations change the state of the task and keep what it asks for.
LEMMA SerializeStartEffect ==
    ASSUME TypeInv, NEW c \in Clients, SerializeStart(c)
    PROVE  /\ task' \in [Clients -> Task]
           /\ task'[c].method = task[c].method /\ task'[c].to = task[c].to
           /\ task'[c].state = "lane" /\ task'[c].out = task[c].out
           /\ \A d \in Clients : d # c => task'[d] = task[d]
<1> DEFINE data == IF task[c].method \in {"Write", "Read"}
                   THEN buffer[call[c].buf].content ELSE Junk
<1>1. task' = [task EXCEPT ![c] = NewTask(task[c].method, task[c].to, "lane", data, task[c].out)]
  BY DEF SerializeStart
<1>2. data \in Content
  <2>1. CASE task[c].method \in {"Write", "Read"}
    <3>1. pc[c] \in {"scheduling", "waiting"} /\ call[c].op \in IoOps
      BY <2>1, Empties DEF TypeInv, TypeOK, CallAt, IoOps, MetaOps
    <3>2. call[c].buf \in Buffers
      BY <3>1 DEF TypeInv, CallAt
    <3>3. buffer[call[c].buf] \in [owner : Clients \union {None}, content : Content]
      BY <3>2 DEF TypeInv, TypeOK
    <3>4. data = buffer[call[c].buf].content
      BY <2>1
    <3> QED
      BY <3>3, <3>4
  <2>2. CASE task[c].method \notin {"Write", "Read"}
    BY <2>2 DEF Content
  <2> QED
    BY <2>1, <2>2
<1>3. task[c].out \in Outputs
  BY DEF TypeInv, TypeOK, Task
<1> HIDE DEF data
<1>4. \A da \in Content, ou \in Outputs :
        task' = [task EXCEPT ![c] = NewTask(task[c].method, task[c].to, "lane", da, ou)] =>
          /\ task' \in [Clients -> Task]
          /\ task'[c].method = task[c].method /\ task'[c].to = task[c].to
          /\ task'[c].state = "lane" /\ task'[c].out = ou
          /\ \A d \in Clients : d # c => task'[d] = task[d]
  BY TaskStep DEF TypeInv
<1> QED
  BY <1>1, <1>2, <1>3, <1>4

LEMMA SerializeStartType ==
    ASSUME TypeInv, NEW c \in Clients, SerializeStart(c)
    PROVE  TypeInv'
<1>1. task[c].method # "none"
  <2>1. pc[c] \in {"scheduling", "waiting"}
    BY Empties DEF SerializeStart, TypeInv, TypeOK, CallAt
  <2> QED
    BY <2>1 DEF TypeInv, CallAt, IoOps, MetaOps
<1>2. Prio(task[c].method) \in Prios /\ task[c].to \in Containers
  BY DEF Prio, Prios, TypeInv, TypeOK, Task
<1>3. lanes' \in [Containers -> [Prios -> Seq(Clients)]]
  BY <1>2 DEF SerializeStart, Enqueue, TypeInv, TypeOK
<1>4. TypeOK'
  BY <1>3, SerializeStartEffect DEF SerializeStart, TypeInv, TypeOK, Server
<1>5. CallAt(c)'
  <2>1. CallAt(c) /\ pc[c] \notin {"idle", "return"}
    BY Empties DEF SerializeStart, TypeInv, CallAt
  <2>2. pc' = pc /\ call' = call
    BY DEF SerializeStart
  <2>3. /\ task'[c].method = task[c].method /\ task'[c].to = task[c].to
        /\ task'[c].state # "none"
    BY SerializeStartEffect
  <2> QED
    BY <2>1, <2>2, <2>3 DEF CallAt
<1> QED
  BY <1>4, <1>5, SerializeStartEffect, ClientStep DEF SerializeStart

LEMMA SerializeEndEffect ==
    ASSUME TypeInv, NEW c \in Clients, SerializeEnd(c)
    PROVE  /\ task' \in [Clients -> Task]
           /\ task'[c].method = task[c].method /\ task'[c].to = task[c].to
           /\ task'[c].state = "done"
           /\ task[c].method = "Schedule" => task'[c].out = task[c].out
           /\ \A d \in Clients : d # c => task'[d] = task[d]
<1> DEFINE out == IF task[c].method \in {"Schedule", "MetaGet"} THEN task[c].out ELSE NoOut
<1>1. task' = [task EXCEPT ![c] = NewTask(task[c].method, task[c].to, "done", task[c].data, out)]
  BY DEF SerializeEnd
<1>2. task[c].data \in Content /\ task[c].out \in Outputs
  BY DEF TypeInv, TypeOK, Task
<1>3. out \in Outputs /\ (task[c].method = "Schedule" => out = task[c].out)
  BY <1>2, Empties
<1> HIDE DEF out
<1>4. \A da \in Content, ou \in Outputs :
        task' = [task EXCEPT ![c] = NewTask(task[c].method, task[c].to, "done", da, ou)] =>
          /\ task' \in [Clients -> Task]
          /\ task'[c].method = task[c].method /\ task'[c].to = task[c].to
          /\ task'[c].state = "done" /\ task'[c].out = ou
          /\ \A d \in Clients : d # c => task'[d] = task[d]
  BY TaskStep DEF TypeInv
<1> QED
  BY <1>1, <1>2, <1>3, <1>4

LEMMA SerializeEndType ==
    ASSUME TypeInv, NEW c \in Clients, SerializeEnd(c)
    PROVE  TypeInv'
<1>1. TypeOK'
  BY SerializeEndEffect DEF SerializeEnd, TypeInv, TypeOK, Server
<1>2. CallAt(c)'
  BY SerializeEndEffect, Empties DEF SerializeEnd, TypeInv, TypeOK, CallAt
<1> QED
  BY <1>1, <1>2, SerializeEndEffect, ClientStep DEF SerializeEnd

\* The I/O task goes out with the arguments of the call and the number it drew.
LEMMA SubmitIoEffect ==
    ASSUME TypeInv, NEW c \in Clients, SubmitIo(c)
    PROVE  /\ call[c].op \in Methods /\ call[c].op \in IoOps
           /\ DirectHash(task[c].out.schedule_num) \in Containers
           /\ task[c].out.schedule_num \in 0 .. Wrap - 1
           /\ call' \in [Clients -> Call]
           /\ call'[c] = [call[c] EXCEPT !.snum = task[c].out.schedule_num]
           /\ \A d \in Clients : d # c => call'[d] = call[d]
<1>1. task[c].out.schedule_num \in 0 .. Wrap - 1
  BY DEF TypeInv, TypeOK, Task, Outputs
<1>2. task[c].out.schedule_num \in Nat
  BY <1>1, LimitAssumption
<1>3. call[c].op \in IoOps
  BY DEF SubmitIo, TypeInv, CallAt
<1>4. call[c] \in Call
  BY DEF TypeInv, TypeOK
<1>5. [call[c] EXCEPT !.snum = task[c].out.schedule_num] \in Call
  BY <1>2, <1>4 DEF Call
<1>6. call' = [call EXCEPT ![c] = [call[c] EXCEPT !.snum = task[c].out.schedule_num]]
  BY DEF SubmitIo, TypeInv, TypeOK
<1> QED
  BY <1>1, <1>2, <1>3, <1>5, <1>6, HashInRange DEF TypeInv, TypeOK, IoOps, Methods

LEMMA SubmitIoType ==
    ASSUME TypeInv, NEW c \in Clients, SubmitIo(c)
    PROVE  TypeInv'
<1>1. Submit(c, call[c].op, DirectHash(task[c].out.schedule_num))
  BY DEF SubmitIo
<1>2. /\ pc' \in [Clients -> {"idle", "scheduling", "waiting", "return"}]
      /\ pc'[c] = "waiting" /\ \A d \in Clients : d # c => pc'[d] = pc[d]
  BY DEF SubmitIo, TypeInv, TypeOK
<1>3. TypeOK'
  BY <1>1, <1>2, SubmitIoEffect, SubmitEffect DEF SubmitIo, TypeInv, TypeOK, Server
<1>4. call[c] \in Call
  BY DEF TypeInv, TypeOK
<1>5. /\ call'[c].op = call[c].op /\ call'[c].cell = call[c].cell
      /\ call'[c].buf = call[c].buf /\ call'[c].val = call[c].val
  BY <1>4, SubmitIoEffect DEF Call
<1>6. call[c].cell \in Cells /\ call[c].buf \in Buffers
      /\ (call[c].op = "Write" => call[c].val \in Values)
  BY SubmitIoEffect DEF SubmitIo, TypeInv, CallAt
<1>7. CallAt(c)'
  BY <1>1, <1>2, <1>5, <1>6, SubmitIoEffect, SubmitEffect
     DEF TypeInv, CallAt, IoOps, MetaOps
<1> QED
  BY <1>1, <1>2, <1>3, <1>7, SubmitIoEffect, SubmitEffect, ClientStep DEF TypeInv

LEMMA AnswerType ==
    ASSUME TypeInv, NEW c \in Clients, pc[c] = "waiting"
    PROVE  Answer(c, task[c].out) \in Answers
<1>1. CASE call[c].op = "Write"
  <2>1. Answer(c, task[c].out) = <<"Write", call[c].cell, call[c].val>>
    BY <1>1, Zenon DEF Answer
  <2>2. call[c].cell \in Cells /\ call[c].val \in Values
    BY <1>1 DEF TypeInv, CallAt, IoOps
  <2> QED
    BY <2>1, <2>2 DEF Answers
<1>2. CASE call[c].op = "Read"
  <2>1. Answer(c, task[c].out) = <<"Read", buffer[call[c].buf].content>>
    BY <1>2, Zenon DEF Answer
  <2>2. call[c].buf \in Buffers
    BY <1>2 DEF TypeInv, CallAt, IoOps
  <2>3. buffer[call[c].buf].content \in Content
    BY <2>2 DEF TypeInv, TypeOK
  <2> QED
    BY <2>1, <2>3 DEF Answers
<1>3. CASE call[c].op = "MetaPut"
  <2>1. Answer(c, task[c].out) = <<"MetaPut", call[c].key, call[c].val>>
    BY <1>3, Zenon DEF Answer
  <2>2. call[c].key \in Keys /\ call[c].val \in Values
    BY <1>3 DEF TypeInv, CallAt, MetaOps
  <2> QED
    BY <2>1, <2>2 DEF Answers
<1>4. CASE call[c].op = "MetaGet"
  <2>1. Answer(c, task[c].out) = <<"MetaGet", task[c].out.presence, task[c].out.val>>
    BY <1>4, Zenon DEF Answer
  <2>2. task[c].out \in Outputs
    BY DEF TypeInv, TypeOK, Task
  <2>3. task[c].out.presence \in BOOLEAN /\ task[c].out.val \in Values \union {None}
    BY <2>2 DEF Outputs
  <2> QED
    BY <2>1, <2>3 DEF Answers
<1> QED
  BY <1>1, <1>2, <1>3, <1>4 DEF TypeInv, CallAt, IoOps, MetaOps

LEMMA FinishType ==
    ASSUME TypeInv, NEW c \in Clients, Finish(c)
    PROVE  TypeInv'
<1> DEFINE new == NewCall(call[c].op, None, None, None, None, Answer(c, task[c].out))
<1>1. call[c].op \in Ops \union {"none"} /\ call[c].buf \in Buffers \union {None}
  <2>1. call[c] \in Call
    BY DEF TypeInv, TypeOK
  <2> QED
    BY <2>1 DEF Call
<1>2. new \in Call /\ new.buf = None
  BY <1>1, AnswerType, CallFields DEF Finish
<1>3. call' = [call EXCEPT ![c] = new]
  BY DEF Finish
<1> HIDE DEF new
<1>4. call' \in [Clients -> Call] /\ call'[c] = new /\ \A d \in Clients : d # c => call'[d] = call[d]
  BY <1>2, <1>3 DEF TypeInv, TypeOK
<1>5. buffer' \in [Buffers -> [owner : Clients \union {None}, content : Content]]
  <2>1. CASE call[c].buf = None
    BY <2>1 DEF Finish, TypeInv, TypeOK
  <2>2. CASE call[c].buf \in Buffers
    BY <2>2, ValueAssumption DEF Finish, TypeInv, TypeOK
  <2> QED
    BY <1>1, <2>1, <2>2
<1>6. /\ task' \in [Clients -> Task] /\ task'[c] = NoTask
      /\ \A d \in Clients : d # c => task'[d] = task[d]
  BY Empties DEF Finish, TypeInv, TypeOK
<1>7. /\ pc' \in [Clients -> {"idle", "scheduling", "waiting", "return"}]
      /\ pc'[c] = "return" /\ \A d \in Clients : d # c => pc'[d] = pc[d]
  BY DEF Finish, TypeInv, TypeOK
<1>8. TypeOK'
  BY <1>4, <1>5, <1>6, <1>7 DEF Finish, TypeInv, TypeOK, Server
<1>9. CallAt(c)'
  BY <1>2, <1>4, <1>6, <1>7 DEF CallAt
<1> QED
  BY <1>4, <1>6, <1>7, <1>8, <1>9, ClientStep

LEMMA ReturnType ==
    ASSUME TypeInv, NEW c \in Clients, Return(c)
    PROVE  TypeInv'
<1>1. call' \in [Clients -> Call] /\ call'[c] = NoCall /\ \A d \in Clients : d # c => call'[d] = call[d]
  BY Empties DEF Return, TypeInv, TypeOK
<1>2. /\ pc' \in [Clients -> {"idle", "scheduling", "waiting", "return"}]
      /\ pc'[c] = "idle" /\ \A d \in Clients : d # c => pc'[d] = pc[d]
  BY DEF Return, TypeInv, TypeOK
<1>3. TypeOK'
  BY <1>1, <1>2 DEF Return, TypeInv, TypeOK, Server
<1>4. task[c] = NoTask /\ task' = task
  BY DEF Return, TypeInv, CallAt
<1>5. CallAt(c)'
  BY <1>1, <1>2, <1>4, Empties DEF CallAt
<1> QED
  BY <1>1, <1>2, <1>3, <1>4, <1>5, ClientStep

-----------------------------------------------------------------------------
\* The client whose task a container runs has the arguments of the task's method.
LEMMA RunningCall ==
    ASSUME TypeInv, NEW c \in Clients, task[c].method # "none"
    PROVE  /\ pc[c] \in {"scheduling", "waiting"}
           /\ task[c].method = "Schedule" => pc[c] = "scheduling"
           /\ task[c].method \in IoOps => call[c].cell \in Cells /\ call[c].buf \in Buffers
           /\ task[c].method \in MetaOps => call[c].key \in Keys
           /\ task[c].method = "MetaPut" => call[c].val \in Values
<1>1. CallAt(c) /\ pc[c] \in {"scheduling", "waiting"}
  BY Empties DEF TypeInv, TypeOK, CallAt
<1> QED
  BY <1>1 DEF CallAt, IoOps, MetaOps

\* A method is run once and leaves its task complete, and the container typed.
MethodEffect(n, c) ==
    /\ disk' \in [Cells -> Content] /\ fds' \in [Containers -> 0 .. FdLimit]
    /\ buffer' \in [Buffers -> [owner : Clients \union {None}, content : Content]]
    /\ schedule_num' \in [Containers -> 0 .. Wrap - 1]
    /\ metamap' \in [Containers -> [Keys -> Values \union {None}]]
    /\ task' \in [Clients -> Task]
    /\ task'[c].method = task[c].method /\ task'[c].to = task[c].to
    /\ task'[c].state \in {"back", "done"}
    /\ \A d \in Clients : d # c => task'[d] = task[d]
    /\ \A b \in Buffers : buffer'[b].owner = buffer[b].owner
    /\ fds' = fds \/ (task[c].method \in IoOps /\ fds' = [fds EXCEPT ![n] = @ + 1])
    /\ IF task[c].method = "Schedule"
       THEN /\ task'[c].out.schedule_num = schedule_num[n]
            /\ schedule_num' = [schedule_num EXCEPT ![n] = IF @ + 1 = Wrap THEN 0 ELSE @ + 1]
       ELSE UNCHANGED schedule_num

LEMMA ScheduleEffect ==
    ASSUME TypeInv, NEW n \in Containers, NEW c \in Clients,
           task[c].method = "Schedule", Schedule(n, c)
    PROVE  MethodEffect(n, c)
<1> DEFINE out == [NoOut EXCEPT !.schedule_num = schedule_num[n]]
<1>1. out \in Outputs /\ out.schedule_num = schedule_num[n]
  BY DEF TypeInv, TypeOK, Outputs, NoOut
<1>2. task[c].data \in Content
  BY DEF TypeInv, TypeOK, Task
<1>3. Complete(c, out, task[c].data)
  BY DEF Schedule
<1>4. schedule_num' \in [Containers -> 0 .. Wrap - 1]
  BY LimitAssumption DEF Schedule, TypeInv, TypeOK
<1> HIDE DEF out
<1>5. /\ task' \in [Clients -> Task]
      /\ task'[c].method = task[c].method /\ task'[c].to = task[c].to
      /\ task'[c].state \in {"back", "done"} /\ task'[c].out = out
      /\ \A d \in Clients : d # c => task'[d] = task[d]
  BY <1>1, <1>2, <1>3, CompleteEffect DEF TypeInv
<1> QED
  BY <1>1, <1>4, <1>5 DEF Schedule, MethodEffect, TypeInv, TypeOK

\* What a transfer works on is content, wherever the task runs.
LEMMA DataType ==
    ASSUME TypeInv, NEW c \in Clients, task[c].method \in IoOps
    PROVE  Data(c) \in Content /\ task[c].data \in Content
<1>1. task[c].data \in Content
  BY DEF TypeInv, TypeOK, Task
<1>2. call[c].buf \in Buffers
  BY RunningCall DEF IoOps
<1>3. buffer[call[c].buf].content \in Content
  BY <1>2 DEF TypeInv, TypeOK
<1> QED
  BY <1>1, <1>3 DEF Data

LEMMA WriteEffect ==
    ASSUME TypeInv, NEW n \in Containers, NEW c \in Clients,
           task[c].method = "Write", Write(n, c)
    PROVE  MethodEffect(n, c)
<1>1. Data(c) \in Content /\ task[c].data \in Content
  BY DataType DEF IoOps
<1>2. call[c].cell \in Cells
  BY RunningCall DEF IoOps
<1>3. disk' \in [Cells -> Content] /\ fds' \in [Containers -> 0 .. FdLimit]
  <2>1. CASE fds[n] < FdLimit
    <3>1. fds' = [fds EXCEPT ![n] = @ + 1] /\ disk' = [disk EXCEPT ![call[c].cell] = Data(c)]
      BY <2>1 DEF Write
    <3>2. fds[n] + 1 \in 0 .. FdLimit
      BY <2>1, LimitAssumption DEF TypeInv, TypeOK
    <3> QED
      BY <1>1, <1>2, <3>1, <3>2 DEF TypeInv, TypeOK
  <2>2. CASE ~ (fds[n] < FdLimit)
    BY <2>2 DEF Write, TypeInv, TypeOK
  <2> QED
    BY <2>1, <2>2
<1>4. Complete(c, NoOut, task[c].data)
  BY DEF Write
<1>5. /\ task' \in [Clients -> Task]
      /\ task'[c].method = task[c].method /\ task'[c].to = task[c].to
      /\ task'[c].state \in {"back", "done"}
      /\ \A d \in Clients : d # c => task'[d] = task[d]
  BY <1>1, <1>4, Empties, CompleteEffect DEF TypeInv
<1> QED
  BY <1>3, <1>5 DEF Write, MethodEffect, TypeInv, TypeOK, IoOps

LEMMA ReadEffect ==
    ASSUME TypeInv, NEW n \in Containers, NEW c \in Clients,
           task[c].method = "Read", Read(n, c)
    PROVE  MethodEffect(n, c)
<1> DEFINE got == IF fds[n] < FdLimit THEN disk[call[c].cell] ELSE Data(c)
<1>1. call[c].cell \in Cells /\ call[c].buf \in Buffers
  BY RunningCall DEF IoOps
<1>2. got \in Content
  <2>1. disk[call[c].cell] \in Content
    BY <1>1 DEF TypeInv, TypeOK
  <2>2. Data(c) \in Content
    BY DataType DEF IoOps
  <2> QED
    BY <2>1, <2>2
<1>3. /\ fds' = IF fds[n] < FdLimit THEN [fds EXCEPT ![n] = @ + 1] ELSE fds
      /\ Complete(c, NoOut, got)
      /\ buffer' = IF Remote(c) THEN buffer ELSE [buffer EXCEPT ![call[c].buf].content = got]
      /\ UNCHANGED <<disk, schedule_num, metamap>>
  BY DEF Read
<1> HIDE DEF got
<1>4. fds' \in [Containers -> 0 .. FdLimit]
  BY <1>3, LimitAssumption DEF TypeInv, TypeOK
<1>5. /\ buffer' \in [Buffers -> [owner : Clients \union {None}, content : Content]]
      /\ \A b \in Buffers : buffer'[b].owner = buffer[b].owner
  BY <1>1, <1>2, <1>3 DEF TypeInv, TypeOK
<1>6. /\ task' \in [Clients -> Task]
      /\ task'[c].method = task[c].method /\ task'[c].to = task[c].to
      /\ task'[c].state \in {"back", "done"}
      /\ \A d \in Clients : d # c => task'[d] = task[d]
  BY <1>2, <1>3, Empties, CompleteEffect DEF TypeInv
<1> QED
  BY <1>3, <1>4, <1>5, <1>6 DEF MethodEffect, TypeInv, TypeOK, IoOps

LEMMA MetaPutEffect ==
    ASSUME TypeInv, NEW n \in Containers, NEW c \in Clients,
           task[c].method = "MetaPut", MetaPut(n, c)
    PROVE  MethodEffect(n, c)
<1>1. call[c].key \in Keys /\ call[c].val \in Values
  BY RunningCall DEF MetaOps
<1>2. task[c].data \in Content
  BY DEF TypeInv, TypeOK, Task
<1>3. metamap' \in [Containers -> [Keys -> Values \union {None}]]
  BY <1>1 DEF MetaPut, TypeInv, TypeOK
<1>4. Complete(c, NoOut, task[c].data)
  BY DEF MetaPut
<1>5. /\ task' \in [Clients -> Task]
      /\ task'[c].method = task[c].method /\ task'[c].to = task[c].to
      /\ task'[c].state \in {"back", "done"}
      /\ \A d \in Clients : d # c => task'[d] = task[d]
  BY <1>2, <1>4, Empties, CompleteEffect DEF TypeInv
<1> QED
  BY <1>3, <1>5 DEF MetaPut, MethodEffect, TypeInv, TypeOK

LEMMA MetaGetEffect ==
    ASSUME TypeInv, NEW n \in Containers, NEW c \in Clients,
           task[c].method = "MetaGet", MetaGet(n, c)
    PROVE  MethodEffect(n, c)
<1> DEFINE found == metamap[n][call[c].key]
           out == [schedule_num |-> 0, presence |-> found # None, val |-> found]
<1>1. call[c].key \in Keys
  BY RunningCall DEF MetaOps
<1>2. task[c].data \in Content
  BY DEF TypeInv, TypeOK, Task
<1>3. found \in Values \union {None}
  BY <1>1 DEF TypeInv, TypeOK
<1>4. out \in Outputs
  BY <1>3, LimitAssumption DEF Outputs
<1>5. Complete(c, out, task[c].data) /\ UNCHANGED <<Server, buffer>>
  BY DEF MetaGet
<1> HIDE DEF out
<1>6. /\ task' \in [Clients -> Task]
      /\ task'[c].method = task[c].method /\ task'[c].to = task[c].to
      /\ task'[c].state \in {"back", "done"}
      /\ \A d \in Clients : d # c => task'[d] = task[d]
  BY <1>2, <1>4, <1>5, CompleteEffect DEF TypeInv
<1> QED
  BY <1>5, <1>6 DEF Server, MethodEffect, TypeInv, TypeOK

\* A container's step is its queue's first task, run and taken out.
LEMMA RunEffect ==
    ASSUME TypeInv, NEW n \in Containers, NEW p \in Prios, Run(n, p)
    PROVE  LET q == lanes[n][p]
               c == Head(q)
           IN  /\ q \in Seq(Clients) /\ q # << >> /\ c \in Clients
               /\ lanes' = [lanes EXCEPT ![n][p] = Tail(q)]
               /\ task[c].method \in Methods /\ MethodEffect(n, c)
<1> DEFINE q == lanes[n][p]
           c == Head(q)
<1>1. q \in Seq(Clients) /\ q # << >>
  BY DEF Run, TypeInv, TypeOK
<1>2. c \in Clients
  BY <1>1
<1>3. lanes' = [lanes EXCEPT ![n][p] = Tail(q)]
  BY DEF Run, TypeInv, TypeOK
<1>4. \/ task[c].method = "Schedule" /\ Schedule(n, c)
      \/ task[c].method = "Write" /\ Write(n, c)
      \/ task[c].method = "Read" /\ Read(n, c)
      \/ task[c].method = "MetaPut" /\ MetaPut(n, c)
      \/ task[c].method = "MetaGet" /\ MetaGet(n, c)
  BY DEF Run
<1> HIDE DEF c
<1>5. task[c].method \in Methods /\ MethodEffect(n, c)
  BY <1>2, <1>4, ScheduleEffect, WriteEffect, ReadEffect, MetaPutEffect, MetaGetEffect
     DEF Methods
<1> QED
  BY <1>1, <1>2, <1>3, <1>5 DEF c

LEMMA RunType ==
    ASSUME TypeInv, NEW n \in Containers, NEW p \in Prios, Run(n, p)
    PROVE  TypeInv'
<1>1. PICK c \in Clients : /\ lanes' = [lanes EXCEPT ![n][p] = Tail(lanes[n][p])]
                           /\ task[c].method \in Methods /\ MethodEffect(n, c)
  BY RunEffect
<1>2. lanes' \in [Containers -> [Prios -> Seq(Clients)]]
  <2>1. Tail(lanes[n][p]) \in Seq(Clients)
    BY RunEffect
  <2> QED
    BY <1>1, <2>1 DEF TypeInv, TypeOK
<1>3. pc' = pc /\ call' = call /\ calls' = calls
  BY DEF Run
<1>4. TypeOK'
  BY <1>1, <1>2, <1>3 DEF MethodEffect, TypeInv, TypeOK
<1>5. CallAt(c)'
  <2>1. task[c].method # "none"
    BY <1>1 DEF Methods
  <2>2. pc[c] \in {"scheduling", "waiting"} /\ CallAt(c)
    BY <2>1, RunningCall DEF TypeInv
  <2> QED
    BY <1>1, <1>3, <2>2 DEF MethodEffect, CallAt
<1> QED
  BY <1>1, <1>3, <1>4, <1>5, ClientStep DEF MethodEffect

LEMMA NextType == TypeInv /\ [Next]_vars => TypeInv'
<1> SUFFICES ASSUME TypeInv, [Next]_vars PROVE TypeInv'
  OBVIOUS
<1>1. ASSUME NEW c \in Clients, Begin(c) PROVE TypeInv'
  <2>1. ASSUME NEW x \in Cells, BeginIo(c, "Read", x, None) PROVE TypeInv'
    BY <2>1, BeginIoType DEF IoOps
  <2>2. ASSUME NEW x \in Cells, NEW v \in Values, BeginIo(c, "Write", x, v) PROVE TypeInv'
    BY <2>2, BeginIoType DEF IoOps
  <2>3. ASSUME NEW k \in Keys, NEW to \in Containers, BeginMeta(c, "MetaGet", k, None, to)
        PROVE  TypeInv'
    BY <2>3, BeginMetaType DEF MetaOps
  <2>4. ASSUME NEW k \in Keys, NEW to \in Containers, NEW v \in Values,
               BeginMeta(c, "MetaPut", k, v, to)
        PROVE  TypeInv'
    BY <2>4, BeginMetaType DEF MetaOps
  <2> QED
    BY <1>1, <2>1, <2>2, <2>3, <2>4 DEF Begin
<1>2. ASSUME NEW c \in Clients, Step(c) PROVE TypeInv'
  BY <1>2, SerializeStartType, SerializeEndType, SubmitIoType, FinishType, ReturnType DEF Step
<1>3. ASSUME NEW n \in Containers, NEW p \in Prios, Run(n, p) PROVE TypeInv'
  BY <1>3, RunType
<1>4. CASE UNCHANGED vars
  BY <1>4 DEF vars, TypeInv, TypeOK, CallAt
<1> QED
  BY <1>1, <1>2, <1>3, <1>4 DEF Next

LEMMA TypeInvariant == Spec => []TypeInv
<1> QED
  BY InitType, NextType, PTL DEF Spec

\* For any clients, containers, buffers and bounds, the state of the runtime and
\* of its clients has its type.
THEOREM TypeCorrect == Spec => []TypeOK
<1>1. TypeInv => TypeOK
  BY DEF TypeInv
<1> QED
  BY <1>1, TypeInvariant, PTL

-----------------------------------------------------------------------------
(***************************************************************************)
(* A buffer stays with its call: it is given out only when nobody owns it, *)
(* and only the call that owns it frees it.                                *)
(***************************************************************************)

BufferInv == TypeInv /\ BufferHeld

LEMMA CallBuf == ASSUME TypeInv, NEW c \in Clients PROVE call[c].buf \in Buffers \union {None}
<1>1. call[c] \in Call
  BY DEF TypeInv, TypeOK
<1> QED
  BY <1>1 DEF Call

\* A step that takes and frees no buffer.
LEMMA BufferKept ==
    ASSUME BufferInv, \A b \in Buffers : buffer'[b].owner = buffer[b].owner,
           \A d \in Clients : call'[d].buf \in {call[d].buf, None}
    PROVE  BufferHeld'
<1> SUFFICES ASSUME NEW d \in Clients, call'[d].buf # None PROVE buffer'[call'[d].buf].owner = d
  BY DEF BufferHeld
<1>1. call'[d].buf = call[d].buf /\ call[d].buf \in Buffers
  BY CallBuf DEF BufferInv
<1> QED
  BY <1>1 DEF BufferInv, BufferHeld

LEMMA BeginIoHolds ==
    ASSUME BufferInv, NEW c \in Clients, NEW op \in IoOps, NEW x \in Cells,
           NEW v \in Values \union {None}, BeginIo(c, op, x, v)
    PROVE  BufferHeld'
<1>1. PICK b \in Buffers :
        /\ buffer[b].owner = None
        /\ buffer' = [buffer EXCEPT ![b] = [owner |-> c,
                            content |-> IF op = "Write" THEN v ELSE @.content]]
        /\ call' = [call EXCEPT ![c] = NewCall(op, x, None, v, b, None)]
  BY DEF BeginIo
<1> SUFFICES ASSUME NEW d \in Clients, call'[d].buf # None PROVE buffer'[call'[d].buf].owner = d
  BY DEF BufferHeld
<1>2. CASE d = c
  <2>1. call'[d].buf = b
    BY <1>1, <1>2, CallFields DEF BufferInv, TypeInv, TypeOK
  <2>2. buffer'[b].owner = c
    BY <1>1 DEF BufferInv, TypeInv, TypeOK
  <2> QED
    BY <1>2, <2>1, <2>2
<1>3. CASE d # c
  <2>1. call'[d] = call[d]
    BY <1>1, <1>3 DEF BufferInv, TypeInv, TypeOK
  <2>2. call[d].buf \in Buffers /\ buffer[call[d].buf].owner = d
    BY <2>1, CallBuf DEF BufferInv, BufferHeld
  <2>3. call[d].buf # b
    BY <1>1, <2>2, ValueAssumption
  <2> QED
    BY <1>1, <2>1, <2>2, <2>3 DEF BufferInv, TypeInv, TypeOK
<1> QED
  BY <1>2, <1>3

LEMMA FinishHolds ==
    ASSUME BufferInv, NEW c \in Clients, Finish(c)
    PROVE  BufferHeld'
<1> SUFFICES ASSUME NEW d \in Clients, call'[d].buf # None PROVE buffer'[call'[d].buf].owner = d
  BY DEF BufferHeld
<1>1. d # c /\ call'[d] = call[d]
  <2>1. call' = [call EXCEPT ![c] =
                   NewCall(call[c].op, None, None, None, None, Answer(c, task[c].out))]
    BY DEF Finish
  <2>2. call'[c].buf = None
    BY <2>1, CallFields DEF BufferInv, TypeInv, TypeOK
  <2> QED
    BY <2>1, <2>2 DEF BufferInv, TypeInv, TypeOK
<1>2. call[d].buf \in Buffers /\ buffer[call[d].buf].owner = d
  BY <1>1, CallBuf DEF BufferInv, BufferHeld
<1>3. CASE call[c].buf = None
  BY <1>1, <1>2, <1>3 DEF Finish
<1>4. CASE call[c].buf # None
  <2>1. call[c].buf \in Buffers /\ buffer[call[c].buf].owner = c
    BY <1>4, CallBuf DEF BufferInv, BufferHeld
  <2>2. call[c].buf # call[d].buf
    BY <1>1, <1>2, <2>1
  <2>3. buffer' = [buffer EXCEPT ![call[c].buf].owner = None]
    BY <1>4 DEF Finish
  <2> QED
    BY <1>1, <1>2, <2>1, <2>2, <2>3 DEF BufferInv, TypeInv, TypeOK
<1> QED
  BY <1>3, <1>4

LEMMA NextHolds == BufferInv /\ [Next]_vars => BufferHeld'
<1> SUFFICES ASSUME BufferInv, [Next]_vars PROVE BufferHeld'
  OBVIOUS
<1>1. ASSUME NEW c \in Clients, Begin(c) PROVE BufferHeld'
  <2>1. ASSUME NEW x \in Cells, BeginIo(c, "Read", x, None) PROVE BufferHeld'
    BY <2>1, BeginIoHolds DEF IoOps
  <2>2. ASSUME NEW x \in Cells, NEW v \in Values, BeginIo(c, "Write", x, v) PROVE BufferHeld'
    BY <2>2, BeginIoHolds DEF IoOps
  <2>3. ASSUME NEW op, NEW k, NEW v, NEW to, BeginMeta(c, op, k, v, to) PROVE BufferHeld'
    <3>1. call' = [call EXCEPT ![c] = NewCall(op, None, k, v, None, None)] /\ buffer' = buffer
      BY <2>3 DEF BeginMeta
    <3>2. \A d \in Clients : call'[d].buf \in {call[d].buf, None}
      BY <3>1, CallFields DEF BufferInv, TypeInv, TypeOK
    <3> QED
      BY <3>1, <3>2, BufferKept
  <2> QED
    BY <1>1, <2>1, <2>2, <2>3 DEF Begin
<1>2. ASSUME NEW c \in Clients, Step(c) PROVE BufferHeld'
  <2>1. CASE SerializeStart(c)
    BY <2>1, BufferKept DEF SerializeStart
  <2>2. CASE SerializeEnd(c)
    BY <2>2, BufferKept DEF SerializeEnd
  <2>3. CASE SubmitIo(c)
    <3>1. call[c] \in Call
      BY DEF BufferInv, TypeInv, TypeOK
    <3>2. call'[c].buf = call[c].buf /\ \A d \in Clients : d # c => call'[d] = call[d]
      BY <2>3, <3>1, SubmitIoEffect DEF BufferInv, Call
    <3>3. buffer' = buffer
      BY <2>3 DEF SubmitIo
    <3> QED
      BY <3>2, <3>3, BufferKept
  <2>4. CASE Finish(c)
    BY <2>4, FinishHolds
  <2>5. CASE Return(c)
    <3>1. call' = [call EXCEPT ![c] = NoCall] /\ buffer' = buffer
      BY <2>5 DEF Return
    <3>2. \A d \in Clients : call'[d].buf \in {call[d].buf, None}
      BY <3>1, Empties DEF BufferInv, TypeInv, TypeOK
    <3> QED
      BY <3>1, <3>2, BufferKept
  <2> QED
    BY <1>2, <2>1, <2>2, <2>3, <2>4, <2>5 DEF Step
<1>3. ASSUME NEW n \in Containers, NEW p \in Prios, Run(n, p) PROVE BufferHeld'
  <2>1. \A b \in Buffers : buffer'[b].owner = buffer[b].owner
    BY <1>3, RunEffect DEF BufferInv, MethodEffect
  <2>2. call' = call
    BY <1>3 DEF Run
  <2> QED
    BY <2>1, <2>2, BufferKept
<1>4. CASE UNCHANGED vars
  BY <1>4 DEF vars, BufferInv, BufferHeld
<1> QED
  BY <1>1, <1>2, <1>3, <1>4 DEF Next

\* Whatever the clients, containers and buffers, the buffer of a call is the
\* call's own from its allocation until the call has copied it.
THEOREM BuffersHeld == Spec => []BufferHeld
<1>1. Init => BufferInv
  <2>1. Init => BufferHeld
    BY Empties DEF Init, BufferHeld
  <2> QED
    BY <2>1, InitType DEF BufferInv
<1>2. BufferInv /\ [Next]_vars => BufferInv'
  BY NextType, NextHolds DEF BufferInv
<1>3. BufferInv => BufferHeld
  BY DEF BufferInv
<1> QED
  BY <1>1, <1>2, <1>3, PTL DEF Spec

-----------------------------------------------------------------------------
(***************************************************************************)
(* The queues: a task that waits in one is there once, and has not run.    *)
(***************************************************************************)

\* A client whose task is not queued is in no queue.
LEMMA NotQueued ==
    ASSUME TypeInv, LaneInv, NEW c \in Clients, task[c].state # "lane",
           NEW n \in Containers, NEW p \in Prios, NEW i \in 1 .. Len(lanes[n][p])
    PROVE  lanes[n][p][i] # c
  BY DEF LaneInv, QueuedAt

LEMMA LaneKept ==
    ASSUME TypeInv, LaneInv, NEW c \in Clients, lanes' = lanes, task[c].state # "lane",
           \A d \in Clients : d # c => task'[d] = task[d]
    PROVE  LaneInv'
<1> SUFFICES ASSUME NEW n \in Containers, NEW p \in Prios PROVE QueuedAt(n, p)'
  BY DEF LaneInv
<1>1. lanes[n][p] \in Seq(Clients) /\ QueuedAt(n, p)
  BY DEF TypeInv, TypeOK, LaneInv
<1>2. \A i \in 1 .. Len(lanes[n][p]) : task'[lanes[n][p][i]] = task[lanes[n][p][i]]
  BY <1>1, NotQueued
<1> QED
  BY <1>1, <1>2 DEF QueuedAt

LEMMA LaneAppended ==
    ASSUME TypeInv, LaneInv, NEW c \in Clients, task[c].state # "lane",
           NEW to \in Containers, NEW method, Enqueue(c, to, method),
           task'[c].state = "lane", task'[c].to = to, task'[c].method = method,
           \A d \in Clients : d # c => task'[d] = task[d]
    PROVE  LaneInv'
<1> SUFFICES ASSUME NEW n \in Containers, NEW p \in Prios PROVE QueuedAt(n, p)'
  BY DEF LaneInv
<1> DEFINE q == lanes[n][p]
<1>1. q \in Seq(Clients) /\ QueuedAt(n, p)
  BY DEF TypeInv, TypeOK, LaneInv
<1>2. \A i \in 1 .. Len(q) : q[i] # c /\ task'[q[i]] = task[q[i]]
  BY <1>1, NotQueued
<1>3. CASE n = to /\ p = Prio(method)
  <2>1. lanes'[n][p] = Append(q, c)
    BY <1>3 DEF Enqueue, TypeInv, TypeOK
  <2>2. /\ Len(Append(q, c)) = Len(q) + 1 /\ Append(q, c)[Len(q) + 1] = c
        /\ \A i \in 1 .. Len(q) : Append(q, c)[i] = q[i]
    BY <1>1
  <2>3. Len(q) \in Nat
    BY <1>1
  <2> HIDE DEF q
  <2>4. \A i \in 1 .. Len(q) + 1 : i \in 1 .. Len(q) \/ i = Len(q) + 1
    BY <2>3
  <2>5. ASSUME NEW i \in 1 .. Len(q) + 1
        PROVE  LET e == Append(q, c)[i]
               IN  task'[e].state = "lane" /\ task'[e].to = n /\ Prio(task'[e].method) = p
    <3>1. CASE i \in 1 .. Len(q)
      BY <1>1, <1>2, <2>2, <3>1 DEF QueuedAt, q
    <3>2. CASE i = Len(q) + 1
      BY <1>3, <2>2, <3>2
    <3> QED
      BY <2>4, <3>1, <3>2
  <2>6. ASSUME NEW i \in 1 .. Len(q) + 1, NEW j \in 1 .. Len(q) + 1,
               Append(q, c)[i] = Append(q, c)[j]
        PROVE  i = j
    BY <1>1, <1>2, <2>2, <2>4, <2>6 DEF QueuedAt, q
  <2> QED
    BY <2>1, <2>2, <2>5, <2>6 DEF QueuedAt
<1>4. CASE ~ (n = to /\ p = Prio(method))
  <2>1. lanes'[n][p] = q
    BY <1>4 DEF Enqueue, TypeInv, TypeOK
  <2> QED
    BY <1>1, <1>2, <2>1 DEF QueuedAt
<1> QED
  BY <1>3, <1>4

LEMMA LaneSubmitted ==
    ASSUME TypeInv, LaneInv, NEW c \in Clients, task[c].state # "lane",
           NEW method \in Methods, NEW to \in Containers, Submit(c, method, to)
    PROVE  LaneInv'
<1>1. TypeOK
  BY DEF TypeInv
<1>2. CASE task'[c].state = "lane" /\ Enqueue(c, to, method)
  BY <1>1, <1>2, SubmitEffect, LaneAppended
<1>3. CASE UNCHANGED lanes
  BY <1>1, <1>3, SubmitEffect, LaneKept
<1> QED
  BY <1>1, <1>2, <1>3, SubmitEffect

LEMMA RunLane ==
    ASSUME TypeInv, LaneInv, NEW n \in Containers, NEW p \in Prios, Run(n, p)
    PROVE  /\ LaneInv'
           /\ LET c == Head(lanes[n][p]) IN task[c].state = "lane" /\ task[c].to = n
<1> DEFINE q == lanes[n][p]
           c == Head(q)
<1>1. /\ q \in Seq(Clients) /\ q # << >> /\ c \in Clients
      /\ lanes' = [lanes EXCEPT ![n][p] = Tail(q)]
      /\ \A d \in Clients : d # c => task'[d] = task[d]
  BY RunEffect DEF MethodEffect
<1>2. Len(q) \in Nat /\ Len(q) >= 1 /\ c = q[1]
  BY <1>1
<1>3. task[c].state = "lane" /\ task[c].to = n /\ Prio(task[c].method) = p
  BY <1>2 DEF LaneInv, QueuedAt
<1>4. ASSUME NEW m \in Containers, NEW r \in Prios PROVE QueuedAt(m, r)'
  <2>1. QueuedAt(m, r) /\ lanes[m][r] \in Seq(Clients)
    BY DEF TypeInv, TypeOK, LaneInv
  <2>2. CASE m = n /\ r = p
    <3>1. lanes'[n][p] = Tail(q)
      BY <1>1 DEF TypeInv, TypeOK
    <3>2. /\ Len(Tail(q)) = Len(q) - 1
          /\ \A i \in 1 .. Len(Tail(q)) : Tail(q)[i] = q[i + 1]
      BY <1>1, HeadTailProperties
    <3>3. \A i \in 1 .. Len(q) - 1 : q[i + 1] \in Clients /\ q[i + 1] # c
      <4>1. \A i, j \in 1 .. Len(q) : q[i] = q[j] => i = j
        BY <2>1, <2>2 DEF QueuedAt
      <4> HIDE DEF q, c
      <4>2. ASSUME NEW i \in 1 .. Len(q) - 1 PROVE q[i + 1] \in Clients /\ q[i + 1] # q[1]
        <5>1. i + 1 \in 1 .. Len(q) /\ 1 \in 1 .. Len(q) /\ i + 1 # 1
          BY <1>2
        <5> QED
          BY <1>1, <4>1, <5>1
      <4> QED
        BY <1>2, <4>2
    <3> HIDE DEF c
    <3>4. \A i \in 1 .. Len(q) - 1 : task'[Tail(q)[i]] = task[q[i + 1]]
      BY <1>1, <3>2, <3>3
    <3>5. \A i \in 1 .. Len(q) - 1 : i + 1 \in 1 .. Len(q)
      BY <1>2
    <3>6. ASSUME NEW i \in 1 .. Len(q) - 1
          PROVE  LET e == Tail(q)[i]
                 IN  task'[e].state = "lane" /\ task'[e].to = n /\ Prio(task'[e].method) = p
      <4>1. /\ task[q[i + 1]].state = "lane" /\ task[q[i + 1]].to = n
            /\ Prio(task[q[i + 1]].method) = p
        BY <2>1, <2>2, <3>5 DEF QueuedAt
      <4> QED
        BY <3>4, <4>1
    <3>7. ASSUME NEW i \in 1 .. Len(q) - 1, NEW j \in 1 .. Len(q) - 1, Tail(q)[i] = Tail(q)[j]
          PROVE  i = j
      <4>1. q[i + 1] = q[j + 1]
        BY <3>2, <3>7
      <4>2. i + 1 = j + 1
        BY <2>1, <2>2, <3>5, <4>1 DEF QueuedAt
      <4> QED
        BY <4>2
    <3> DEFINE rest == Tail(q)
    <3>8. /\ \A i \in 1 .. Len(rest) :
               task'[rest[i]].state = "lane" /\ task'[rest[i]].to = n
               /\ Prio(task'[rest[i]].method) = p
          /\ \A i, j \in 1 .. Len(rest) : rest[i] = rest[j] => i = j
      BY <3>2, <3>6, <3>7
    <3>9. lanes'[m][r] = rest
      BY <2>2, <3>1
    <3> HIDE DEF rest
    <3> QED
      BY <2>2, <3>8, <3>9 DEF QueuedAt
  <2>3. CASE ~ (m = n /\ r = p)
    <3>1. lanes'[m][r] = lanes[m][r]
      BY <1>1, <2>3 DEF TypeInv, TypeOK
    <3>2. \A i \in 1 .. Len(lanes[m][r]) : lanes[m][r][i] \in Clients /\ lanes[m][r][i] # c
      BY <1>3, <2>1, <2>3 DEF QueuedAt
    <3>3. \A i \in 1 .. Len(lanes[m][r]) : task'[lanes[m][r][i]] = task[lanes[m][r][i]]
      BY <1>1, <3>2
    <3> QED
      BY <2>1, <3>1, <3>3 DEF QueuedAt
  <2> QED
    BY <2>2, <2>3
<1> QED
  BY <1>3, <1>4 DEF LaneInv

LEMMA NextLane == TypeInv /\ LaneInv /\ [Next]_vars => LaneInv'
<1> SUFFICES ASSUME TypeInv, LaneInv, [Next]_vars PROVE LaneInv'
  OBVIOUS
<1>1. ASSUME NEW c \in Clients, Begin(c) PROVE LaneInv'
  <2>1. pc[c] = "idle"
    BY <1>1 DEF Begin, BeginIo, BeginMeta
  <2>2. task[c].state # "lane"
    BY <2>1, Empties DEF TypeInv, CallAt
  <2>3. ASSUME NEW op, NEW x, NEW v, BeginIo(c, op, x, v) PROVE LaneInv'
    <3>1. Submit(c, "Schedule", DirectHash(0))
      BY <2>3 DEF BeginIo
    <3> QED
      BY <2>2, <3>1, HashInRange, LaneSubmitted DEF Methods
  <2>4. ASSUME NEW op \in MetaOps, NEW k, NEW v, NEW to, BeginMeta(c, op, k, v, to)
        PROVE  LaneInv'
    <3>1. Submit(c, op, DirectHash(0)) /\ op \in Methods
      BY <2>4 DEF BeginMeta, IoRoute, MetaOps, Methods
    <3> QED
      BY <2>2, <3>1, HashInRange, LaneSubmitted
  <2> QED
    BY <1>1, <2>3, <2>4 DEF Begin, MetaOps
<1>2. ASSUME NEW c \in Clients, Step(c) PROVE LaneInv'
  <2>1. CASE SerializeStart(c)
    <3>1. task[c].state # "lane" /\ Enqueue(c, task[c].to, task[c].method)
      BY <2>1 DEF SerializeStart
    <3>2. task[c].to \in Containers
      BY DEF TypeInv, TypeOK, Task
    <3> QED
      BY <2>1, <3>1, <3>2, SerializeStartEffect, LaneAppended
  <2>2. CASE SerializeEnd(c)
    <3>1. task[c].state # "lane" /\ lanes' = lanes
      BY <2>2 DEF SerializeEnd
    <3> QED
      BY <2>2, <3>1, SerializeEndEffect, LaneKept
  <2>3. CASE SubmitIo(c)
    <3>1. /\ task[c].state # "lane"
          /\ Submit(c, call[c].op, DirectHash(task[c].out.schedule_num))
      BY <2>3 DEF SubmitIo
    <3> QED
      BY <2>3, <3>1, SubmitIoEffect, LaneSubmitted
  <2>4. CASE Finish(c)
    <3>1. /\ task[c].state # "lane" /\ lanes' = lanes
          /\ \A d \in Clients : d # c => task'[d] = task[d]
      BY <2>4 DEF Finish, TypeInv, TypeOK
    <3> QED
      BY <3>1, LaneKept
  <2>5. CASE Return(c)
    BY <2>5 DEF Return, LaneInv, QueuedAt
  <2> QED
    BY <1>2, <2>1, <2>2, <2>3, <2>4, <2>5 DEF Step
<1>3. ASSUME NEW n \in Containers, NEW p \in Prios, Run(n, p) PROVE LaneInv'
  BY <1>3, RunLane
<1>4. CASE UNCHANGED vars
  BY <1>4 DEF vars, LaneInv, QueuedAt
<1> QED
  BY <1>1, <1>2, <1>3, <1>4 DEF Next

-----------------------------------------------------------------------------
(***************************************************************************)
(* The numbers.  Until the counter wraps, the reads and writes begun are   *)
(* those that have drawn a number and those that wait for one, so the      *)
(* counter is above every number drawn and has not come round.             *)
(***************************************************************************)

NumberAll == TypeInv /\ LaneInv /\ NumberInv

\* A step of c that draws no number and begins no read or write.
LEMMA NumberKept ==
    ASSUME NumberAll, NEW c \in Clients, calls' = calls, schedule_num'[0] = schedule_num[0],
           c \in Pending' <=> c \in Pending,
           Numbered(c)' => Numbered(c) /\ Number(c)' = Number(c),
           \A d \in Clients : d # c => /\ pc'[d] = pc[d] /\ call'[d] = call[d]
                                       /\ task'[d] = task[d]
    PROVE  NumberInv'
<1>1. \A d \in Clients : Numbered(d)' => Numbered(d) /\ Number(d)' = Number(d)
  BY DEF Numbered, Number
<1>2. Pending' = Pending
  BY DEF Pending
<1>3. ASSUME NEW D \in Nat, Drawn(D) PROVE Drawn(D)'
  BY <1>1, <1>2, <1>3 DEF Drawn
<1>4. ScheduleDistinct'
  BY <1>1 DEF NumberAll, NumberInv, ScheduleDistinct
<1>5. calls' <= Wrap => \E D \in Nat : Drawn(D)'
  BY <1>3 DEF NumberAll, NumberInv
<1> QED
  BY <1>2, <1>4, <1>5 DEF NumberAll, NumberInv

\* A read or write that begins waits for a number.
LEMMA BeginIoNumber ==
    ASSUME NumberAll, NEW c \in Clients, NEW op, NEW x, NEW v, BeginIo(c, op, x, v)
    PROVE  NumberInv'
<1>1. calls' = calls + 1 /\ calls \in Nat /\ schedule_num' = schedule_num
  BY LimitAssumption DEF BeginIo, Server, NumberAll, TypeInv, TypeOK
<1>2. /\ pc[c] = "idle" /\ pc'[c] = "scheduling"
      /\ \A d \in Clients : d # c => pc'[d] = pc[d] /\ call'[d] = call[d]
  BY DEF BeginIo, NumberAll, TypeInv, TypeOK
<1>3. task'[c].state \in {"net", "lane"} /\ \A d \in Clients : d # c => task'[d] = task[d]
  <2>1. Submit(c, "Schedule", DirectHash(0)) /\ "Schedule" \in Methods
    BY DEF BeginIo, Methods
  <2> QED
    BY <2>1, HashInRange, SubmitEffect DEF NumberAll, TypeInv
<1>4. Pending' = Pending \union {c} /\ c \notin Pending
  BY <1>2, <1>3 DEF Pending
<1>5. IsFiniteSet(Pending') /\ Cardinality(Pending') = Cardinality(Pending) + 1
  BY <1>4, FS_AddElement DEF NumberAll, NumberInv
<1>6. \A d \in Clients : Numbered(d)' => d # c /\ Numbered(d) /\ Number(d)' = Number(d)
  BY <1>2, <1>3 DEF Numbered, Number
<1>7. Cardinality(Pending) \in Nat
  BY FS_CardinalityType DEF NumberAll, NumberInv
<1>8. ASSUME calls' <= Wrap PROVE \E D \in Nat : Drawn(D)'
  <2>1. calls <= Wrap
    BY <1>1, <1>8, LimitAssumption
  <2>2. PICK D \in Nat : Drawn(D)
    BY <2>1 DEF NumberAll, NumberInv
  <2>3. Drawn(D)'
    BY <1>1, <1>5, <1>6, <1>7, <2>2 DEF Drawn
  <2> QED
    BY <2>3
<1>9. ScheduleDistinct'
  <2>1. calls' <= Wrap => calls <= Wrap
    BY <1>1, LimitAssumption
  <2> QED
    BY <1>6, <2>1 DEF NumberAll, NumberInv, ScheduleDistinct
<1> QED
  BY <1>5, <1>8, <1>9 DEF NumberInv

\* Running a schedule task draws the next number.
LEMMA RunNumber ==
    ASSUME NumberAll, NEW n \in Containers, NEW p \in Prios, Run(n, p)
    PROVE  NumberInv'
<1>1. PICK c \in Clients : /\ task[c].method \in Methods /\ MethodEffect(n, c)
                           /\ task[c].state = "lane" /\ task[c].to = n
  BY RunEffect, RunLane DEF NumberAll
<1>2. pc' = pc /\ call' = call /\ calls' = calls
  BY DEF Run
<1>3. CASE task[c].method # "Schedule"
  <2>1. pc[c] = "waiting"
    <3>1. pc[c] \in {"scheduling", "waiting"} /\ CallAt(c)
      BY <1>1, RunningCall DEF Methods, NumberAll, TypeInv
    <3> QED
      BY <1>3, <3>1 DEF CallAt
  <2>2. schedule_num' = schedule_num
    BY <1>1, <1>3 DEF MethodEffect
  <2>3. Numbered(c)' => Numbered(c) /\ Number(c)' = Number(c)
    BY <1>2, <2>1 DEF Numbered, Number
  <2>4. c \in Pending' <=> c \in Pending
    BY <1>2, <2>1 DEF Pending
  <2> QED
    BY <1>1, <1>2, <2>2, <2>3, <2>4, NumberKept DEF MethodEffect
<1>4. CASE task[c].method = "Schedule"
  <2>1. pc[c] = "scheduling" /\ n = 0
    <3>1. pc[c] = "scheduling" /\ CallAt(c)
      BY <1>4, RunningCall DEF NumberAll, TypeInv
    <3>2. DirectHash(0) = 0
      BY NAssumption DEF DirectHash
    <3> QED
      BY <1>1, <3>1, <3>2 DEF CallAt
  <2>2. /\ task'[c].state \in {"back", "done"} /\ task'[c].out.schedule_num = schedule_num[0]
        /\ \A d \in Clients : d # c => task'[d] = task[d]
    BY <1>1, <1>4, <2>1 DEF MethodEffect
  <2>3. /\ schedule_num[0] \in 0 .. Wrap - 1 /\ calls \in Nat
        /\ schedule_num'[0] = IF schedule_num[0] + 1 = Wrap THEN 0 ELSE schedule_num[0] + 1
    BY <1>1, <1>4, <2>1, LimitAssumption DEF MethodEffect, NumberAll, TypeInv, TypeOK
  <2>4. Pending' = Pending \ {c} /\ c \in Pending
    BY <1>1, <1>2, <2>1, <2>2 DEF Pending
  <2>5. /\ IsFiniteSet(Pending') /\ Cardinality(Pending') = Cardinality(Pending) - 1
        /\ Cardinality(Pending) \in Nat /\ Cardinality(Pending') \in Nat
    BY <2>4, FS_RemoveElement, FS_CardinalityType DEF NumberAll, NumberInv
  <2>6. Number(c)' = schedule_num[0]
    BY <1>2, <2>1, <2>2 DEF Number
  <2>7. \A d \in Clients : d # c /\ Numbered(d)' => Numbered(d) /\ Number(d)' = Number(d)
    BY <1>2, <2>2 DEF Numbered, Number
  <2>8. ASSUME calls <= Wrap
        PROVE  (\E D \in Nat : Drawn(D)') /\ ScheduleDistinct'
    <3>1. PICK D \in Nat : Drawn(D)
      BY <2>8 DEF NumberAll, NumberInv
    <3>2. D + Cardinality(Pending) = calls
      BY <3>1 DEF Drawn
    <3>3. D < Wrap
      BY <2>3, <2>5, <2>8, <3>2, LimitAssumption
    <3>4. schedule_num[0] = D
      BY <3>1, <3>3 DEF Drawn
    <3>5. \A d \in Clients : Numbered(d) => Number(d) < D
      BY <3>1 DEF Drawn
    <3>6. \A d \in Clients : Numbered(d)' => Number(d)' < D + 1
      <4> SUFFICES ASSUME NEW d \in Clients, Numbered(d)' PROVE Number(d)' < D + 1
        OBVIOUS
      <4>1. CASE d = c
        BY <2>6, <3>4, <4>1
      <4>2. CASE d # c
        <5>1. Number(d)' = Number(d) /\ Number(d) < D
          BY <2>7, <3>5, <4>2
        <5>2. Number(d) \in Nat
          BY LimitAssumption DEF Number, NumberAll, TypeInv, TypeOK, Task, Outputs, Call
        <5> QED
          BY <5>1, <5>2
      <4> QED
        BY <4>1, <4>2
    <3>7. D + 1 + Cardinality(Pending') = calls'
      BY <1>2, <2>5, <3>2
    <3>8. D + 1 < Wrap => schedule_num'[0] = D + 1
      BY <2>3, <3>4, LimitAssumption
    <3>9. Drawn(D + 1)'
      BY <3>6, <3>7, <3>8 DEF Drawn
    <3>10. D + 1 \in Nat
      OBVIOUS
    <3>11. \A d \in Clients : d # c /\ Numbered(d)' => Number(d)' # Number(c)'
      <4> SUFFICES ASSUME NEW d \in Clients, d # c, Numbered(d)' PROVE Number(d)' # Number(c)'
        OBVIOUS
      <4>1. Number(d)' < D
        BY <2>7, <3>5
      <4> QED
        BY <2>6, <3>4, <4>1
    <3>12. ScheduleDistinct'
      BY <1>2, <2>7, <2>8, <3>11 DEF NumberAll, NumberInv, ScheduleDistinct
    <3> QED
      BY <3>9, <3>10, <3>12
  <2>9. ScheduleDistinct'
    BY <1>2, <2>8 DEF ScheduleDistinct
  <2> QED
    BY <1>2, <2>5, <2>8, <2>9 DEF NumberInv
<1> QED
  BY <1>3, <1>4

LEMMA StepNumber ==
    ASSUME NumberAll, NEW c \in Clients, Step(c)
    PROVE  NumberInv'
<1> USE DEF NumberAll
<1>1. CASE SerializeStart(c)
  <2>1. /\ task[c].state = "net" /\ task'[c].state = "lane"
        /\ \A d \in Clients : d # c => task'[d] = task[d]
    BY <1>1, SerializeStartEffect DEF SerializeStart
  <2>2. pc' = pc /\ call' = call /\ calls' = calls /\ schedule_num' = schedule_num
    BY <1>1 DEF SerializeStart, Server
  <2>3. c \in Pending' <=> c \in Pending
    BY <2>1, <2>2 DEF Pending
  <2>4. Numbered(c)' => Numbered(c) /\ Number(c)' = Number(c)
    BY <2>1, <2>2 DEF Numbered, Number
  <2> QED
    BY <2>1, <2>2, <2>3, <2>4, NumberKept
<1>2. CASE SerializeEnd(c)
  <2>1. /\ task[c].state = "back" /\ task'[c].state = "done"
        /\ task[c].method = "Schedule" => task'[c].out = task[c].out
        /\ \A d \in Clients : d # c => task'[d] = task[d]
    BY <1>2, SerializeEndEffect DEF SerializeEnd
  <2>2. pc' = pc /\ call' = call /\ calls' = calls /\ schedule_num' = schedule_num
    BY <1>2 DEF SerializeEnd, Server
  <2>3. c \in Pending' <=> c \in Pending
    BY <2>1, <2>2 DEF Pending
  <2>4. pc[c] = "scheduling" => task[c].method = "Schedule"
    BY DEF TypeInv, CallAt
  <2>5. Numbered(c)' => Numbered(c) /\ Number(c)' = Number(c)
    BY <2>1, <2>2, <2>4 DEF Numbered, Number
  <2> QED
    BY <2>1, <2>2, <2>3, <2>5, NumberKept
<1>3. CASE SubmitIo(c)
  <2>1. /\ pc[c] = "scheduling" /\ task[c].state = "done" /\ pc'[c] = "waiting"
        /\ \A d \in Clients : d # c => pc'[d] = pc[d]
    BY <1>3 DEF SubmitIo, TypeInv, TypeOK
  <2>2. \A d \in Clients : d # c => task'[d] = task[d] /\ call'[d] = call[d]
    <3>1. Submit(c, call[c].op, DirectHash(task[c].out.schedule_num))
      BY <1>3 DEF SubmitIo
    <3>2. /\ call[c].op \in Methods /\ DirectHash(task[c].out.schedule_num) \in Containers
          /\ \A d \in Clients : d # c => call'[d] = call[d]
      BY <1>3, SubmitIoEffect
    <3>3. \A d \in Clients : d # c => task'[d] = task[d]
      BY <3>1, <3>2, SubmitEffect DEF TypeInv
    <3> QED
      BY <3>2, <3>3
  <2>3. call[c] \in Call
    BY DEF TypeInv, TypeOK
  <2>4. call'[c].snum = task[c].out.schedule_num /\ call[c].op \in IoOps
    BY <1>3, <2>3, SubmitIoEffect DEF Call
  <2>5. calls' = calls /\ schedule_num' = schedule_num
    BY <1>3 DEF SubmitIo, Server
  <2>6. c \in Pending' <=> c \in Pending
    BY <2>1 DEF Pending
  <2>7. Numbered(c)' => Numbered(c) /\ Number(c)' = Number(c)
    BY <2>1, <2>4 DEF Numbered, Number, IoOps
  <2> QED
    BY <2>1, <2>2, <2>5, <2>6, <2>7, NumberKept
<1>4. CASE Finish(c)
  <2>1. /\ pc[c] = "waiting" /\ pc'[c] = "return"
        /\ \A d \in Clients : d # c => /\ pc'[d] = pc[d] /\ call'[d] = call[d]
                                       /\ task'[d] = task[d]
    BY <1>4 DEF Finish, TypeInv, TypeOK
  <2>2. calls' = calls /\ schedule_num' = schedule_num
    BY <1>4 DEF Finish, Server
  <2> QED
    BY <2>1, <2>2, NumberKept DEF Pending, Numbered
<1>5. CASE Return(c)
  <2>1. /\ pc[c] = "return" /\ pc'[c] = "idle"
        /\ \A d \in Clients : d # c => /\ pc'[d] = pc[d] /\ call'[d] = call[d]
                                       /\ task'[d] = task[d]
    BY <1>5 DEF Return, TypeInv, TypeOK
  <2>2. calls' = calls /\ schedule_num' = schedule_num
    BY <1>5 DEF Return, Server
  <2> QED
    BY <2>1, <2>2, NumberKept DEF Pending, Numbered
<1> QED
  BY <1>1, <1>2, <1>3, <1>4, <1>5 DEF Step

\* A metadata call has nothing to do with the numbers.
LEMMA BeginMetaNumber ==
    ASSUME NumberAll, NEW c \in Clients, NEW op \in MetaOps, NEW k, NEW v, NEW to,
           BeginMeta(c, op, k, v, to)
    PROVE  NumberInv'
<1> USE DEF NumberAll
<1>1. /\ pc[c] = "idle" /\ pc'[c] = "waiting"
      /\ \A d \in Clients : d # c => pc'[d] = pc[d] /\ call'[d] = call[d]
  BY DEF BeginMeta, TypeInv, TypeOK
<1>2. \A d \in Clients : d # c => task'[d] = task[d]
  <2>1. Submit(c, op, DirectHash(0)) /\ op \in Methods
    BY DEF BeginMeta, IoRoute, MetaOps, Methods
  <2> QED
    BY <2>1, HashInRange, SubmitEffect DEF TypeInv
<1>3. call'[c].op = op
  <2>1. call' = [call EXCEPT ![c] = NewCall(op, None, k, v, None, None)]
    BY DEF BeginMeta
  <2> QED
    BY <2>1, CallFields DEF TypeInv, TypeOK
<1>4. calls' = calls /\ schedule_num' = schedule_num
  BY DEF BeginMeta, Server
<1>5. ~ Numbered(c)'
  BY <1>3 DEF Numbered, MetaOps
<1> QED
  BY <1>1, <1>2, <1>4, <1>5, NumberKept DEF Pending

LEMMA InitNumber == Init => NumberAll
<1> SUFFICES ASSUME Init PROVE NumberAll
  OBVIOUS
<1>1. LaneInv
  BY DEF Init, LaneInv, QueuedAt
<1>2. Pending = {}
  BY DEF Init, Pending
<1>3. \A c \in Clients : ~ Numbered(c)
  BY Empties DEF Init, Numbered
<1>4. calls = 0 /\ schedule_num[0] = 0
  BY NAssumption DEF Init, Containers
<1>5. Drawn(0)
  BY <1>2, <1>3, <1>4, FS_EmptySet DEF Drawn
<1>6. NumberInv
  BY <1>2, <1>3, <1>5, FS_EmptySet DEF NumberInv, ScheduleDistinct
<1> QED
  BY <1>1, <1>6, InitType DEF NumberAll

LEMMA NextNumber == NumberAll /\ [Next]_vars => NumberInv'
<1> SUFFICES ASSUME NumberAll, [Next]_vars PROVE NumberInv'
  OBVIOUS
<1>1. ASSUME NEW c \in Clients, Begin(c) PROVE NumberInv'
  BY <1>1, BeginIoNumber, BeginMetaNumber DEF Begin, MetaOps
<1>2. ASSUME NEW c \in Clients, Step(c) PROVE NumberInv'
  BY <1>2, StepNumber
<1>3. ASSUME NEW n \in Containers, NEW p \in Prios, Run(n, p) PROVE NumberInv'
  BY <1>3, RunNumber
<1>4. CASE UNCHANGED vars
  <2>1. Pending' = Pending /\ \A D \in Nat : Drawn(D)' <=> Drawn(D)
    BY <1>4 DEF vars, Pending, Drawn, Numbered, Number
  <2>2. ScheduleDistinct'
    BY <1>4 DEF vars, NumberAll, NumberInv, ScheduleDistinct, Numbered, Number
  <2> QED
    BY <1>4, <2>1, <2>2 DEF vars, NumberAll, NumberInv
<1> QED
  BY <1>1, <1>2, <1>3, <1>4 DEF Next

\* Until the counter wraps, no two calls under way have the same schedule number,
\* for any number of clients and containers and in whatever order their schedule
\* tasks are carried, run and brought back.
THEOREM NumbersDistinct == Spec => []ScheduleDistinct
<1>1. NumberAll /\ [Next]_vars => NumberAll'
  BY NextType, NextLane, NextNumber DEF NumberAll
<1>2. NumberAll => ScheduleDistinct
  BY DEF NumberAll, NumberInv
<1> QED
  BY <1>1, <1>2, InitNumber, PTL DEF Spec

-----------------------------------------------------------------------------
(***************************************************************************)
(* The shares.  The numbers are drawn in order, so those that hash to a    *)
(* container are every N-th; a container opens a file for each such number *)
(* at most, when its task comes.                                           *)
(***************************************************************************)

\* How many of the numbers 0 to D - 1 hash to container n.
Share(D, n) == (D + (N - 1 - n)) \div N

\* The calls with a number that hashes to n, whose transfer has not run.
Owed(n) == {c \in Clients : /\ call[c].op \in IoOps
                            /\ \/ /\ pc[c] = "scheduling" /\ task[c].state \in {"back", "done"}
                                  /\ DirectHash(task[c].out.schedule_num) = n
                               \/ /\ pc[c] = "waiting" /\ task[c].state \in {"net", "lane"}
                                  /\ task[c].to = n}

\* D numbers have been drawn, and container n has had or is owed its share of them.
Shared(D, n) == fds[n] + Cardinality(Owed(n)) <= Share(D, n)

ShareInv ==
    /\ \A n \in Containers : IsFiniteSet(Owed(n))
    /\ calls <= Wrap => \A n \in Containers : Shared(calls - Cardinality(Pending), n)

\* Integer division, for any divisor.
LEMMA Multiple == ASSUME NEW a \in Nat, NEW b \in Nat, a < b PROVE N * a + N <= N * b
<1>1. PICK d \in Nat : b = a + 1 + d
  <2>1. b - a - 1 \in Nat /\ b = a + 1 + (b - a - 1)
    OBVIOUS
  <2> QED
    BY <2>1
<1>2. N * b = N * a + N + N * d /\ N * d \in Nat /\ N * a \in Nat
  BY <1>1, NAssumption
<1> QED
  BY <1>2, NAssumption

LEMMA QuotientBounds ==
    ASSUME NEW x \in Nat
    PROVE  /\ x \div N \in Nat /\ N * (x \div N) <= x /\ x < N * (x \div N) + N
           /\ x % N \in Containers /\ x = (N * (x \div N)) + (x % N)
  BY NAssumption DEF Containers

LEMMA Quotient ==
    ASSUME NEW q \in Nat, NEW x \in Nat, N * q <= x, x < N * q + N
    PROVE  x \div N = q
<1>1. PICK y \in Nat : y = x \div N /\ N * y <= x /\ x < N * y + N
  BY QuotientBounds
<1>2. ~(y < q)
  BY <1>1, Multiple, NAssumption
<1>3. ~(q < y)
  BY <1>1, Multiple, NAssumption
<1> QED
  BY <1>1, <1>2, <1>3

LEMMA ShareNext ==
    ASSUME NEW D \in Nat, NEW n \in Containers
    PROVE  /\ Share(D, n) \in Nat
           /\ Share(D + 1, n) = Share(D, n) + (IF DirectHash(D) = n THEN 1 ELSE 0)
<1>1. PICK a \in Nat, b \in Containers : D = N * a + b /\ b = DirectHash(D)
  BY QuotientBounds DEF DirectHash
<1>2. PICK k \in Nat : k = N * a /\ N * (a + 1) = k + N
  BY NAssumption
<1>3. /\ D + (N - 1 - n) \in Nat /\ (D + 1) + (N - 1 - n) \in Nat /\ a + 1 \in Nat
      /\ n \in Nat /\ n < N /\ b \in Nat /\ b < N /\ N \in Nat /\ D = k + b
  BY <1>1, <1>2, NAssumption DEF Containers
<1>4. CASE b > n
  <2>1. D + (N - 1 - n) >= k + N /\ (D + 1) + (N - 1 - n) < k + N + N
    BY <1>3, <1>4
  <2>2. (D + (N - 1 - n)) \div N = a + 1 /\ ((D + 1) + (N - 1 - n)) \div N = a + 1
    BY <1>2, <1>3, <2>1, Quotient
  <2> QED
    BY <1>1, <1>3, <1>4, <2>2 DEF Share
<1>5. CASE b = n
  <2>1. (D + (N - 1 - n)) \div N = a
    BY <1>2, <1>3, <1>5, Quotient
  <2>2. ((D + 1) + (N - 1 - n)) \div N = a + 1
    BY <1>2, <1>3, <1>5, Quotient
  <2> QED
    BY <1>1, <1>3, <1>5, <2>1, <2>2 DEF Share
<1>6. CASE b < n
  <2>1. D + (N - 1 - n) >= k /\ (D + 1) + (N - 1 - n) < k + N
    BY <1>3, <1>6
  <2>2. (D + (N - 1 - n)) \div N = a /\ ((D + 1) + (N - 1 - n)) \div N = a
    BY <1>2, <1>3, <2>1, Quotient
  <2> QED
    BY <1>1, <1>3, <1>6, <2>2 DEF Share
<1> QED
  BY <1>3, <1>4, <1>5, <1>6

LEMMA ShareBound ==
    ASSUME NEW D \in Nat, NEW C \in Nat, D <= C, NEW n \in Containers
    PROVE  Share(D, n) <= (C + N - 1) \div N
<1>1. /\ D + (N - 1 - n) \in Nat /\ C + N - 1 \in Nat /\ D + (N - 1 - n) <= C + N - 1
  BY NAssumption DEF Containers
<1>2. PICK s \in Nat : s = (D + (N - 1 - n)) \div N /\ N * s <= D + (N - 1 - n)
  BY <1>1, QuotientBounds
<1>3. PICK t \in Nat : t = (C + N - 1) \div N /\ C + N - 1 < N * t + N
  BY <1>1, QuotientBounds
<1>4. ~(t < s)
  BY <1>1, <1>2, <1>3, Multiple, NAssumption
<1> QED
  BY <1>2, <1>3, <1>4 DEF Share

\* How many numbers have been drawn.
LEMMA DrawnCount ==
    ASSUME NumberAll, calls <= Wrap
    PROVE  /\ calls - Cardinality(Pending) \in Nat /\ Drawn(calls - Cardinality(Pending))
           /\ calls \in Nat /\ Cardinality(Pending) \in Nat
<1>1. PICK D \in Nat : Drawn(D)
  BY DEF NumberAll, NumberInv
<1>2. D + Cardinality(Pending) = calls /\ Cardinality(Pending) \in Nat
  BY <1>1, FS_CardinalityType DEF Drawn, NumberAll, NumberInv
<1>3. D = calls - Cardinality(Pending)
  BY <1>2
<1> QED
  BY <1>1, <1>2, <1>3

\* A step of c that draws no number, opens no file and adds nothing that is owed.
LEMMA ShareKept ==
    ASSUME NumberAll, ShareInv, NEW c \in Clients, UNCHANGED <<calls, fds>>,
           c \in Pending' <=> c \in Pending,
           \A n \in Containers : c \in Owed(n)' => c \in Owed(n),
           \A d \in Clients : d # c => /\ pc'[d] = pc[d] /\ call'[d] = call[d]
                                       /\ task'[d] = task[d]
    PROVE  ShareInv'
<1>1. ASSUME NEW n \in Containers
      PROVE  /\ IsFiniteSet(Owed(n)') /\ Cardinality(Owed(n)') <= Cardinality(Owed(n))
             /\ Cardinality(Owed(n)') \in Nat /\ Cardinality(Owed(n)) \in Nat /\ fds[n] \in Nat
  <2>1. Owed(n)' \in SUBSET Owed(n)
    BY <1>1 DEF Owed
  <2> QED
    BY <2>1, FS_Subset, FS_CardinalityType, LimitAssumption
       DEF ShareInv, NumberAll, TypeInv, TypeOK
<1>2. Pending' = Pending
  BY DEF Pending
<1>3. ASSUME calls <= Wrap, NEW n \in Containers
      PROVE  Shared(calls - Cardinality(Pending), n)'
  <2>1. PICK D \in Nat : D = calls - Cardinality(Pending)
    BY <1>3, DrawnCount
  <2>2. fds[n] + Cardinality(Owed(n)) <= Share(D, n) /\ Share(D, n) \in Nat
    BY <1>3, <2>1, ShareNext DEF ShareInv, Shared
  <2>3. fds'[n] + Cardinality(Owed(n)') <= Share(D, n)
    BY <1>1, <2>2
  <2> QED
    BY <1>2, <2>1, <2>3 DEF Shared, Share
<1> QED
  BY <1>1, <1>3 DEF ShareInv

LEMMA BeginIoShare ==
    ASSUME NumberAll, ShareInv, NEW c \in Clients, NEW op, NEW x, NEW v, BeginIo(c, op, x, v)
    PROVE  ShareInv'
<1>1. calls' = calls + 1 /\ calls \in Nat /\ fds' = fds
  BY LimitAssumption DEF BeginIo, Server, NumberAll, TypeInv, TypeOK
<1>2. /\ pc[c] = "idle" /\ pc'[c] = "scheduling"
      /\ \A d \in Clients : d # c => pc'[d] = pc[d] /\ call'[d] = call[d]
  BY DEF BeginIo, NumberAll, TypeInv, TypeOK
<1>3. task'[c].state \in {"net", "lane"} /\ \A d \in Clients : d # c => task'[d] = task[d]
  <2>1. Submit(c, "Schedule", DirectHash(0)) /\ "Schedule" \in Methods
    BY DEF BeginIo, Methods
  <2> QED
    BY <2>1, HashInRange, SubmitEffect DEF NumberAll, TypeInv
<1>4. Cardinality(Pending') = Cardinality(Pending) + 1
  <2>1. Pending' = Pending \union {c} /\ c \notin Pending
    BY <1>2, <1>3 DEF Pending
  <2> QED
    BY <2>1, FS_AddElement DEF NumberAll, NumberInv
<1>5. ASSUME NEW n \in Containers PROVE Owed(n)' = Owed(n)
  BY <1>2, <1>3 DEF Owed
<1>6. ASSUME calls' <= Wrap, NEW n \in Containers
      PROVE  Shared(calls - Cardinality(Pending), n)'
  <2>1. calls <= Wrap
    BY <1>1, <1>6, LimitAssumption
  <2>2. PICK D \in Nat : D = calls - Cardinality(Pending) /\ D = calls' - Cardinality(Pending')
    BY <1>1, <1>4, <2>1, DrawnCount
  <2>3. fds[n] + Cardinality(Owed(n)) <= Share(D, n)
    BY <2>1, <2>2 DEF ShareInv, Shared
  <2> QED
    BY <1>1, <1>5, <2>2, <2>3 DEF Shared, Share
<1> QED
  BY <1>5, <1>6 DEF ShareInv

\* A schedule task that is run adds one number, and one transfer that is owed; a
\* transfer that is run was owed, and opens at most one file.
LEMMA RunShare ==
    ASSUME NumberAll, ShareInv, NEW n \in Containers, NEW p \in Prios, Run(n, p)
    PROVE  ShareInv'
<1>1. PICK c \in Clients : /\ task[c].method \in Methods /\ MethodEffect(n, c)
                           /\ task[c].state = "lane" /\ task[c].to = n
  BY RunEffect, RunLane DEF NumberAll
<1>2. /\ pc' = pc /\ call' = call /\ calls' = calls
      /\ task'[c].state \in {"back", "done"} /\ task'[c].to = n
      /\ \A d \in Clients : d # c => task'[d] = task[d]
  BY <1>1 DEF Run, MethodEffect
<1>3. /\ pc[c] \in {"scheduling", "waiting"} /\ CallAt(c)
      /\ task[c].method = "Schedule" <=> pc[c] = "scheduling"
  <2>1. pc[c] \in {"scheduling", "waiting"} /\ CallAt(c)
    BY <1>1, RunningCall DEF Methods, NumberAll, TypeInv
  <2> QED
    BY <2>1 DEF CallAt, IoOps, MetaOps
<1>4. \A m \in Containers : IsFiniteSet(Owed(m)) /\ fds[m] \in Nat
  BY LimitAssumption DEF ShareInv, NumberAll, TypeInv, TypeOK
<1>5. CASE task[c].method = "Schedule"
  <2>1. /\ fds' = fds /\ n = 0 /\ call[c].op \in IoOps
        /\ task'[c].out.schedule_num = schedule_num[0]
    <3>1. DirectHash(0) = 0
      BY NAssumption DEF DirectHash
    <3> QED
      BY <1>1, <1>3, <1>5, <3>1 DEF MethodEffect, CallAt, IoOps
  <2>2. PICK h \in Containers : h = DirectHash(schedule_num[0])
    <3>1. schedule_num[0] \in Nat
      BY <2>1, LimitAssumption DEF NumberAll, TypeInv, TypeOK
    <3> QED
      BY <3>1, HashInRange
  <2>3. \A m \in Containers : c \notin Owed(m) /\ (c \in Owed(m)' <=> m = h)
    BY <1>1, <1>2, <1>3, <1>5, <2>1, <2>2 DEF Owed
  <2>4. \A m \in Containers : Owed(m)' = IF m = h THEN Owed(m) \union {c} ELSE Owed(m)
    BY <1>2, <2>3 DEF Owed
  <2>5. \A m \in Containers :
          /\ IsFiniteSet(Owed(m)') /\ Cardinality(Owed(m)) \in Nat
          /\ Cardinality(Owed(m)') = Cardinality(Owed(m)) + (IF m = h THEN 1 ELSE 0)
    BY <1>4, <2>3, <2>4, FS_AddElement, FS_CardinalityType
  <2>6. ASSUME calls <= Wrap, NEW m \in Containers
        PROVE  Shared(calls - Cardinality(Pending), m)'
    <3>1. PICK D \in Nat : D = calls - Cardinality(Pending) /\ Drawn(D)
      BY <2>6, DrawnCount
    <3>2. Pending' = Pending \ {c} /\ c \in Pending
      BY <1>1, <1>2, <1>3, <1>5 DEF Pending
    <3>3. Cardinality(Pending') = Cardinality(Pending) - 1 /\ Cardinality(Pending) \in Nat
          /\ Cardinality(Pending') \in Nat
      BY <3>2, FS_RemoveElement, FS_CardinalityType DEF NumberAll, NumberInv
    <3>4. calls - Cardinality(Pending') = D + 1 /\ D < Wrap
      BY <2>6, <3>1, <3>3, LimitAssumption DEF NumberAll, TypeInv, TypeOK
    <3>5. h = DirectHash(D)
      BY <2>2, <3>1, <3>4 DEF Drawn
    <3>6. fds[m] + Cardinality(Owed(m)) <= Share(D, m)
      BY <2>6, <3>1 DEF ShareInv, Shared
    <3>7. /\ Share(D + 1, m) = Share(D, m) + (IF h = m THEN 1 ELSE 0) /\ Share(D, m) \in Nat
      BY <3>5, ShareNext
    <3>8. PICK f \in Nat, o \in Nat : f = fds[m] /\ f = fds'[m] /\ o = Cardinality(Owed(m))
      BY <1>4, <2>1, <2>5
    <3>9. f + Cardinality(Owed(m)') <= Share(D + 1, m)
      <4>1. CASE m = h
        <5>1. Cardinality(Owed(m)') = o + 1 /\ Share(D + 1, m) = Share(D, m) + 1
          BY <2>5, <3>7, <3>8, <4>1
        <5> QED
          BY <3>6, <3>7, <3>8, <5>1
      <4>2. CASE m # h
        <5>1. Cardinality(Owed(m)') = o + 0 /\ Share(D + 1, m) = Share(D, m) + 0
          BY <2>5, <3>7, <3>8, <4>2
        <5> QED
          BY <3>6, <3>7, <3>8, <5>1
      <4> QED
        BY <4>1, <4>2
    <3> QED
      BY <1>2, <3>4, <3>8, <3>9 DEF Shared, Share
  <2> QED
    BY <1>2, <2>5, <2>6 DEF ShareInv
<1>6. CASE task[c].method \in IoOps
  <2>1. pc[c] = "waiting" /\ call[c].op \in IoOps
    BY <1>3, <1>6 DEF CallAt, IoOps
  <2>2. Pending' = Pending
    BY <1>2, <2>1 DEF Pending
  <2>3. \A m \in Containers : c \notin Owed(m)' /\ (c \in Owed(m) <=> m = n)
    BY <1>1, <1>2, <2>1 DEF Owed
  <2>4. \A m \in Containers : Owed(m)' = IF m = n THEN Owed(m) \ {c} ELSE Owed(m)
    BY <1>2, <2>3 DEF Owed
  <2>5. \A m \in Containers :
          /\ IsFiniteSet(Owed(m)') /\ Cardinality(Owed(m)) \in Nat
          /\ Cardinality(Owed(m)') = Cardinality(Owed(m)) - (IF m = n THEN 1 ELSE 0)
    BY <1>4, <2>3, <2>4, FS_RemoveElement, FS_CardinalityType
  <2>6. \A m \in Containers : fds'[m] \in Nat /\ fds'[m] <= fds[m] + (IF m = n THEN 1 ELSE 0)
    BY <1>1, <1>4 DEF MethodEffect, NumberAll, TypeInv, TypeOK
  <2>7. ASSUME calls <= Wrap, NEW m \in Containers
        PROVE  Shared(calls - Cardinality(Pending), m)'
    <3>1. PICK D \in Nat : D = calls - Cardinality(Pending)
      BY <2>7, DrawnCount
    <3>2. fds[m] + Cardinality(Owed(m)) <= Share(D, m) /\ Share(D, m) \in Nat
      BY <2>7, <3>1, ShareNext DEF ShareInv, Shared
    <3>3. fds'[m] + Cardinality(Owed(m)') <= Share(D, m)
      BY <1>4, <2>5, <2>6, <3>2
    <3> QED
      BY <1>2, <2>2, <3>1, <3>3 DEF Shared, Share
  <2> QED
    BY <1>2, <2>5, <2>7 DEF ShareInv
<1>7. CASE task[c].method \in MetaOps
  <2>1. pc[c] = "waiting" /\ call[c].op \notin IoOps /\ fds' = fds
    BY <1>1, <1>3, <1>7 DEF CallAt, IoOps, MetaOps, MethodEffect
  <2> QED
    BY <1>2, <2>1, ShareKept DEF Pending, Owed
<1> QED
  BY <1>1, <1>5, <1>6, <1>7 DEF Methods, IoOps, MetaOps

\* A step of a client carries its task, and what is owed stays with its container.
LEMMA StepShare ==
    ASSUME NumberAll, ShareInv, NEW c \in Clients, Step(c)
    PROVE  ShareInv'
<1> USE DEF NumberAll
<1>1. CASE SerializeStart(c)
  <2>1. /\ task[c].state = "net" /\ task'[c].state = "lane" /\ task'[c].to = task[c].to
        /\ \A d \in Clients : d # c => task'[d] = task[d]
    BY <1>1, SerializeStartEffect DEF SerializeStart
  <2>2. pc' = pc /\ call' = call /\ calls' = calls /\ fds' = fds
    BY <1>1 DEF SerializeStart, Server
  <2>3. c \in Pending' <=> c \in Pending
    BY <2>1, <2>2 DEF Pending
  <2>4. \A n \in Containers : c \in Owed(n)' => c \in Owed(n)
    BY <2>1, <2>2 DEF Owed
  <2> QED
    BY <2>1, <2>2, <2>3, <2>4, ShareKept
<1>2. CASE SerializeEnd(c)
  <2>1. /\ task[c].state = "back" /\ task'[c].state = "done"
        /\ task[c].method = "Schedule" => task'[c].out = task[c].out
        /\ \A d \in Clients : d # c => task'[d] = task[d]
    BY <1>2, SerializeEndEffect DEF SerializeEnd
  <2>2. pc' = pc /\ call' = call /\ calls' = calls /\ fds' = fds
    BY <1>2 DEF SerializeEnd, Server
  <2>3. c \in Pending' <=> c \in Pending
    BY <2>1, <2>2 DEF Pending
  <2>4. pc[c] = "scheduling" => task[c].method = "Schedule"
    BY DEF TypeInv, CallAt
  <2>5. \A n \in Containers : c \in Owed(n)' => c \in Owed(n)
    BY <2>1, <2>2, <2>4 DEF Owed
  <2> QED
    BY <2>1, <2>2, <2>3, <2>5, ShareKept
<1>3. CASE SubmitIo(c)
  <2> DEFINE h == DirectHash(task[c].out.schedule_num)
  <2>1. /\ pc[c] = "scheduling" /\ task[c].state = "done" /\ pc'[c] = "waiting"
        /\ \A d \in Clients : d # c => pc'[d] = pc[d]
    BY <1>3 DEF SubmitIo, TypeInv, TypeOK
  <2>2. /\ call[c].op \in IoOps /\ \A d \in Clients : d # c => call'[d] = call[d]
    BY <1>3, SubmitIoEffect
  <2>3. task'[c].to = h /\ \A d \in Clients : d # c => task'[d] = task[d]
    <3>1. Submit(c, call[c].op, h)
      BY <1>3 DEF SubmitIo
    <3>2. call[c].op \in Methods /\ h \in Containers
      BY <1>3, SubmitIoEffect
    <3> QED
      BY <3>1, <3>2, SubmitEffect DEF TypeInv
  <2>4. calls' = calls /\ fds' = fds
    BY <1>3 DEF SubmitIo, Server
  <2>5. c \in Pending' <=> c \in Pending
    BY <2>1 DEF Pending
  <2>6. \A n \in Containers : c \in Owed(n)' => c \in Owed(n)
    BY <2>1, <2>2, <2>3 DEF Owed
  <2> QED
    BY <2>1, <2>2, <2>3, <2>4, <2>5, <2>6, ShareKept
<1>4. CASE Finish(c)
  <2>1. /\ pc[c] = "waiting" /\ pc'[c] = "return"
        /\ \A d \in Clients : d # c => /\ pc'[d] = pc[d] /\ call'[d] = call[d]
                                       /\ task'[d] = task[d]
    BY <1>4 DEF Finish, TypeInv, TypeOK
  <2>2. calls' = calls /\ fds' = fds
    BY <1>4 DEF Finish, Server
  <2> QED
    BY <2>1, <2>2, ShareKept DEF Pending, Owed
<1>5. CASE Return(c)
  <2>1. /\ pc[c] = "return" /\ pc'[c] = "idle"
        /\ \A d \in Clients : d # c => /\ pc'[d] = pc[d] /\ call'[d] = call[d]
                                       /\ task'[d] = task[d]
    BY <1>5 DEF Return, TypeInv, TypeOK
  <2>2. calls' = calls /\ fds' = fds
    BY <1>5 DEF Return, Server
  <2> QED
    BY <2>1, <2>2, ShareKept DEF Pending, Owed
<1> QED
  BY <1>1, <1>2, <1>3, <1>4, <1>5 DEF Step

\* A metadata call opens no file.
LEMMA BeginMetaShare ==
    ASSUME NumberAll, ShareInv, NEW c \in Clients, NEW op \in MetaOps, NEW k, NEW v, NEW to,
           BeginMeta(c, op, k, v, to)
    PROVE  ShareInv'
<1> USE DEF NumberAll
<1>1. /\ pc[c] = "idle" /\ pc'[c] = "waiting"
      /\ \A d \in Clients : d # c => pc'[d] = pc[d] /\ call'[d] = call[d]
  BY DEF BeginMeta, TypeInv, TypeOK
<1>2. \A d \in Clients : d # c => task'[d] = task[d]
  <2>1. Submit(c, op, DirectHash(0)) /\ op \in Methods
    BY DEF BeginMeta, IoRoute, MetaOps, Methods
  <2> QED
    BY <2>1, HashInRange, SubmitEffect DEF TypeInv
<1>3. call'[c].op = op
  <2>1. call' = [call EXCEPT ![c] = NewCall(op, None, k, v, None, None)]
    BY DEF BeginMeta
  <2> QED
    BY <2>1, CallFields DEF TypeInv, TypeOK
<1>4. calls' = calls /\ fds' = fds
  BY DEF BeginMeta, Server
<1>5. \A n \in Containers : c \notin Owed(n)'
  BY <1>3 DEF Owed, IoOps, MetaOps
<1> QED
  BY <1>1, <1>2, <1>4, <1>5, ShareKept DEF Pending

LEMMA InitShare == Init => ShareInv
<1> SUFFICES ASSUME Init PROVE ShareInv
  OBVIOUS
<1>1. Pending = {} /\ Cardinality({}) = 0
  BY FS_EmptySet DEF Init, Pending
<1>2. ASSUME NEW n \in Containers
      PROVE  Owed(n) = {} /\ IsFiniteSet(Owed(n)) /\ Shared(0, n)
  <2>1. Owed(n) = {}
    BY DEF Init, Owed
  <2>2. fds[n] = 0 /\ Share(0, n) \in Nat
    BY ShareNext DEF Init
  <2> QED
    BY <1>1, <2>1, <2>2, FS_EmptySet DEF Shared
<1>3. calls - Cardinality(Pending) = 0
  BY <1>1 DEF Init
<1> QED
  BY <1>2, <1>3 DEF ShareInv

LEMMA NextShare == NumberAll /\ ShareInv /\ [Next]_vars => ShareInv'
<1> SUFFICES ASSUME NumberAll, ShareInv, [Next]_vars PROVE ShareInv'
  OBVIOUS
<1>1. ASSUME NEW c \in Clients, Begin(c) PROVE ShareInv'
  BY <1>1, BeginIoShare, BeginMetaShare DEF Begin, MetaOps
<1>2. ASSUME NEW c \in Clients, Step(c) PROVE ShareInv'
  BY <1>2, StepShare
<1>3. ASSUME NEW n \in Containers, NEW p \in Prios, Run(n, p) PROVE ShareInv'
  BY <1>3, RunShare
<1>4. CASE UNCHANGED vars
  <2>1. Pending' = Pending /\ \A n \in Containers : Owed(n)' = Owed(n)
    BY <1>4 DEF vars, Pending, Owed
  <2> QED
    BY <1>4, <2>1 DEF vars, ShareInv, Shared, Share
<1> QED
  BY <1>1, <1>2, <1>3, <1>4 DEF Next

\* What has been opened is at most what the numbers drawn allow.
LEMMA FairNow == NumberAll /\ ShareInv => FairShare
<1> SUFFICES ASSUME NumberAll, ShareInv, calls <= Wrap, NEW n \in Containers
             PROVE  fds[n] <= (calls + N - 1) \div N
  BY DEF FairShare
<1>1. PICK D \in Nat : D = calls - Cardinality(Pending) /\ D <= calls /\ calls \in Nat
  BY DrawnCount
<1>2. fds[n] + Cardinality(Owed(n)) <= Share(D, n)
  BY <1>1 DEF ShareInv, Shared
<1>3. fds[n] \in Nat /\ Cardinality(Owed(n)) \in Nat
  BY FS_CardinalityType, LimitAssumption DEF ShareInv, NumberAll, TypeInv, TypeOK
<1>4. Share(D, n) <= (calls + N - 1) \div N /\ Share(D, n) \in Nat
  BY <1>1, ShareBound, ShareNext
<1>5. (calls + N - 1) \div N \in Nat
  <2>1. calls + N - 1 \in Nat
    BY <1>1, NAssumption
  <2> QED
    BY <2>1, QuotientBounds
<1> QED
  BY <1>2, <1>3, <1>4, <1>5

\* Until the counter wraps, no container opens files for more than its share of
\* the reads and writes, for any number of clients and containers.
THEOREM SharesFair == Spec => []FairShare
<1>1. NumberAll /\ ShareInv /\ [Next]_vars => (NumberAll /\ ShareInv)'
  BY NextType, NextLane, NextNumber, NextShare DEF NumberAll
<1> QED
  BY <1>1, InitNumber, InitShare, FairNow, PTL DEF Spec

-----------------------------------------------------------------------------
(***************************************************************************)
(* The refinement of DtioService: every step is one of the service, or     *)
(* none.  A call takes effect when its main task is run; a write has its   *)
(* data by then wherever it runs, and metadata is on container 0 alone.    *)
(***************************************************************************)

ServedAt(c) ==
    /\ pc[c] # "return" => call[c].res = None
    /\ pc[c] = "waiting" /\ call[c].op \in MetaOps => task[c].to = 0
    /\ pc[c] \in {"scheduling", "waiting"} /\ call[c].op = "Write" =>
         /\ buffer[call[c].buf].content = call[c].val
         /\ pc[c] = "waiting" /\ Remote(c) /\ task[c].state = "lane" => task[c].data = call[c].val

Served == \A c \in Clients : ServedAt(c)
SimInv == TypeInv /\ BufferHeld /\ LaneInv /\ Served

Full == \E n \in Containers : fds[n] = FdLimit
Res == [c \in Clients |-> Answered(c)]
ServiceStep == [Service!Next]_(Service!vars)

LEMMA FirstContainer == 0 \in Containers /\ DirectHash(0) = 0
<1>1. 0 \in Containers
  BY NAssumption DEF Containers
<1>2. 0 % N = 0
  BY NAssumption
<1> QED
  BY <1>1, <1>2 DEF DirectHash

\* A step of client c, or of its task, touches no buffer of another call, so what
\* the others have been answered stays.
LEMMA OthersAnswers ==
    ASSUME SimInv, NEW c \in Clients,
           \A d \in Clients : d # c => /\ pc'[d] = pc[d] /\ call'[d] = call[d]
                                       /\ task'[d] = task[d],
           \A b \in Buffers : \/ buffer'[b].content = buffer[b].content
                              \/ buffer[b].owner \in {None, c}
    PROVE  \A d \in Clients : d # c => ServedAt(d)' /\ Answered(d)' = Answered(d)
<1> SUFFICES ASSUME NEW d \in Clients, d # c PROVE ServedAt(d)' /\ Answered(d)' = Answered(d)
  OBVIOUS
<1>1. CallAt(d) /\ ServedAt(d)
  BY DEF SimInv, TypeInv, Served
<1>2. pc'[d] = pc[d] /\ call'[d] = call[d] /\ task'[d] = task[d]
  OBVIOUS
<1>3. pc[d] \in {"scheduling", "waiting"} /\ call[d].op \in IoOps =>
        buffer'[call[d].buf].content = buffer[call[d].buf].content
  <2> SUFFICES ASSUME pc[d] \in {"scheduling", "waiting"}, call[d].op \in IoOps
               PROVE  buffer'[call[d].buf].content = buffer[call[d].buf].content
    OBVIOUS
  <2>1. call[d].buf \in Buffers
    BY <1>1 DEF CallAt
  <2>2. buffer[call[d].buf].owner = d
    BY <2>1, ValueAssumption DEF SimInv, BufferHeld
  <2>3. d \notin {None, c}
    BY ValueAssumption
  <2> QED
    BY <2>1, <2>2, <2>3
<1>4. ServedAt(d)'
  BY <1>1, <1>2, <1>3 DEF ServedAt, IoOps, Remote
<1>5. Answered(d)' = Answered(d)
  <2>1. CASE pc[d] = "waiting" /\ task[d].state \in {"back", "done"}
    <3>1. Answered(d) = Answer(d, task[d].out) /\ Answered(d)' = Answer(d, task[d].out)'
      BY <1>2, <2>1 DEF Answered
    <3>2. CASE call[d].op = "Write"
      <4>1. Answer(d, task[d].out) = <<"Write", call[d].cell, call[d].val>>
        BY <3>2, Zenon DEF Answer
      <4>2. Answer(d, task[d].out)' = <<"Write", call[d].cell, call[d].val>>
        BY <1>2, <3>2, Zenon DEF Answer
      <4> QED
        BY <3>1, <4>1, <4>2, Zenon
    <3>3. CASE call[d].op = "Read"
      <4>1. Answer(d, task[d].out) = <<"Read", buffer[call[d].buf].content>>
        BY <3>3, Zenon DEF Answer
      <4>2. Answer(d, task[d].out)' = <<"Read", buffer'[call[d].buf].content>>
        BY <1>2, <3>3, Zenon DEF Answer
      <4>3. buffer'[call[d].buf].content = buffer[call[d].buf].content
        BY <1>3, <2>1, <3>3 DEF IoOps
      <4> QED
        BY <3>1, <4>1, <4>2, <4>3, Zenon
    <3>4. CASE call[d].op = "MetaPut"
      <4>1. Answer(d, task[d].out) = <<"MetaPut", call[d].key, call[d].val>>
        BY <3>4, Zenon DEF Answer
      <4>2. Answer(d, task[d].out)' = <<"MetaPut", call[d].key, call[d].val>>
        BY <1>2, <3>4, Zenon DEF Answer
      <4> QED
        BY <3>1, <4>1, <4>2, Zenon
    <3>5. CASE call[d].op = "MetaGet"
      <4>1. Answer(d, task[d].out) = <<"MetaGet", task[d].out.presence, task[d].out.val>>
        BY <3>5, Zenon DEF Answer
      <4>2. Answer(d, task[d].out)' = <<"MetaGet", task[d].out.presence, task[d].out.val>>
        BY <1>2, <3>5, Zenon DEF Answer
      <4> QED
        BY <3>1, <4>1, <4>2, Zenon
    <3> QED
      BY <1>1, <2>1, <3>2, <3>3, <3>4, <3>5 DEF CallAt, IoOps, MetaOps
  <2>2. CASE ~ (pc[d] = "waiting" /\ task[d].state \in {"back", "done"})
    <3>1. Answered(d) = call[d].res
      BY <2>2, Zenon DEF Answered
    <3>2. Answered(d)' = call[d].res
      BY <1>2, <2>2, Zenon DEF Answered
    <3> QED
      BY <3>1, <3>2
  <2> QED
    BY <2>1, <2>2
<1> QED
  BY <1>4, <1>5

\* A step that changes no container and no answer is none of the service.
LEMMA ServiceSame ==
    ASSUME disk' = disk, fds' = fds, metamap' = metamap,
           \A d \in Clients : Answered(d)' = Answered(d)
    PROVE  ServiceStep
<1>1. Res' = Res
  BY DEF Res
<1>2. Full' = Full
  BY DEF Full
<1>3. UNCHANGED Service!vars
  BY <1>1, <1>2 DEF Service!vars, Res, Full
<1> QED
  BY <1>3 DEF ServiceStep

\* A step that answers c.
LEMMA ResultIs ==
    ASSUME NEW c \in Clients, NEW r, Answered(c) = None, Answered(c)' = r,
           \A d \in Clients : d # c => Answered(d)' = Answered(d)
    PROVE  Service!Result(c, r)
<1>1. Res[c] = None /\ Res' = [Res EXCEPT ![c] = r]
  BY DEF Res
<1> QED
  BY <1>1 DEF Service!Result, Res

LEMMA BeginIoServes ==
    ASSUME SimInv, NEW c \in Clients, NEW op \in IoOps, NEW x \in Cells,
           NEW v \in Values \union {None}, BeginIo(c, op, x, v)
    PROVE  Served' /\ ServiceStep
<1>1. PICK b \in Buffers :
        /\ buffer[b].owner = None
        /\ buffer' = [buffer EXCEPT ![b] = [owner |-> c,
                            content |-> IF op = "Write" THEN v ELSE @.content]]
        /\ call' = [call EXCEPT ![c] = NewCall(op, x, None, v, b, None)]
  BY DEF BeginIo
<1>2. /\ call'[c].op = op /\ call'[c].buf = b /\ call'[c].val = v /\ call'[c].res = None
      /\ \A d \in Clients : d # c => call'[d] = call[d]
  BY <1>1, CallFields DEF SimInv, TypeInv, TypeOK
<1>3. pc[c] = "idle" /\ pc'[c] = "scheduling" /\ \A d \in Clients : d # c => pc'[d] = pc[d]
  BY DEF BeginIo, SimInv, TypeInv, TypeOK
<1>4. \A d \in Clients : d # c => task'[d] = task[d]
  BY FirstContainer, SubmitEffect DEF BeginIo, Methods, SimInv, TypeInv
<1>5. /\ \A e \in Buffers : e # b => buffer'[e].content = buffer[e].content
      /\ op = "Write" => buffer'[b].content = v
  BY <1>1 DEF SimInv, TypeInv, TypeOK
<1>6. \A d \in Clients : d # c => ServedAt(d)' /\ Answered(d)' = Answered(d)
  <2>1. \A e \in Buffers : \/ buffer'[e].content = buffer[e].content
                           \/ buffer[e].owner \in {None, c}
    BY <1>1, <1>5
  <2> QED
    BY <1>2, <1>3, <1>4, <2>1, OthersAnswers
<1>7. ServedAt(c)'
  BY <1>2, <1>3, <1>5 DEF ServedAt
<1>8. Answered(c) = None /\ Answered(c)' = None
  BY <1>2, <1>3 DEF Answered, SimInv, Served, ServedAt
<1>9. ServiceStep
  BY <1>6, <1>8, ServiceSame DEF BeginIo, Server
<1> QED
  BY <1>6, <1>7, <1>9 DEF Served

LEMMA BeginMetaServes ==
    ASSUME SimInv, NEW c \in Clients, NEW op \in MetaOps, NEW k, NEW v, NEW to,
           BeginMeta(c, op, k, v, to)
    PROVE  Served' /\ ServiceStep
<1>1. /\ call'[c].op = op /\ call'[c].res = None
      /\ \A d \in Clients : d # c => call'[d] = call[d]
  <2>1. call' = [call EXCEPT ![c] = NewCall(op, None, k, v, None, None)]
    BY DEF BeginMeta
  <2> QED
    BY <2>1, CallFields DEF SimInv, TypeInv, TypeOK
<1>2. pc[c] = "idle" /\ pc'[c] = "waiting" /\ \A d \in Clients : d # c => pc'[d] = pc[d]
  BY DEF BeginMeta, SimInv, TypeInv, TypeOK
<1>3. /\ task'[c].to = 0 /\ task'[c].state \in {"net", "lane"}
      /\ \A d \in Clients : d # c => task'[d] = task[d]
  <2>1. op \in Methods /\ Submit(c, op, 0)
    BY FirstContainer DEF BeginMeta, IoRoute, MetaOps, Methods
  <2> QED
    BY <2>1, FirstContainer, SubmitEffect DEF SimInv, TypeInv
<1>4. \A d \in Clients : d # c => ServedAt(d)' /\ Answered(d)' = Answered(d)
  <2>1. buffer' = buffer
    BY DEF BeginMeta
  <2> QED
    BY <1>1, <1>2, <1>3, <2>1, OthersAnswers
<1>5. ServedAt(c)'
  BY <1>1, <1>2, <1>3 DEF ServedAt, MetaOps
<1>6. Answered(c) = None /\ Answered(c)' = None
  BY <1>1, <1>2, <1>3 DEF Answered, SimInv, Served, ServedAt
<1>7. ServiceStep
  BY <1>4, <1>6, ServiceSame DEF BeginMeta, Server
<1> QED
  BY <1>4, <1>5, <1>7 DEF Served

LEMMA SerializeStartServes ==
    ASSUME SimInv, NEW c \in Clients, SerializeStart(c)
    PROVE  Served' /\ ServiceStep
<1> DEFINE data == IF task[c].method \in {"Write", "Read"}
                   THEN buffer[call[c].buf].content ELSE Junk
<1>1. task' = [task EXCEPT ![c] = NewTask(task[c].method, task[c].to, "lane", data, task[c].out)]
  BY DEF SerializeStart
<1> HIDE DEF data
<1>2. /\ task'[c].to = task[c].to /\ task'[c].state = "lane" /\ task'[c].data = data
      /\ \A d \in Clients : d # c => task'[d] = task[d]
  BY <1>1, TaskFields DEF SimInv, TypeInv, TypeOK
<1>3. task[c].state = "net" /\ pc' = pc /\ call' = call /\ buffer' = buffer
      /\ disk' = disk /\ fds' = fds /\ metamap' = metamap
  BY DEF SerializeStart, Server
<1>4. \A d \in Clients : d # c => ServedAt(d)' /\ Answered(d)' = Answered(d)
  BY <1>2, <1>3, OthersAnswers
<1>5. ServedAt(c)'
  <2>1. ServedAt(c) /\ CallAt(c)
    BY DEF SimInv, TypeInv, Served
  <2>2. pc[c] = "waiting" /\ call[c].op = "Write" => data = call[c].val
    BY <2>1 DEF data, CallAt, ServedAt
  <2> QED
    BY <1>2, <1>3, <2>1, <2>2 DEF ServedAt
<1>6. Answered(c)' = Answered(c)
  BY <1>2, <1>3 DEF Answered
<1> QED
  BY <1>3, <1>4, <1>5, <1>6, ServiceSame DEF Served

LEMMA SerializeEndServes ==
    ASSUME SimInv, NEW c \in Clients, SerializeEnd(c)
    PROVE  Served' /\ ServiceStep
<1> DEFINE out == IF task[c].method \in {"Schedule", "MetaGet"} THEN task[c].out ELSE NoOut
<1>1. task' = [task EXCEPT ![c] = NewTask(task[c].method, task[c].to, "done", task[c].data, out)]
  BY DEF SerializeEnd
<1> HIDE DEF out
<1>2. /\ task'[c].to = task[c].to /\ task'[c].state = "done" /\ task'[c].out = out
      /\ \A d \in Clients : d # c => task'[d] = task[d]
  BY <1>1, TaskFields DEF SimInv, TypeInv, TypeOK
<1>3. task[c].state = "back" /\ pc' = pc /\ call' = call /\ buffer' = buffer
      /\ disk' = disk /\ fds' = fds /\ metamap' = metamap
  BY DEF SerializeEnd, Server
<1>4. \A d \in Clients : d # c => ServedAt(d)' /\ Answered(d)' = Answered(d)
  BY <1>2, <1>3, OthersAnswers
<1>5. ServedAt(c) /\ CallAt(c)
  BY DEF SimInv, TypeInv, Served
<1>6. ServedAt(c)'
  BY <1>2, <1>3, <1>5 DEF ServedAt
<1>7. Answered(c)' = Answered(c)
  <2>1. CASE pc[c] = "waiting"
    <3>1. Answered(c) = Answer(c, task[c].out) /\ Answered(c)' = Answer(c, out)
      BY <1>2, <1>3, <2>1, Zenon DEF Answered, Answer
    <3>2. CASE call[c].op = "MetaGet"
      <4>1. out = task[c].out
        BY <1>5, <2>1, <3>2 DEF out, CallAt
      <4> QED
        BY <3>1, <4>1
    <3>3. CASE call[c].op # "MetaGet"
      <4>1. call[c].op \in {"Write", "Read", "MetaPut"}
        BY <1>5, <2>1, <3>3 DEF CallAt, IoOps, MetaOps
      <4>2. Answer(c, out) = Answer(c, task[c].out)
        BY <4>1, Zenon DEF Answer
      <4> QED
        BY <3>1, <4>2
    <3> QED
      BY <3>2, <3>3
  <2>2. CASE pc[c] # "waiting"
    BY <1>3, <2>2 DEF Answered
  <2> QED
    BY <2>1, <2>2
<1> QED
  BY <1>3, <1>4, <1>6, <1>7, ServiceSame DEF Served

LEMMA SubmitIoServes ==
    ASSUME SimInv, NEW c \in Clients, SubmitIo(c)
    PROVE  Served' /\ ServiceStep
<1>1. call[c] \in Call /\ CallAt(c) /\ ServedAt(c)
  BY DEF SimInv, TypeInv, TypeOK, Served
<1>2. /\ call[c].op \in IoOps /\ call'[c].op = call[c].op /\ call'[c].buf = call[c].buf
      /\ call'[c].val = call[c].val /\ call'[c].res = call[c].res
      /\ \A d \in Clients : d # c => call'[d] = call[d]
  BY <1>1, SubmitIoEffect DEF SimInv, Call
<1>3. /\ pc[c] = "scheduling" /\ pc'[c] = "waiting"
      /\ \A d \in Clients : d # c => pc'[d] = pc[d]
      /\ buffer' = buffer /\ disk' = disk /\ fds' = fds /\ metamap' = metamap
  BY DEF SubmitIo, Server, SimInv, TypeInv, TypeOK
<1>4. /\ task'[c].state \in {"net", "lane"}
      /\ task'[c].state = "lane" => task'[c].to = Home[c]
      /\ \A d \in Clients : d # c => task'[d] = task[d]
  <2> DEFINE to == DirectHash(task[c].out.schedule_num)
  <2>1. task' = [task EXCEPT ![c] = NewTask(call[c].op, to, IF to = Home[c] THEN "lane" ELSE "net",
                                            Junk, NoOut)]
    BY DEF SubmitIo, Submit
  <2> HIDE DEF to
  <2>2. /\ task'[c] = NewTask(call[c].op, to, IF to = Home[c] THEN "lane" ELSE "net", Junk, NoOut)
        /\ \A d \in Clients : d # c => task'[d] = task[d]
    BY <2>1 DEF SimInv, TypeInv, TypeOK
  <2>3. task'[c].to = to /\ task'[c].state = IF to = Home[c] THEN "lane" ELSE "net"
    BY <2>2, TaskFields
  <2> QED
    BY <2>2, <2>3
<1>5. \A d \in Clients : d # c => ServedAt(d)' /\ Answered(d)' = Answered(d)
  BY <1>2, <1>3, <1>4, OthersAnswers
<1>6. ServedAt(c)'
  <2>1. call'[c].res = None /\ call'[c].op \notin MetaOps
    BY <1>1, <1>2, <1>3 DEF ServedAt, IoOps, MetaOps
  <2>2. call'[c].op = "Write" => buffer'[call'[c].buf].content = call'[c].val
    BY <1>1, <1>2, <1>3 DEF ServedAt
  <2>3. task'[c].state = "lane" => ~ (Remote(c)')
    BY <1>4 DEF Remote
  <2> QED
    BY <2>1, <2>2, <2>3 DEF ServedAt
<1>7. Answered(c)' = Answered(c)
  BY <1>2, <1>3, <1>4 DEF Answered
<1>8. \A d \in Clients : ServedAt(d)' /\ Answered(d)' = Answered(d)
  BY <1>5, <1>6, <1>7
<1> QED
  BY <1>3, <1>8, ServiceSame DEF Served

LEMMA FinishServes ==
    ASSUME SimInv, NEW c \in Clients, Finish(c)
    PROVE  Served' /\ ServiceStep
<1>1. /\ call'[c].res = Answer(c, task[c].out)
      /\ \A d \in Clients : d # c => call'[d] = call[d]
  <2>1. call' = [call EXCEPT ![c] =
                   NewCall(call[c].op, None, None, None, None, Answer(c, task[c].out))]
    BY DEF Finish
  <2> QED
    BY <2>1, CallFields DEF SimInv, TypeInv, TypeOK
<1>2. /\ pc[c] = "waiting" /\ task[c].state = "done" /\ pc'[c] = "return"
      /\ \A d \in Clients : d # c => pc'[d] = pc[d] /\ task'[d] = task[d]
      /\ disk' = disk /\ fds' = fds /\ metamap' = metamap
  BY DEF Finish, Server, SimInv, TypeInv, TypeOK
<1>3. \A b \in Buffers : buffer'[b].content = buffer[b].content
  BY DEF Finish, SimInv, TypeInv, TypeOK
<1>4. \A d \in Clients : d # c => ServedAt(d)' /\ Answered(d)' = Answered(d)
  BY <1>1, <1>2, <1>3, OthersAnswers
<1>5. ServedAt(c)'
  BY <1>2 DEF ServedAt
<1>6. Answered(c)' = Answered(c)
  <2>1. Answered(c) = Answer(c, task[c].out)
    BY <1>2 DEF Answered
  <2>2. Answered(c)' = call'[c].res
    BY <1>2 DEF Answered
  <2> QED
    BY <1>1, <2>1, <2>2
<1> QED
  BY <1>2, <1>4, <1>5, <1>6, ServiceSame DEF Served

LEMMA ReturnServes ==
    ASSUME SimInv, NEW c \in Clients, Return(c)
    PROVE  Served' /\ ServiceStep
<1>1. call'[c] = NoCall /\ \A d \in Clients : d # c => call'[d] = call[d]
  BY DEF Return, SimInv, TypeInv, TypeOK
<1>2. NoCall.res = None
  BY CallFields DEF NoCall
<1>3. /\ pc[c] = "return" /\ pc'[c] = "idle" /\ \A d \in Clients : d # c => pc'[d] = pc[d]
      /\ task' = task /\ buffer' = buffer /\ disk' = disk /\ fds' = fds /\ metamap' = metamap
  BY DEF Return, Server, SimInv, TypeInv, TypeOK
<1>4. \A d \in Clients : d # c => ServedAt(d)' /\ Answered(d)' = Answered(d)
  BY <1>1, <1>3, OthersAnswers
<1>5. ServedAt(c)'
  BY <1>1, <1>2, <1>3 DEF ServedAt
<1>6. Answered(c)' = None
  BY <1>1, <1>2, <1>3 DEF Answered
<1>7. CASE Answered(c) = None
  BY <1>3, <1>4, <1>5, <1>6, <1>7, ServiceSame DEF Served
<1>8. CASE Answered(c) # None
  <2>1. Res[c] # None /\ Res' = [Res EXCEPT ![c] = None]
    BY <1>4, <1>6, <1>8 DEF Res
  <2>2. Full' = Full
    BY <1>3 DEF Full
  <2>3. Service!Return(c)
    BY <1>3, <2>1, <2>2 DEF Service!Return, Res, Full
  <2> QED
    BY <1>4, <1>5, <2>3 DEF ServiceStep, Service!Next, Served
<1> QED
  BY <1>7, <1>8

\* A container's counter of descriptors only grows.
LEMMA FullStays ==
    ASSUME TypeInv, NEW n \in Containers,
           fds' = fds \/ (fds[n] < FdLimit /\ fds' = [fds EXCEPT ![n] = @ + 1])
    PROVE  Full' \in {Full, TRUE} /\ (fds' = fds => Full' = Full)
<1>1. Full => Full'
  <2> SUFFICES ASSUME NEW m \in Containers, fds[m] = FdLimit PROVE fds'[m] = FdLimit
    BY DEF Full
  <2>1. CASE fds' = fds
    BY <2>1
  <2>2. CASE fds[n] < FdLimit /\ fds' = [fds EXCEPT ![n] = @ + 1]
    <3>1. m # n
      BY <2>2, LimitAssumption
    <3> QED
      BY <2>2, <3>1 DEF TypeInv, TypeOK
  <2> QED
    BY <2>1, <2>2
<1>2. Full \in BOOLEAN /\ Full' \in BOOLEAN
  BY DEF Full
<1>3. fds' = fds => Full' = Full
  BY DEF Full
<1> QED
  BY <1>1, <1>2, <1>3

\* What a method leaves, and what a task is when it is run.
LEMMA RunServes ==
    ASSUME SimInv, NEW n \in Containers, NEW p \in Prios, Run(n, p)
    PROVE  \E c \in Clients :
             /\ \/ task[c].method = "Schedule" /\ Schedule(n, c)
                \/ task[c].method = "Write" /\ Write(n, c)
                \/ task[c].method = "Read" /\ Read(n, c)
                \/ task[c].method = "MetaPut" /\ MetaPut(n, c)
                \/ task[c].method = "MetaGet" /\ MetaGet(n, c)
             /\ task[c].state = "lane" /\ task[c].to = n
             /\ MethodEffect(n, c)
<1> DEFINE c == Head(lanes[n][p])
<1>1. c \in Clients /\ MethodEffect(n, c)
  BY RunEffect DEF SimInv
<1>2. task[c].state = "lane" /\ task[c].to = n
  BY RunLane DEF SimInv
<1>3. \/ task[c].method = "Schedule" /\ Schedule(n, c)
      \/ task[c].method = "Write" /\ Write(n, c)
      \/ task[c].method = "Read" /\ Read(n, c)
      \/ task[c].method = "MetaPut" /\ MetaPut(n, c)
      \/ task[c].method = "MetaGet" /\ MetaGet(n, c)
  BY DEF Run
<1> HIDE DEF c
<1> QED
  BY <1>1, <1>2, <1>3

\* The call whose task is run: its main task is its method's, and it is not answered.
LEMMA RunCall ==
    ASSUME SimInv, NEW c \in Clients, task[c].state = "lane", task[c].method \in IoOps \union MetaOps
    PROVE  /\ pc[c] = "waiting" /\ call[c].op = task[c].method /\ call[c].res = None
           /\ Answered(c) = None
<1>1. CallAt(c) /\ ServedAt(c)
  BY DEF SimInv, TypeInv, Served
<1>2. pc[c] = "waiting"
  <2>1. task[c] # NoTask /\ task[c].method # "Schedule"
    BY Empties DEF IoOps, MetaOps
  <2>2. pc[c] \in {"idle", "scheduling", "waiting", "return"}
    BY DEF SimInv, TypeInv, TypeOK
  <2> QED
    BY <1>1, <2>1, <2>2 DEF CallAt
<1>3. call[c].op = task[c].method /\ call[c].res = None
  BY <1>1, <1>2 DEF CallAt, ServedAt
<1>4. Answered(c) = None
  BY <1>2, <1>3 DEF Answered
<1> QED
  BY <1>2, <1>3, <1>4

\* Running a task leaves everything of the invariant, and what others were answered.
LEMMA RunKeepsServed ==
    ASSUME SimInv, NEW n \in Containers, NEW c \in Clients, MethodEffect(n, c),
           pc' = pc, call' = call, task[c].state = "lane",
           \A b \in Buffers : \/ buffer'[b].content = buffer[b].content
                              \/ call[c].op = "Read" /\ buffer[b].owner = c
    PROVE  /\ Served'
           /\ \A d \in Clients : d # c => Answered(d)' = Answered(d)
<1>1. \A d \in Clients : d # c => task'[d] = task[d]
  BY DEF MethodEffect
<1>2. \A d \in Clients : d # c => ServedAt(d)' /\ Answered(d)' = Answered(d)
  BY <1>1, OthersAnswers
<1>3. ServedAt(c) /\ CallAt(c) /\ task'[c].to = task[c].to /\ task'[c].state # "lane"
  BY DEF SimInv, TypeInv, Served, MethodEffect
<1>4. pc[c] \in {"scheduling", "waiting"} /\ call[c].op = "Write" =>
        buffer'[call[c].buf].content = buffer[call[c].buf].content
  BY <1>3 DEF CallAt, IoOps
<1>5. ServedAt(c)'
  BY <1>3, <1>4 DEF ServedAt
<1> QED
  BY <1>2, <1>5 DEF Served

LEMMA ScheduleServes ==
    ASSUME SimInv, NEW n \in Containers, NEW c \in Clients, MethodEffect(n, c),
           pc' = pc, call' = call, task[c].state = "lane",
           task[c].method = "Schedule", Schedule(n, c)
    PROVE  Served' /\ ServiceStep
<1>1. buffer' = buffer /\ disk' = disk /\ fds' = fds /\ metamap' = metamap
  BY DEF Schedule
<1>2. Served' /\ \A d \in Clients : d # c => Answered(d)' = Answered(d)
  BY <1>1, RunKeepsServed
<1>3. Answered(c)' = Answered(c)
  <2>1. pc[c] # "waiting"
    BY DEF SimInv, TypeInv, CallAt, IoOps, MetaOps
  <2> QED
    BY <2>1 DEF Answered
<1>4. \A d \in Clients : Answered(d)' = Answered(d)
  BY <1>2, <1>3
<1> QED
  BY <1>1, <1>2, <1>4, ServiceSame

LEMMA WriteServes ==
    ASSUME SimInv, NEW n \in Containers, NEW c \in Clients, MethodEffect(n, c),
           pc' = pc, call' = call, task[c].state = "lane",
           task[c].method = "Write", Write(n, c)
    PROVE  Served' /\ ServiceStep
<1>1. pc[c] = "waiting" /\ call[c].op = "Write" /\ Answered(c) = None
  BY RunCall DEF IoOps
<1>2. buffer' = buffer /\ metamap' = metamap
  BY DEF Write
<1>3. Served' /\ \A d \in Clients : d # c => Answered(d)' = Answered(d)
  BY <1>2, RunKeepsServed
<1>4. PICK x \in Cells, v \in Values : x = call[c].cell /\ v = call[c].val /\ Data(c) = v
  <2>1. CallAt(c) /\ ServedAt(c)
    BY DEF SimInv, TypeInv, Served
  <2> QED
    BY <1>1, <2>1 DEF CallAt, ServedAt, Data, IoOps
<1>5. Answered(c)' = <<"Write", x, v>>
  <2>1. Answered(c)' = Answer(c, task[c].out)'
    BY <1>1 DEF Answered, MethodEffect
  <2>2. Answer(c, task[c].out)' = <<"Write", call[c].cell, call[c].val>>
    BY <1>1, Zenon DEF Answer
  <2> QED
    BY <1>4, <2>1, <2>2
<1>6. Service!Result(c, <<"Write", x, v>>)
  BY <1>1, <1>3, <1>5, ResultIs
<1>7. Full' \in {Full, TRUE}
      /\ (disk' = [disk EXCEPT ![x] = v] \/ (Full /\ disk' = disk))
  <2>1. CASE fds[n] < FdLimit
    <3>1. fds' = [fds EXCEPT ![n] = @ + 1] /\ disk' = [disk EXCEPT ![x] = v]
      BY <1>4, <2>1 DEF Write
    <3> QED
      BY <2>1, <3>1, FullStays DEF SimInv
  <2>2. CASE ~ (fds[n] < FdLimit)
    <3>1. fds' = fds /\ disk' = disk
      BY <2>2 DEF Write
    <3>2. Full
      BY <2>2, LimitAssumption DEF Full, SimInv, TypeInv, TypeOK
    <3> QED
      BY <3>1, <3>2, FullStays DEF SimInv
  <2> QED
    BY <2>1, <2>2
<1>8. Service!Write(c, x, v)
  BY <1>2, <1>6, <1>7 DEF Service!Write, Full
<1>9. Service!Next
  BY <1>8 DEF Service!Next
<1> QED
  BY <1>3, <1>9 DEF ServiceStep

LEMMA ReadServes ==
    ASSUME SimInv, N = 1, NEW n \in Containers, NEW c \in Clients, MethodEffect(n, c),
           pc' = pc, call' = call, task[c].state = "lane",
           task[c].method = "Read", Read(n, c)
    PROVE  Served' /\ ServiceStep
<1> DEFINE got == IF fds[n] < FdLimit THEN disk[call[c].cell] ELSE Data(c)
<1>1. pc[c] = "waiting" /\ call[c].op = "Read" /\ Answered(c) = None
  BY RunCall DEF IoOps
<1>2. /\ ~ Remote(c) /\ call[c].cell \in Cells /\ call[c].buf \in Buffers
      /\ buffer[call[c].buf].owner = c
  <2>1. Containers = {0}
    BY DEF Containers
  <2>2. task[c].to = 0 /\ Home[c] = 0
    BY <2>1, NAssumption DEF SimInv, TypeInv, TypeOK, Task
  <2>3. call[c].cell \in Cells /\ call[c].buf \in Buffers
    BY <1>1 DEF SimInv, TypeInv, CallAt, IoOps
  <2> QED
    BY <2>2, <2>3, ValueAssumption DEF Remote, SimInv, BufferHeld
<1>3. /\ fds' = IF fds[n] < FdLimit THEN [fds EXCEPT ![n] = @ + 1] ELSE fds
      /\ buffer' = [buffer EXCEPT ![call[c].buf].content = got]
      /\ disk' = disk /\ metamap' = metamap
  BY <1>2 DEF Read
<1>4. got \in {disk[call[c].cell]} \union (IF Full THEN Values \union {Zero, Junk} ELSE {})
  <2>1. CASE fds[n] < FdLimit
    BY <2>1
  <2>2. CASE ~ (fds[n] < FdLimit)
    <3>1. Full
      BY <2>2, LimitAssumption DEF Full, SimInv, TypeInv, TypeOK
    <3>2. Data(c) \in Content
      BY DataType DEF SimInv, IoOps
    <3> QED
      BY <2>2, <3>1, <3>2 DEF Content
  <2> QED
    BY <2>1, <2>2
<1>5. Full' \in {Full, TRUE}
  BY <1>3, FullStays DEF SimInv
<1> HIDE DEF got
<1>6. /\ buffer'[call[c].buf].content = got
      /\ \A b \in Buffers : b # call[c].buf => buffer'[b].content = buffer[b].content
  BY <1>2, <1>3 DEF SimInv, TypeInv, TypeOK
<1>7. Served' /\ \A d \in Clients : d # c => Answered(d)' = Answered(d)
  BY <1>1, <1>2, <1>6, RunKeepsServed
<1>8. Answered(c)' = <<"Read", got>>
  <2>1. Answered(c)' = Answer(c, task[c].out)'
    BY <1>1 DEF Answered, MethodEffect
  <2>2. Answer(c, task[c].out)' = <<"Read", buffer'[call[c].buf].content>>
    BY <1>1, Zenon DEF Answer
  <2> QED
    BY <1>6, <2>1, <2>2
<1>9. Service!Result(c, <<"Read", got>>)
  BY <1>1, <1>7, <1>8, ResultIs
<1>10. PICK x \in Cells : x = call[c].cell
  BY <1>2
<1>11. Service!Read(c, x)
  BY <1>3, <1>4, <1>5, <1>9, <1>10 DEF Service!Read, Full
<1>12. Service!Next
  BY <1>11 DEF Service!Next
<1> QED
  BY <1>7, <1>12 DEF ServiceStep

LEMMA MetaPutServes ==
    ASSUME SimInv, NEW n \in Containers, NEW c \in Clients, MethodEffect(n, c),
           pc' = pc, call' = call, task[c].state = "lane", task[c].to = n,
           task[c].method = "MetaPut", MetaPut(n, c)
    PROVE  Served' /\ ServiceStep
<1>1. pc[c] = "waiting" /\ call[c].op = "MetaPut" /\ Answered(c) = None
  BY RunCall DEF MetaOps
<1>2. buffer' = buffer /\ disk' = disk /\ fds' = fds
  BY DEF MetaPut
<1>3. Served' /\ \A d \in Clients : d # c => Answered(d)' = Answered(d)
  BY <1>2, RunKeepsServed
<1>4. n = 0 /\ call[c].key \in Keys /\ call[c].val \in Values
  <2>1. CallAt(c) /\ ServedAt(c)
    BY DEF SimInv, TypeInv, Served
  <2> QED
    BY <1>1, <2>1 DEF CallAt, ServedAt, MetaOps
<1>5. metamap'[0] = [metamap[0] EXCEPT ![call[c].key] = call[c].val]
  BY <1>4, FirstContainer DEF MetaPut, SimInv, TypeInv, TypeOK
<1>6. Answered(c)' = <<"MetaPut", call[c].key, call[c].val>>
  <2>1. Answered(c)' = Answer(c, task[c].out)'
    BY <1>1 DEF Answered, MethodEffect
  <2>2. Answer(c, task[c].out)' = <<"MetaPut", call[c].key, call[c].val>>
    BY <1>1, Zenon DEF Answer
  <2> QED
    BY <2>1, <2>2
<1>7. Service!Result(c, <<"MetaPut", call[c].key, call[c].val>>)
  BY <1>1, <1>3, <1>6, ResultIs
<1>8. Full' = Full
  BY <1>2 DEF Full
<1>9. Service!MetaPut(c, call[c].key, call[c].val)
  BY <1>2, <1>5, <1>7, <1>8 DEF Service!MetaPut, Full
<1>10. Service!Next
  BY <1>4, <1>9 DEF Service!Next
<1> QED
  BY <1>3, <1>10 DEF ServiceStep

LEMMA MetaGetServes ==
    ASSUME SimInv, NEW n \in Containers, NEW c \in Clients, MethodEffect(n, c),
           pc' = pc, call' = call, task[c].state = "lane", task[c].to = n,
           task[c].method = "MetaGet", MetaGet(n, c)
    PROVE  Served' /\ ServiceStep
<1> DEFINE found == metamap[n][call[c].key]
           out == [schedule_num |-> 0, presence |-> found # None, val |-> found]
<1>1. pc[c] = "waiting" /\ call[c].op = "MetaGet" /\ Answered(c) = None
  BY RunCall DEF MetaOps
<1>2. buffer' = buffer /\ disk' = disk /\ fds' = fds /\ metamap' = metamap
  BY DEF MetaGet, Server
<1>3. Served' /\ \A d \in Clients : d # c => Answered(d)' = Answered(d)
  BY <1>2, RunKeepsServed
<1>4. n = 0 /\ call[c].key \in Keys
  <2>1. CallAt(c) /\ ServedAt(c)
    BY DEF SimInv, TypeInv, Served
  <2> QED
    BY <1>1, <2>1 DEF CallAt, ServedAt, MetaOps
<1>5. task'[c].out.presence = (found # None) /\ task'[c].out.val = found
  <2>1. Complete(c, out, task[c].data)
    BY DEF MetaGet
  <2>2. out.presence = (found # None) /\ out.val = found
    OBVIOUS
  <2> HIDE DEF out
  <2>3. task'[c].out = out
    BY <2>1, TaskFields DEF Complete, SimInv, TypeInv, TypeOK
  <2> QED
    BY <2>2, <2>3
<1>6. Answered(c)' = <<"MetaGet", found # None, found>>
  <2>1. Answered(c)' = Answer(c, task[c].out)'
    BY <1>1 DEF Answered, MethodEffect
  <2>2. Answer(c, task[c].out)' = <<"MetaGet", task'[c].out.presence, task'[c].out.val>>
    BY <1>1, Zenon DEF Answer
  <2> QED
    BY <1>5, <2>1, <2>2
<1>7. Service!Result(c, <<"MetaGet", found # None, found>>)
  BY <1>1, <1>3, <1>6, ResultIs
<1>8. Service!MetaGet(c, call[c].key)
  <2>1. Full' = Full
    BY <1>2 DEF Full
  <2>2. found = metamap[0][call[c].key]
    BY <1>4
  <2> QED
    BY <1>2, <1>7, <2>1, <2>2 DEF Service!MetaGet, Full
<1>9. Service!Next
  BY <1>4, <1>8 DEF Service!Next
<1> QED
  BY <1>3, <1>9 DEF ServiceStep

LEMMA NextServes ==
    ASSUME "Read" \in Ops => N = 1
    PROVE  SimInv /\ [Next]_vars => SimInv' /\ ServiceStep
<1> SUFFICES ASSUME SimInv, [Next]_vars PROVE Served' /\ ServiceStep
  BY NextType, NextHolds, NextLane DEF SimInv, BufferInv
<1>1. ASSUME NEW c \in Clients, Begin(c) PROVE Served' /\ ServiceStep
  <2>1. ASSUME NEW x \in Cells, BeginIo(c, "Read", x, None) PROVE Served' /\ ServiceStep
    BY <2>1, BeginIoServes DEF IoOps
  <2>2. ASSUME NEW x \in Cells, NEW v \in Values, BeginIo(c, "Write", x, v)
        PROVE  Served' /\ ServiceStep
    BY <2>2, BeginIoServes DEF IoOps
  <2>3. ASSUME NEW op \in MetaOps, NEW k, NEW v, NEW to, BeginMeta(c, op, k, v, to)
        PROVE  Served' /\ ServiceStep
    BY <2>3, BeginMetaServes
  <2> QED
    BY <1>1, <2>1, <2>2, <2>3 DEF Begin, MetaOps
<1>2. ASSUME NEW c \in Clients, Step(c) PROVE Served' /\ ServiceStep
  BY <1>2, SerializeStartServes, SerializeEndServes, SubmitIoServes, FinishServes, ReturnServes
     DEF Step
<1>3. ASSUME NEW n \in Containers, NEW p \in Prios, Run(n, p) PROVE Served' /\ ServiceStep
  <2>1. PICK c \in Clients :
             /\ \/ task[c].method = "Schedule" /\ Schedule(n, c)
                \/ task[c].method = "Write" /\ Write(n, c)
                \/ task[c].method = "Read" /\ Read(n, c)
                \/ task[c].method = "MetaPut" /\ MetaPut(n, c)
                \/ task[c].method = "MetaGet" /\ MetaGet(n, c)
             /\ task[c].state = "lane" /\ task[c].to = n
             /\ MethodEffect(n, c)
    BY <1>3, RunServes
  <2>2. pc' = pc /\ call' = call
    BY <1>3 DEF Run
  <2>3. task[c].method = "Read" => N = 1
    <3> SUFFICES ASSUME task[c].method = "Read" PROVE "Read" \in Ops
      OBVIOUS
    <3>1. call[c].op = "Read"
      BY <2>1, RunCall DEF IoOps
    <3>2. call[c].op \in Ops \union {"none"}
      BY DEF SimInv, TypeInv, TypeOK, Call
    <3> QED
      BY <3>1, <3>2
  <2> QED
    BY <2>1, <2>2, <2>3, ScheduleServes, WriteServes, ReadServes, MetaPutServes, MetaGetServes
<1>4. CASE UNCHANGED vars
  <2>1. Served'
    BY <1>4 DEF vars, SimInv, Served, ServedAt, Remote
  <2>2. \A d \in Clients : Answered(d)' = Answered(d)
    BY <1>4 DEF vars, Answered, Answer
  <2> QED
    BY <1>4, <2>1, <2>2, ServiceSame DEF vars
<1> QED
  BY <1>1, <1>2, <1>3, <1>4 DEF Next

LEMMA InitServes == Init => SimInv /\ Service!Init
<1> SUFFICES ASSUME Init PROVE SimInv /\ Service!Init
  OBVIOUS
<1>1. TypeInv /\ LaneInv
  BY InitNumber DEF NumberAll
<1>2. BufferHeld
  BY Empties DEF Init, BufferHeld
<1>3. NoCall.res = None
  BY CallFields DEF NoCall
<1>4. Served
  BY <1>3 DEF Init, Served, ServedAt
<1>5. \A c \in Clients : Answered(c) = None
  BY <1>3 DEF Init, Answered
<1>6. Service!Init
  <2>1. metamap[0] = [k \in Keys |-> None]
    BY FirstContainer DEF Init
  <2> QED
    BY <1>5, <2>1 DEF Init, Service!Init
<1> QED
  BY <1>1, <1>2, <1>4, <1>6 DEF SimInv

\* The containers together are one service, wherever clients run and tasks go, if
\* reads stay on one node: every write, metadata put and metadata get takes effect
\* once, with the arguments of its call, between its call and its return.
THEOREM OneService ==
    ASSUME "Read" \in Ops => N = 1
    PROVE  Spec => Linearizable
<1>1. Init => SimInv /\ Service!Init
  BY InitServes
<1>2. SimInv /\ [Next]_vars => SimInv' /\ [Service!Next]_(Service!vars)
  BY NextServes DEF ServiceStep
<1> QED
  BY <1>1, <1>2, PTL DEF Spec, Linearizable, Service!Spec
=============================================================================
