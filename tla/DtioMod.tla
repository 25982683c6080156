------------------------------ MODULE DtioMod ------------------------------
(***************************************************************************)
(* The DTIO runtime module and its client.  The module has one container   *)
(* on each of N nodes; a client call is one task, or for a read or write a *)
(* schedule task that draws a number and an I/O task that goes to the      *)
(* container the number hashes to.                                         *)
(*                                                                         *)
(* The runtime under the module is external, modelled from how the module  *)
(* uses it: a task to the client's own node is run on the task itself and  *)
(* its shared-memory buffer, one to another node is run on a copy that is  *)
(* made by SerializeStart and of which SerializeEnd brings the outputs     *)
(* back.  A container has a queue for each priority, in which tasks run in *)
(* order, one at a time, without blocking.                                 *)
(***************************************************************************)
EXTENDS Naturals, Sequences, FiniteSets

CONSTANTS
    Clients, N,
    Home,           \* client -> the node it runs on
    Cells, Keys, Values, Zero, None,
    Buffers,        \* the shared-memory buffers
    Junk,           \* what a buffer holds that nobody has written
    Ops,            \* the calls the clients make
    FdLimit,        \* descriptors a container's process may have open
    MaxIo,          \* bound: reads and writes the clients make
    Wrap            \* schedule numbers are an int: 2^32 of them

Containers == 0 .. N - 1

ASSUME NAssumption == N \in Nat \ {0} /\ Home \in [Clients -> Containers]
ASSUME LimitAssumption == FdLimit \in Nat /\ MaxIo \in Nat /\ Wrap \in Nat \ {0}
ASSUME OpsAssumption == Ops \subseteq {"Write", "Read", "MetaPut", "MetaGet"}
ASSUME ValueAssumption == None \notin Clients \union Values \union Buffers

VARIABLES
    disk,           \* cell -> what it holds                       (kernel)
    fds,            \* container -> descriptors it has open        (kernel)
    buffer,         \* shared-memory buffer -> its owner and content
    schedule_num,   \* container -> its counter
    metamap,        \* container -> key -> value, or None
    lanes,          \* container -> priority -> clients whose task is queued
    task,           \* client -> the task it has submitted
    pc, call,       \* client -> where it is in a call, and the call
    calls           \* history: reads and writes begun

vars == <<disk, fds, buffer, schedule_num, metamap, lanes, task, pc, call, calls>>

Prios == {"low", "high"}
Methods == {"Schedule", "Write", "Read", "MetaPut", "MetaGet"}
Content == Values \union {Zero, Junk}

\* A task: data is the copy of its buffer that a remote container works on, out
\* the outputs that the method leaves in the task.
NoOut == [schedule_num |-> 0, presence |-> FALSE, val |-> None]
NewTask(method, to, state, data, out) ==
    [method |-> method, to |-> to, state |-> state, data |-> data, out |-> out]
NoTask == NewTask("none", 0, "none", Junk, NoOut)

\* A call: its arguments, the buffer and the number it has got, and its result.
NewCall(op, cell, key, val, buf, res) ==
    [op |-> op, cell |-> cell, key |-> key, val |-> val, buf |-> buf, snum |-> 0, res |-> res]
NoCall == NewCall("none", None, None, None, None, None)

Init ==
    /\ disk = [x \in Cells |-> Zero]
    /\ fds = [n \in Containers |-> 0]
    /\ buffer = [b \in Buffers |-> [owner |-> None, content |-> Junk]]
    /\ schedule_num = [n \in Containers |-> 0]
    /\ metamap = [n \in Containers |-> [k \in Keys |-> None]]
    /\ lanes = [n \in Containers |-> [p \in Prios |-> << >>]]
    /\ task = [c \in Clients |-> NoTask]
    /\ pc = [c \in Clients |-> "idle"]
    /\ call = [c \in Clients |-> NoCall]
    /\ calls = 0

Server == <<disk, fds, schedule_num, metamap>>

-----------------------------------------------------------------------------
\* The runtime under the module.

\* Each task class sets its priority; MapTaskToLane picks the queue by it.
Prio(method) == IF method = "Write" THEN "high" ELSE "low"

\* GetDirectHash(kGlobalContainers, h)
DirectHash(h) == h % N

Remote(c) == task[c].to # Home[c]

Enqueue(c, n, method) == lanes' = [lanes EXCEPT ![n][Prio(method)] = Append(@, c)]

Submit(c, method, to) ==
    /\ task' = [task EXCEPT ![c] = NewTask(method, to, IF to = Home[c] THEN "lane" ELSE "net",
                                           Junk, NoOut)]
    /\ IF to = Home[c] THEN Enqueue(c, to, method) ELSE UNCHANGED lanes

\* SerializeStart: a task goes to another node with, for a write and also for a
\* read, the content of its buffer.
SerializeStart(c) ==
    /\ task[c].state = "net"
    /\ LET data == IF task[c].method \in {"Write", "Read"}
                   THEN buffer[call[c].buf].content ELSE Junk
       IN  task' = [task EXCEPT ![c] = NewTask(@.method, @.to, "lane", data, @.out)]
    /\ Enqueue(c, task[c].to, task[c].method)
    /\ UNCHANGED <<Server, buffer, pc, call, calls>>

\* SerializeEnd: the outputs of a schedule and of a metadata get come back; the
\* data of a read does not.
SerializeEnd(c) ==
    /\ task[c].state = "back"
    /\ LET out == IF task[c].method \in {"Schedule", "MetaGet"} THEN task[c].out ELSE NoOut
       IN  task' = [task EXCEPT ![c] = NewTask(@.method, @.to, "done", @.data, out)]
    /\ UNCHANGED <<Server, buffer, lanes, pc, call, calls>>

\* The task is complete: the caller of a local one sees it at once.
Complete(c, out, data) ==
    task' = [task EXCEPT ![c] = NewTask(@.method, @.to, IF Remote(c) THEN "back" ELSE "done",
                                        data, out)]

-----------------------------------------------------------------------------
\* The module's methods, run by container n on the task of client c.

\* A mistaken Schedule: the number is given out and not advanced.
ScheduleStays(n, c) ==
    /\ Complete(c, [NoOut EXCEPT !.schedule_num = schedule_num[n]], task[c].data)
    /\ UNCHANGED <<Server, buffer>>

Schedule(n, c) ==
    /\ Complete(c, [NoOut EXCEPT !.schedule_num = schedule_num[n]], task[c].data)
    /\ schedule_num' = [schedule_num EXCEPT ![n] = IF @ + 1 = Wrap THEN 0 ELSE @ + 1]
    /\ UNCHANGED <<disk, fds, metamap, buffer>>

\* What data_ points to where the task runs.
Data(c) == IF Remote(c) THEN task[c].data ELSE buffer[call[c].buf].content

\* open, lseek and write on a descriptor that is never closed.  When the open
\* fails the others fail too, which is logged, and the task completes all the same.
Write(n, c) ==
    /\ IF fds[n] < FdLimit
       THEN /\ fds' = [fds EXCEPT ![n] = @ + 1]
            /\ disk' = [disk EXCEPT ![call[c].cell] = Data(c)]
       ELSE UNCHANGED <<fds, disk>>
    /\ Complete(c, NoOut, task[c].data)
    /\ UNCHANGED <<schedule_num, metamap, buffer>>

Read(n, c) ==
    LET got == IF fds[n] < FdLimit THEN disk[call[c].cell] ELSE Data(c)
    IN  /\ fds' = IF fds[n] < FdLimit THEN [fds EXCEPT ![n] = @ + 1] ELSE fds
        /\ Complete(c, NoOut, got)
        /\ buffer' = IF Remote(c) THEN buffer
                     ELSE [buffer EXCEPT ![call[c].buf].content = got]
        /\ UNCHANGED <<disk, schedule_num, metamap>>

MetaPut(n, c) ==
    /\ metamap' = [metamap EXCEPT ![n][call[c].key] = call[c].val]
    /\ Complete(c, NoOut, task[c].data)
    /\ UNCHANGED <<disk, fds, schedule_num, buffer>>

MetaGet(n, c) ==
    LET found == metamap[n][call[c].key]
    IN  /\ Complete(c, [schedule_num |-> 0, presence |-> found # None, val |-> found], task[c].data)
        /\ UNCHANGED <<Server, buffer>>

\* A mistaken Run: the get of an absent key is queued again until there is a value.
RunAwaitsKey(n, p) ==
    /\ lanes[n][p] # << >>
    /\ LET c == Head(lanes[n][p])
       IN  IF task[c].method = "MetaGet" /\ metamap[n][call[c].key] = None
           THEN /\ lanes' = [lanes EXCEPT ![n][p] = Append(Tail(@), c)]
                /\ UNCHANGED <<Server, buffer, task>>
           ELSE /\ lanes' = [lanes EXCEPT ![n][p] = Tail(@)]
                /\ \/ task[c].method = "Schedule" /\ Schedule(n, c)
                   \/ task[c].method = "Write" /\ Write(n, c)
                   \/ task[c].method = "Read" /\ Read(n, c)
                   \/ task[c].method = "MetaPut" /\ MetaPut(n, c)
                   \/ task[c].method = "MetaGet" /\ MetaGet(n, c)
    /\ UNCHANGED <<pc, call, calls>>

\* Run: the container takes the head of one of its queues and dispatches on the
\* method.
Run(n, p) ==
    /\ lanes[n][p] # << >>
    /\ lanes' = [lanes EXCEPT ![n][p] = Tail(@)]
    /\ LET c == Head(lanes[n][p])
       IN  \/ task[c].method = "Schedule" /\ Schedule(n, c)
           \/ task[c].method = "Write" /\ Write(n, c)
           \/ task[c].method = "Read" /\ Read(n, c)
           \/ task[c].method = "MetaPut" /\ MetaPut(n, c)
           \/ task[c].method = "MetaGet" /\ MetaGet(n, c)
    /\ UNCHANGED <<pc, call, calls>>

-----------------------------------------------------------------------------
\* The client.

\* A read or write: the wrapper allocates a buffer, which holds what its last
\* user left there, and fills it for a write; the client asks container 0 for a
\* schedule number.
BeginIo(c, op, x, v) ==
    /\ pc[c] = "idle" /\ calls < MaxIo /\ op \in Ops
    /\ \E b \in Buffers :
         /\ buffer[b].owner = None
         /\ buffer' = [buffer EXCEPT ![b] = [owner |-> c,
                            content |-> IF op = "Write" THEN v ELSE @.content]]
         /\ call' = [call EXCEPT ![c] = NewCall(op, x, None, v, b, None)]
    /\ pc' = [pc EXCEPT ![c] = "scheduling"]
    /\ calls' = calls + 1
    /\ Submit(c, "Schedule", DirectHash(0))
    /\ UNCHANGED Server

\* A mistaken SubmitIo: the wrapper frees its buffer once the task is submitted.
SubmitIoFrees(c) ==
    /\ pc[c] = "scheduling" /\ task[c].state = "done"
    /\ pc' = [pc EXCEPT ![c] = "waiting"]
    /\ call' = [call EXCEPT ![c].snum = task[c].out.schedule_num]
    /\ buffer' = [buffer EXCEPT ![call[c].buf].owner = None]
    /\ Submit(c, call[c].op, DirectHash(task[c].out.schedule_num))
    /\ UNCHANGED <<Server, calls>>

\* A mistaken SubmitIo: every I/O task goes to the container of the scheduler.
SubmitIoToFirst(c) ==
    /\ pc[c] = "scheduling" /\ task[c].state = "done"
    /\ pc' = [pc EXCEPT ![c] = "waiting"]
    /\ call' = [call EXCEPT ![c].snum = task[c].out.schedule_num]
    /\ Submit(c, call[c].op, DirectHash(0))
    /\ UNCHANGED <<Server, buffer, calls>>

\* A mistaken SubmitIo: the number is taken for the container itself.
SubmitIoToNumber(c) ==
    /\ pc[c] = "scheduling" /\ task[c].state = "done"
    /\ pc' = [pc EXCEPT ![c] = "waiting"]
    /\ call' = [call EXCEPT ![c].snum = task[c].out.schedule_num]
    /\ Submit(c, call[c].op, task[c].out.schedule_num)
    /\ UNCHANGED <<Server, buffer, calls>>

\* The number is drawn: its task is deleted and the I/O task goes out.
SubmitIo(c) ==
    /\ pc[c] = "scheduling" /\ task[c].state = "done"
    /\ pc' = [pc EXCEPT ![c] = "waiting"]
    /\ call' = [call EXCEPT ![c].snum = task[c].out.schedule_num]
    /\ Submit(c, call[c].op, DirectHash(task[c].out.schedule_num))
    /\ UNCHANGED <<Server, buffer, calls>>

\* A mistaken IoRoute: the caller's domain query stands.
IoRouteByCaller(to) == to

\* IoRoute: the module's monitor sends a metadata task to container 0, whatever
\* its caller's domain query says.
IoRoute(to) == DirectHash(0)

BeginMeta(c, op, k, v, to) ==
    /\ pc[c] = "idle" /\ op \in Ops
    /\ pc' = [pc EXCEPT ![c] = "waiting"]
    /\ call' = [call EXCEPT ![c] = NewCall(op, None, k, v, None, None)]
    /\ Submit(c, op, IoRoute(to))
    /\ UNCHANGED <<Server, buffer, calls>>

\* What the call returns to the application, from the task's outputs: a read
\* copies its buffer.  That a write or a put has succeeded is said of its arguments.
Answer(c, out) ==
    CASE call[c].op = "Write"   -> <<"Write", call[c].cell, call[c].val>>
      [] call[c].op = "Read"    -> <<"Read", buffer[call[c].buf].content>>
      [] call[c].op = "MetaPut" -> <<"MetaPut", call[c].key, call[c].val>>
      [] call[c].op = "MetaGet" -> <<"MetaGet", out.presence, out.val>>

\* The wait for the task is over: the task is deleted and the buffer freed.
Finish(c) ==
    /\ pc[c] = "waiting" /\ task[c].state = "done"
    /\ pc' = [pc EXCEPT ![c] = "return"]
    /\ call' = [call EXCEPT ![c] = NewCall(@.op, None, None, None, None, Answer(c, task[c].out))]
    /\ buffer' = IF call[c].buf = None THEN buffer
                 ELSE [buffer EXCEPT ![call[c].buf].owner = None]
    /\ task' = [task EXCEPT ![c] = NoTask]
    /\ UNCHANGED <<Server, lanes, calls>>

Return(c) ==
    /\ pc[c] = "return"
    /\ pc' = [pc EXCEPT ![c] = "idle"]
    /\ call' = [call EXCEPT ![c] = NoCall]
    /\ UNCHANGED <<Server, buffer, lanes, task, calls>>

-----------------------------------------------------------------------------
Begin(c) ==
    \/ \E x \in Cells : BeginIo(c, "Read", x, None) \/ \E v \in Values : BeginIo(c, "Write", x, v)
    \/ \E k \in Keys, to \in Containers :
         BeginMeta(c, "MetaGet", k, None, to) \/ \E v \in Values : BeginMeta(c, "MetaPut", k, v, to)

Step(c) == SerializeStart(c) \/ SerializeEnd(c) \/ SubmitIo(c) \/ Finish(c) \/ Return(c)

Next == \/ \E c \in Clients : Begin(c) \/ Step(c)
        \/ \E n \in Containers, p \in Prios : Run(n, p)

Spec == Init /\ [][Next]_vars

\* The network delivers, the clients run, and every queue has its worker.
FairSpec ==
    /\ Spec
    /\ \A c \in Clients : WF_vars(Step(c))
    /\ \A n \in Containers, p \in Prios : WF_vars(Run(n, p))

-----------------------------------------------------------------------------
\* Properties.

Outputs == [schedule_num : 0 .. Wrap - 1, presence : BOOLEAN, val : Values \union {None}]
Task == [method : Methods \union {"none"}, to : Containers,
         state : {"none", "net", "lane", "back", "done"}, data : Content, out : Outputs]
Answers == {None} \union ({"Write"} \X Cells \X Values) \union ({"Read"} \X Content)
                 \union ({"MetaPut"} \X Keys \X Values)
                 \union ({"MetaGet"} \X BOOLEAN \X (Values \union {None}))
Call == [op : Ops \union {"none"}, cell : Cells \union {None}, key : Keys \union {None},
         val : Values \union {None}, buf : Buffers \union {None}, snum : Nat, res : Answers]

\* The state of the containers, the queues and the clients has its type.
TypeOK ==
    /\ disk \in [Cells -> Content]
    /\ fds \in [Containers -> 0 .. FdLimit]
    /\ buffer \in [Buffers -> [owner : Clients \union {None}, content : Content]]
    /\ schedule_num \in [Containers -> 0 .. Wrap - 1]
    /\ metamap \in [Containers -> [Keys -> Values \union {None}]]
    /\ lanes \in [Containers -> [Prios -> Seq(Clients)]]
    /\ task \in [Clients -> Task]
    /\ pc \in [Clients -> {"idle", "scheduling", "waiting", "return"}]
    /\ call \in [Clients -> Call]
    /\ calls \in 0 .. MaxIo

\* A buffer that a call uses is its own from the allocation until the call has
\* copied it, through both tasks and on whichever node they run: no other call
\* has it, and it is not free to be given out.
BufferHeld ==
    \A c \in Clients : call[c].buf # None => buffer[call[c].buf].owner = c

\* A read or write has drawn its number, and which.
Numbered(c) == /\ call[c].op \in {"Read", "Write"}
               /\ \/ pc[c] = "scheduling" /\ task[c].state \in {"back", "done"}
                  \/ pc[c] = "waiting"
Number(c) == IF pc[c] = "scheduling" THEN task[c].out.schedule_num ELSE call[c].snum

\* Until the counter wraps, no two calls under way have the same schedule number,
\* in whatever order their schedule tasks are run and come back.
ScheduleDistinct ==
    calls <= Wrap =>
        \A c, d \in Clients : c # d /\ Numbered(c) /\ Numbered(d) => Number(c) # Number(d)

\* Until the counter wraps, the reads and writes are spread: no container has
\* opened a file for more than its share of them.
FairShare == calls <= Wrap => \A n \in Containers : fds[n] <= (calls + N - 1) \div N

\* A read returns what the container that ran it has read from the file
\* ("Copy data back to user buffer").
ReadReturnsFileData ==
    \A c \in Clients :
        pc[c] = "return" /\ call[c].op = "Read" => call[c].res[2] # Junk

\* Every call that a client has begun returns: no task waits in a queue behind one
\* that does not end, or in one that nobody serves.
CallsReturn == \A c \in Clients : pc[c] # "idle" ~> pc[c] = "idle"

\* A call has taken effect once its main task has run.
Answered(c) ==
    IF pc[c] = "waiting" /\ task[c].state \in {"back", "done"} THEN Answer(c, task[c].out)
    ELSE call[c].res

Service == INSTANCE DtioService
    WITH map <- metamap[0],
         full <- \E n \in Containers : fds[n] = FdLimit,
         res <- [c \in Clients |-> Answered(c)]

\* The containers together behave as one file system and one metadata map: every
\* call takes effect at one instant between its call and its return, until one of
\* them has run out of descriptors.
Linearizable == Service!Spec
=============================================================================
