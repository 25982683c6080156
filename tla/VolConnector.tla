---------------------------- MODULE VolConnector ----------------------------
(***************************************************************************)
(* The HDF5 VOL connector: how the ranks of an MPI program create, find    *)
(* and open the objects of one file.  An object is stored under its oid, a *)
(* type and an index; a rank makes the index from its own copy of the      *)
(* file's max_oid, which is written to the global metadata object only     *)
(* when the file is flushed or closed.  In a collective call rank 0 alone  *)
(* touches the storage; the others follow by making the same oid, or by    *)
(* receiving what it broadcasts.                                           *)
(*                                                                         *)
(* External, modelled from how the connector uses it: the object store     *)
(* that keeps what is written, MPI with broadcasts that arrive in order    *)
(* and a communicator that is duplicated by all ranks together, and the    *)
(* application, whose ranks make the collective calls in one order, create *)
(* an object once and open what exists, for reading and writing, and a     *)
(* file again only if H5Fis_accessible does not find it.                   *)
(***************************************************************************)
EXTENDS Naturals, FiniteSets, SequencesExt

CONSTANTS
    Ranks, Leader,          \* the processes, and the one with my_rank = 0
    Groups, Dsets,          \* names of groups and of datasets
    None,
    Sizes, RootSizes,       \* serialised metadata, in words
    GInfoBuf, DInfoBuf, FoiBuf, \* the static buffers of the broadcasts, in words
    Asserts,                \* whether the build has assertions
    Modes,                  \* values of the file's collective flag
    MaxCalls, MaxMixed,     \* bounds: calls on a collective file, and on another
    MaxCrashes              \* bound

ASSUME LeaderAssumption == Leader \in Ranks /\ IsFiniteSet(Ranks)
ASSUME NamesAssumption == Groups \intersect Dsets = {}
ASSUME NoneAssumption == None \notin Nat
ASSUME SizeAssumption ==
    /\ Sizes \subseteq Nat \ {0} /\ RootSizes \subseteq Nat \ {0}
    /\ GInfoBuf \in Nat /\ DInfoBuf \in Nat /\ FoiBuf \in Nat
ASSUME FlagAssumption == Asserts \in BOOLEAN /\ Modes \subseteq BOOLEAN
ASSUME BoundAssumption == MaxCalls \in Nat /\ MaxMixed \in Nat /\ MaxCrashes \in Nat

VARIABLES
    meta,           \* oid -> the object's internal metadata        (storage)
    links,          \* <<group's oid, name>> -> oid                 (storage)
    glob,           \* the global metadata object: max_oid, or None (storage)
    pc, call, open, \* rank -> its place in a call, the call, whether it has the file
    max_oid, max_oid_dirty,
    obj,            \* rank -> the object of its call
    sent, taken,    \* the broadcasts, and how many of them a rank has taken
    collective,     \* the file's flag
    log, at,        \* the collective calls of the program, and how many a rank has begun
    made, kept,     \* history: the paths linked, and those a crash must not lose
    calls, crashes

storage == <<meta, links, glob>>
handles == <<open, max_oid, max_oid_dirty>>
program == <<collective, log, at, calls, crashes>>
network == <<sent, taken>>
vars == <<storage, pc, call, handles, obj, network, program, made, kept>>

Names == Groups \union Dsets
Paths == {<< >>} \union {<<n>> : n \in Names} \union {<<g, n>> : g \in Groups, n \in Names}
Kind(path) == IF path = << >> \/ Last(path) \in Groups THEN "grp" ELSE "dset"

\* H5VL_dtio_oid_create_binary: the type bits and the index.
Oid(kind, idx) == <<kind, idx>>
Root == Oid("grp", 1)
NoOid == Oid("none", 0)

NewObj(oid, md, len, grp) == [oid |-> oid, md |-> md, len |-> len, grp |-> grp]
NoObj == NewObj(NoOid, None, 0, NoOid)
NewCall(op, path, len, coll) == [op |-> op, path |-> path, len |-> len, coll |-> coll]
NoCall == NewCall("none", << >>, 0, FALSE)

\* The same for every rank.
All(x) == [r \in Ranks |-> x]

Init ==
    /\ meta = << >> /\ links = << >> /\ glob = None
    /\ pc = All("idle") /\ call = All(NoCall) /\ obj = All(NoObj)
    /\ open = All(FALSE) /\ max_oid = All(0) /\ max_oid_dirty = All(FALSE)
    /\ sent = << >> /\ taken = All(0)
    /\ log = << >> /\ at = All(0)
    /\ collective \in Modes
    /\ made = {} /\ kept = {}
    /\ calls = 0 /\ crashes = 0

Put(f, k, v) == [x \in DOMAIN f \union {k} |-> IF x = k THEN v ELSE f[x]]

link_read(g, n) == IF <<g, n>> \in DOMAIN links THEN links[<<g, n>>] ELSE NoOid

\* All links the connector makes are hard: the link holds the oid.
link_follow(g, n) == link_read(g, n)

\* From the root group, along the links of a path.
group_traverse(path) ==
    LET walk[i \in 0 .. Len(path)] ==
            IF i = 0 THEN Root ELSE link_follow(walk[i - 1], path[i])
    IN  walk[Len(path)]

\* The ranks that touch the storage in a call.
Acts(r) == ~call[r].coll \/ r = Leader
Shares(r) == call[r].coll /\ Cardinality(Ranks) > 1

Goto(r, to) == pc' = [pc EXCEPT ![r] = to]

Bound == IF collective THEN MaxCalls ELSE MaxMixed

-----------------------------------------------------------------------------
\* The application: what it may call next.

Created == made \union {log[i].path : i \in {j \in DOMAIN log : log[j].op = "create"}}
Taken == Created \union {call[r].path : r \in {s \in Ranks : pc[s] # "idle"}}

\* What H5Fis_accessible answers, and the files this program has created.
FileExists == glob # None \/ \E i \in DOMAIN log : log[i].op = "file_create"

FileCalls ==
    IF FileExists THEN {NewCall("file_open", << >>, 0, TRUE)}
    ELSE {NewCall("file_create", << >>, len, TRUE) : len \in RootSizes}

ObjectCalls(coll) ==
    LET there == IF coll THEN Created ELSE made
    IN  {NewCall("create", p, len, coll) :
            p \in {q \in Paths \ ({<< >>} \union Taken) : Front(q) \in there \union {<< >>}},
            len \in Sizes}
        \union {NewCall("open", p, 0, coll) : p \in there \ {<< >>}}
        \union {NewCall("flush", << >>, 0, coll)}

MayCall(r) ==
    IF ~open[r] THEN FileCalls
    ELSE {NewCall("close", << >>, 0, TRUE)} \union ObjectCalls(TRUE)
         \union (IF collective THEN {} ELSE ObjectCalls(FALSE))

Begin(r, c) ==
    /\ pc[r] = "idle"
    /\ call' = [call EXCEPT ![r] = c]
    /\ obj' = [obj EXCEPT ![r] = NoObj]
    /\ Goto(r, IF c.op \in {"file_create", "create"} THEN "create"
               ELSE IF c.op \in {"flush", "close"} THEN "flush"
               ELSE IF c.coll /\ r # Leader THEN "receive"
               ELSE IF c.op = "open" THEN "open" ELSE "file_open")
    /\ at' = IF c.coll THEN [at EXCEPT ![r] = @ + 1] ELSE at
    /\ UNCHANGED <<storage, handles, network, collective, crashes, made, kept>>

\* A new call; a collective one becomes one that the other ranks must make.
Call(r) ==
    /\ calls < Bound
    /\ \E c \in MayCall(r) :
          /\ c.coll => at[r] = Len(log)
          /\ Begin(r, c)
          /\ log' = IF c.coll THEN Append(log, c) ELSE log
    /\ calls' = calls + 1

Follow(r) == at[r] < Len(log) /\ Begin(r, log[at[r] + 1]) /\ UNCHANGED <<log, calls>>

\* MPI_Comm_dup: no rank goes on before all have come to the call.
Joined(r) == \A s \in Ranks : at[s] >= at[r]

Return(r) ==
    /\ Goto(r, "idle")
    /\ open' = [open EXCEPT ![r] = call[r].op # "close"]

-----------------------------------------------------------------------------
\* Creating a file, a group or a dataset.

\* A new file counts from 0, so that the root group gets 1.
BaseIndex(r) == IF call[r].op = "file_create" THEN 0 ELSE max_oid[r]

\* The rank that acts traverses the path to the group its link will be in.
TargetGroup(r) ==
    IF Acts(r) /\ call[r].path # << >> THEN group_traverse(Front(call[r].path)) ELSE NoOid

\* A mistaken Create: only the rank that writes the object counts it.
CreateCountsIfActing(r) ==
    LET idx == BaseIndex(r) + 1
        path == call[r].path
    IN  /\ pc[r] = "create"
        /\ call[r].op = "file_create" => Joined(r)
        /\ max_oid' = [max_oid EXCEPT ![r] = IF Acts(r) THEN idx ELSE BaseIndex(r)]
        /\ obj' = [obj EXCEPT ![r] = NewObj(Oid(Kind(path), idx), path, call[r].len, TargetGroup(r))]
        /\ IF Acts(r) THEN Goto(r, "metadata") /\ UNCHANGED open ELSE Return(r)
        /\ UNCHANGED <<storage, call, max_oid_dirty, network, program, made, kept>>

\* Every rank makes the oid from its own max_oid.
Create(r) ==
    LET idx == BaseIndex(r) + 1
        path == call[r].path
    IN  /\ pc[r] = "create"
        /\ call[r].op = "file_create" => Joined(r)
        /\ max_oid' = [max_oid EXCEPT ![r] = idx]
        /\ obj' = [obj EXCEPT ![r] = NewObj(Oid(Kind(path), idx), path, call[r].len, TargetGroup(r))]
        /\ IF Acts(r) THEN Goto(r, "metadata") /\ UNCHANGED open ELSE Return(r)
        /\ UNCHANGED <<storage, call, max_oid_dirty, network, program, made, kept>>

\* A mistaken WriteMetadata: the index is not marked as changed.
WriteMetadataClean(r) ==
    /\ pc[r] = "metadata"
    /\ meta' = Put(meta, obj[r].oid, [path |-> call[r].path, len |-> call[r].len])
    /\ IF call[r].path = << >>
       THEN Return(r) /\ made' = made \union {<< >>}
       ELSE Goto(r, "link") /\ UNCHANGED <<open, made>>
    /\ UNCHANGED <<links, glob, call, max_oid, max_oid_dirty, obj, network, program, kept>>

\* A mistaken WriteMetadata: of an object that has a link, the link comes first.
WriteMetadataLater(r) ==
    /\ pc[r] = "metadata"
    /\ IF call[r].path = << >>
       THEN /\ meta' = Put(meta, obj[r].oid, [path |-> << >>, len |-> call[r].len])
            /\ Return(r) /\ made' = made \union {<< >>}
            /\ UNCHANGED links
       ELSE /\ links' = Put(links, <<obj[r].grp, Last(call[r].path)>>, obj[r].oid)
            /\ Goto(r, "link") /\ UNCHANGED <<meta, open, made>>
    /\ max_oid_dirty' = [max_oid_dirty EXCEPT ![r] = TRUE]
    /\ UNCHANGED <<glob, call, max_oid, obj, network, program, kept>>

\* The root group has no link.
WriteMetadata(r) ==
    /\ pc[r] = "metadata"
    /\ meta' = Put(meta, obj[r].oid, [path |-> call[r].path, len |-> call[r].len])
    /\ max_oid_dirty' = [max_oid_dirty EXCEPT ![r] = TRUE]
    /\ IF call[r].path = << >>
       THEN Return(r) /\ made' = made \union {<< >>}
       ELSE Goto(r, "link") /\ UNCHANGED <<open, made>>
    /\ UNCHANGED <<links, glob, call, max_oid, obj, network, program, kept>>

link_write(r) ==
    /\ pc[r] = "link"
    /\ links' = Put(links, <<obj[r].grp, Last(call[r].path)>>, obj[r].oid)
    /\ made' = made \union {call[r].path}
    /\ Return(r)
    /\ UNCHANGED <<meta, glob, call, max_oid, max_oid_dirty, obj, network, program, kept>>

-----------------------------------------------------------------------------
\* Opening.

\* group_open hands the buffer that the traversal filled to group_open_helper,
\* freed and not reset, against the assertion there.
FailsAssertion(r) ==
    Asserts /\ Shares(r) /\ Kind(call[r].path) = "grp" /\ Len(call[r].path) > 1

\* What stat and read find: for an object without metadata a failure that is
\* logged, and a length of 0 that is passed on.
Stored(oid) == IF oid \in DOMAIN meta THEN meta[oid] ELSE [path |-> None, len |-> 0]

Open(r) ==
    /\ pc[r] = "open"
    /\ IF FailsAssertion(r)
       THEN Goto(r, "aborted") /\ UNCHANGED obj
       ELSE /\ obj' = [obj EXCEPT ![r].oid = group_traverse(call[r].path)]
            /\ Goto(r, "read")
    /\ UNCHANGED <<storage, call, handles, network, program, made, kept>>

ReadMetadata(r) ==
    /\ pc[r] = "read"
    /\ LET md == Stored(obj[r].oid)
       IN  obj' = [obj EXCEPT ![r] = NewObj(@.oid, md.path, md.len, NoOid)]
    /\ IF Shares(r) THEN Goto(r, "bcast") /\ UNCHANGED open ELSE Return(r)
    /\ UNCHANGED <<storage, call, max_oid, max_oid_dirty, network, program, made, kept>>

\* A mistaken FileOpen: the index is left at the root group's.
FileOpenForgets(r) ==
    /\ pc[r] = "file_open" /\ Joined(r)
    /\ max_oid' = [max_oid EXCEPT ![r] = 1]
    /\ max_oid_dirty' = [max_oid_dirty EXCEPT ![r] = FALSE]
    /\ obj' = [obj EXCEPT ![r] = NewObj(Root, Stored(Root).path, Stored(Root).len, NoOid)]
    /\ IF Cardinality(Ranks) = 1 THEN Return(r)
       ELSE /\ Goto(r, IF Stored(Root).len + 2 > FoiBuf THEN "aborted" ELSE "bcast")
            /\ UNCHANGED open
    /\ UNCHANGED <<storage, call, network, program, made, kept>>

\* A mistaken FileOpen: a rank 0 that finds no root group leaves the others waiting.
FileOpenQuits(r) ==
    /\ pc[r] = "file_open" /\ Joined(r)
    /\ max_oid' = [max_oid EXCEPT ![r] = glob]
    /\ max_oid_dirty' = [max_oid_dirty EXCEPT ![r] = FALSE]
    /\ obj' = [obj EXCEPT ![r] = NewObj(Root, Stored(Root).path, Stored(Root).len, NoOid)]
    /\ IF Cardinality(Ranks) = 1 \/ Root \notin DOMAIN meta THEN Return(r)
       ELSE /\ Goto(r, IF Stored(Root).len + 2 > FoiBuf THEN "aborted" ELSE "bcast")
            /\ UNCHANGED open
    /\ UNCHANGED <<storage, call, network, program, made, kept>>

\* Rank 0 reads the index and the root group.  A root group that does not fit in
\* the static buffer fails an assertion, or overruns the buffer without it.
FileOpen(r) ==
    /\ pc[r] = "file_open" /\ Joined(r)
    /\ max_oid' = [max_oid EXCEPT ![r] = glob]
    /\ max_oid_dirty' = [max_oid_dirty EXCEPT ![r] = FALSE]
    /\ obj' = [obj EXCEPT ![r] = NewObj(Root, Stored(Root).path, Stored(Root).len, NoOid)]
    /\ IF Cardinality(Ranks) = 1 THEN Return(r)
       ELSE /\ Goto(r, IF Stored(Root).len + 2 > FoiBuf THEN "aborted" ELSE "bcast")
            /\ UNCHANGED open
    /\ UNCHANGED <<storage, call, network, program, made, kept>>

-----------------------------------------------------------------------------
\* The broadcasts: a first one of the size of the receivers' static buffer, with
\* the header and what fits, and a second one of the rest if it does not.

Static(r) == IF Kind(call[r].path) = "grp" THEN GInfoBuf ELSE DInfoBuf
Header(r) == IF Kind(call[r].path) = "grp" THEN 2 ELSE 4

SendsRest(r) == call[r].op = "open" /\ obj[r].len + Header(r) > Static(r)

\* A mistaken ExpectsRest: the header is forgotten.
ExpectsRestIfLong(r, len) == call[r].op = "open" /\ len > Static(r)

ExpectsRest(r, len) == call[r].op = "open" /\ len + Header(r) > Static(r)

Message(r, part, md) ==
    [at |-> at[r], part |-> part, oid |-> obj[r].oid, len |-> obj[r].len, md |-> md,
     max_oid |-> max_oid[r]]

Send(m) == sent' = Append(sent, m) /\ UNCHANGED taken

\* A mistaken Broadcast: it sends the oid of the root group.
BroadcastRoot(r) ==
    /\ pc[r] = "bcast"
    /\ Send([Message(r, "first", IF SendsRest(r) THEN None ELSE obj[r].md) EXCEPT !.oid = Root])
    /\ IF SendsRest(r) THEN Goto(r, "bcast_rest") /\ UNCHANGED open ELSE Return(r)
    /\ UNCHANGED <<storage, call, max_oid, max_oid_dirty, obj, program, made, kept>>

Broadcast(r) ==
    /\ pc[r] = "bcast"
    /\ Send(Message(r, "first", IF SendsRest(r) THEN None ELSE obj[r].md))
    /\ IF SendsRest(r) THEN Goto(r, "bcast_rest") /\ UNCHANGED open ELSE Return(r)
    /\ UNCHANGED <<storage, call, max_oid, max_oid_dirty, obj, program, made, kept>>

BroadcastRest(r) ==
    /\ pc[r] = "bcast_rest"
    /\ Send(Message(r, "rest", obj[r].md))
    /\ Return(r)
    /\ UNCHANGED <<storage, call, max_oid, max_oid_dirty, obj, program, made, kept>>

\* What a rank other than 0 has yet to take.
Waiting(r) == taken[r] < Len(sent)
Incoming(r) == sent[taken[r] + 1]

\* The other ranks, in a collective open of an object or in any of the file.
Receive(r) ==
    /\ pc[r] = "receive" /\ Waiting(r)
    /\ LET m == Incoming(r)
       IN  /\ obj' = [obj EXCEPT ![r] = NewObj(m.oid, m.md, m.len, NoOid)]
           /\ IF call[r].op = "file_open"
              THEN /\ max_oid' = [max_oid EXCEPT ![r] = m.max_oid]
                   /\ max_oid_dirty' = [max_oid_dirty EXCEPT ![r] = FALSE]
              ELSE UNCHANGED <<max_oid, max_oid_dirty>>
           /\ IF ExpectsRest(r, m.len) THEN Goto(r, "receive_rest") /\ UNCHANGED open
              ELSE Return(r)
    /\ taken' = [taken EXCEPT ![r] = @ + 1] /\ UNCHANGED sent
    /\ UNCHANGED <<storage, call, program, made, kept>>

ReceiveRest(r) ==
    /\ pc[r] = "receive_rest" /\ Waiting(r)
    /\ obj' = [obj EXCEPT ![r].md = Incoming(r).md]
    /\ taken' = [taken EXCEPT ![r] = @ + 1] /\ UNCHANGED sent
    /\ Return(r)
    /\ UNCHANGED <<storage, call, max_oid, max_oid_dirty, program, made, kept>>

-----------------------------------------------------------------------------
\* file_flush, alone or as the first thing file_close does.
Flush(r) ==
    /\ pc[r] = "flush"
    /\ IF max_oid_dirty[r]
       THEN /\ glob' = max_oid[r]
            /\ max_oid_dirty' = [max_oid_dirty EXCEPT ![r] = FALSE]
       ELSE UNCHANGED <<glob, max_oid_dirty>>
    /\ kept' = IF r = Leader THEN made ELSE kept
    /\ Return(r)
    /\ UNCHANGED <<meta, links, call, max_oid, obj, network, program, made>>

\* The job dies, and runs again on what the storage has.
Crash ==
    /\ crashes < MaxCrashes /\ calls < Bound
    /\ crashes' = crashes + 1
    /\ made' = kept
    /\ pc' = All("idle") /\ call' = All(NoCall) /\ obj' = All(NoObj)
    /\ open' = All(FALSE) /\ max_oid' = All(0) /\ max_oid_dirty' = All(FALSE)
    /\ sent' = << >> /\ taken' = All(0)
    /\ log' = << >> /\ at' = All(0)
    /\ UNCHANGED <<storage, collective, calls, kept>>

Step(r) ==
    \/ Create(r) \/ WriteMetadata(r) \/ link_write(r)
    \/ Open(r) \/ ReadMetadata(r) \/ FileOpen(r)
    \/ Broadcast(r) \/ BroadcastRest(r) \/ Receive(r) \/ ReceiveRest(r)
    \/ Flush(r)

Next == Crash \/ \E r \in Ranks : Step(r) \/ Follow(r) \/ Call(r)

Spec == Init /\ [][Next]_vars

\* A rank that can go on does, and the program makes its collective calls on all.
FairSpec == Spec /\ \A r \in Ranks : WF_vars(Step(r)) /\ WF_vars(Follow(r))

-----------------------------------------------------------------------------
PCs == {"idle", "create", "metadata", "link", "open", "read", "file_open", "bcast",
        "bcast_rest", "receive", "receive_rest", "flush", "aborted"}
Oids == {"grp", "dset"} \X Nat

\* Types, and with them that storage names only real objects: every oid has a type
\* and an index, every link an oid in it, and a rank's index is never undefined.
TypeOK ==
    /\ DOMAIN meta \subseteq Oids
    /\ \A x \in DOMAIN meta : meta[x] \in [path : Paths, len : Sizes \union RootSizes]
    /\ \A k \in DOMAIN links : k \in Oids \X Names /\ links[k] \in Oids
    /\ glob \in Nat \union {None}
    /\ pc \in [Ranks -> PCs] /\ open \in [Ranks -> BOOLEAN]
    /\ max_oid \in [Ranks -> Nat] /\ max_oid_dirty \in [Ranks -> BOOLEAN]
    /\ \A r \in Ranks : /\ obj[r].oid \in Oids \union {NoOid}
                        /\ obj[r].md \in Paths \union {None}
                        /\ call[r].path \in Paths
    /\ at \in [Ranks -> 0 .. Len(log)]
    /\ made \subseteq Paths /\ kept \subseteq made

\* Ranks that are between calls at the same point of the program.
Together(r, s) == pc[r] = "idle" /\ pc[s] = "idle" /\ at[r] = at[s]

\* In a collective file the ranks' own copies of max_oid never drift apart, though
\* only rank 0 reads it from the storage and all count it up by themselves.
CountersAgree == collective => \A r, s \in Ranks : Together(r, s) => max_oid[r] = max_oid[s]

\* A collective call gives every rank the same object: the oid, metadata and all
\* that group_open and dataset_open put together from one or two broadcasts.
SameObject ==
    collective => \A r, s \in Ranks : Together(r, s) =>
        /\ obj[r].oid = obj[s].oid
        /\ obj[r].md = obj[s].md

\* Each receive meets the broadcast that was sent for it: of the same call, first
\* for first and second for second, and none is left over for a later call.
BroadcastsMatch ==
    \A r \in Ranks :
        /\ pc[r] \in {"receive", "receive_rest"} /\ Waiting(r) =>
              /\ Incoming(r).at = at[r]
              /\ Incoming(r).part = IF pc[r] = "receive" THEN "first" ELSE "rest"
        /\ pc[r] = "idle" /\ (\A s \in Ranks \ {r} : at[s] <= at[r]) =>
              r = Leader \/ ~Waiting(r)

\* A link never leads to an object without metadata, whenever the job dies: the
\* create callbacks write the metadata before the link.
NoDanglingLink == \A k \in DOMAIN links : links[k] \in DOMAIN meta

\* In a collective file every object created since the last crash, or flushed
\* before it, is still found under its path with its own metadata: no index is
\* given out again while the object it was given to must exist.
ObjectsIntact ==
    collective => \A p \in made \ {<< >>} :
        LET oid == group_traverse(p)
        IN  oid \in DOMAIN meta /\ meta[oid].path = p /\ oid[1] = Kind(p)

\* "they don't hang": every rank comes back from every call.
CallsReturn == \A r \in Ranks : pc[r] # "idle" ~> pc[r] = "idle"

\* No assertion of the connector fails.
AssertionsHold == \A r \in Ranks : pc[r] # "aborted"
=============================================================================
