------------------------- MODULE VolConnectorProofs -------------------------
(***************************************************************************)
(* What TLAPS proves of VolConnector, for any ranks, names, sizes, buffers *)
(* and bounds, with and without collective metadata, and whenever the job  *)
(* dies: a link leads to an object whose metadata has been written, and    *)
(* every oid, index and link that is used has been made.                   *)
(***************************************************************************)
EXTENDS VolConnector, TLAPS

(***************************************************************************)
(* The inductive invariant.  A rank that is about to write a link has an   *)
(* object with metadata; no step takes metadata away.                      *)
(***************************************************************************)
AboutToLink(r) == pc[r] = "link" => obj[r].oid \in DOMAIN meta

StoreInv ==
    /\ DOMAIN pc = Ranks /\ DOMAIN obj = Ranks
    /\ NoDanglingLink
    /\ \A r \in Ranks : AboutToLink(r)

-----------------------------------------------------------------------------
\* What is put in the store is there, and so is all that was there.
LEMMA PutDomain ==
    ASSUME NEW f, NEW k, NEW v
    PROVE  DOMAIN Put(f, k, v) = DOMAIN f \union {k}
  BY DEF Put

LEMMA PutValue ==
    ASSUME NEW f, NEW k, NEW v, NEW x \in DOMAIN f \union {k}
    PROVE  Put(f, k, v)[x] = IF x = k THEN v ELSE f[x]
  BY DEF Put

LEMMA InitStore == Init => StoreInv
<1> SUFFICES ASSUME Init PROVE StoreInv
  OBVIOUS
<1>1. DOMAIN links = {}
  BY DEF Init
<1>2. DOMAIN pc = Ranks /\ DOMAIN obj = Ranks /\ \A r \in Ranks : pc[r] = "idle"
  BY DEF Init, All
<1> QED
  BY <1>1, <1>2 DEF StoreInv, NoDanglingLink, AboutToLink

\* A step of rank r that leaves the storage alone and does not bring r to the
\* writing of a link keeps the invariant.
LEMMA QuietStep ==
    ASSUME StoreInv, NEW r \in Ranks, NEW label, label # "link",
           UNCHANGED storage, Goto(r, label),
           obj' = obj \/ \E x : obj' = [obj EXCEPT ![r] = x]
    PROVE  StoreInv'
<1>1. NoDanglingLink'
  BY DEF StoreInv, NoDanglingLink, storage
<1>2. DOMAIN pc' = Ranks /\ DOMAIN obj' = Ranks
  BY DEF StoreInv, Goto
<1>3. ASSUME NEW s \in Ranks PROVE AboutToLink(s)'
  <2>1. CASE s = r
    BY <2>1 DEF StoreInv, AboutToLink, Goto
  <2>2. CASE s # r
    <3>1. pc'[s] = pc[s] /\ obj'[s] = obj[s]
      BY <2>2 DEF StoreInv, Goto
    <3> QED
      BY <3>1 DEF StoreInv, AboutToLink, storage
  <2> QED
    BY <2>1, <2>2
<1> QED
  BY <1>1, <1>2, <1>3 DEF StoreInv

\* Return is such a step.
LEMMA QuietReturn ==
    ASSUME StoreInv, NEW r \in Ranks, UNCHANGED storage, Return(r),
           obj' = obj \/ \E x : obj' = [obj EXCEPT ![r] = x]
    PROVE  StoreInv'
<1>1. Goto(r, "idle")
  BY DEF Return
<1> QED
  BY <1>1, QuietStep

LEMMA BeginKeeps ==
    ASSUME StoreInv, NEW r \in Ranks, NEW c, Begin(r, c)
    PROVE  StoreInv'
<1>1. \E label : label # "link" /\ Goto(r, label)
  BY DEF Begin
<1>2. PICK label : label # "link" /\ Goto(r, label)
  BY <1>1
<1>3. obj' = [obj EXCEPT ![r] = NoObj] /\ UNCHANGED storage
  BY DEF Begin
<1> QED
  BY <1>2, <1>3, QuietStep

LEMMA CreateKeeps ==
    ASSUME StoreInv, NEW r \in Ranks, Create(r)
    PROVE  StoreInv'
<1>1. UNCHANGED storage /\ \E x : obj' = [obj EXCEPT ![r] = x]
  BY DEF Create
<1>2. Goto(r, "metadata") \/ Return(r)
  BY DEF Create
<1> QED
  BY <1>1, <1>2, QuietStep, QuietReturn

\* The metadata that is written is of the object that a link is then written to.
LEMMA WriteMetadataKeeps ==
    ASSUME StoreInv, NEW r \in Ranks, WriteMetadata(r)
    PROVE  StoreInv'
<1>1. DOMAIN meta' = DOMAIN meta \union {obj[r].oid} /\ links' = links /\ obj' = obj
  BY PutDomain DEF WriteMetadata
<1>2. DOMAIN pc' = Ranks /\ \A s \in Ranks \ {r} : pc'[s] = pc[s]
  BY DEF WriteMetadata, Return, Goto, StoreInv
<1>3. NoDanglingLink'
  BY <1>1 DEF StoreInv, NoDanglingLink
<1>4. ASSUME NEW s \in Ranks PROVE AboutToLink(s)'
  BY <1>1, <1>2 DEF StoreInv, AboutToLink
<1> QED
  BY <1>1, <1>2, <1>3, <1>4 DEF StoreInv

LEMMA LinkWriteKeeps ==
    ASSUME StoreInv, NEW r \in Ranks, link_write(r)
    PROVE  StoreInv'
<1> DEFINE key == <<obj[r].grp, Last(call[r].path)>>
<1>1. links' = Put(links, key, obj[r].oid) /\ meta' = meta /\ obj' = obj
  BY DEF link_write
<1>2. obj[r].oid \in DOMAIN meta
  BY DEF StoreInv, AboutToLink, link_write
<1>3. NoDanglingLink'
  <2> SUFFICES ASSUME NEW k \in DOMAIN links' PROVE links'[k] \in DOMAIN meta'
    BY DEF NoDanglingLink
  <2> HIDE DEF key
  <2>1. k \in DOMAIN links \union {key}
    BY <1>1, PutDomain
  <2>2. links'[k] = IF k = key THEN obj[r].oid ELSE links[k]
    BY <1>1, <2>1, PutValue
  <2> QED
    BY <1>1, <1>2, <2>1, <2>2 DEF StoreInv, NoDanglingLink
<1>4. DOMAIN pc' = Ranks /\ pc'[r] = "idle" /\ \A s \in Ranks \ {r} : pc'[s] = pc[s]
  BY DEF link_write, Return, Goto, StoreInv
<1>5. ASSUME NEW s \in Ranks PROVE AboutToLink(s)'
  BY <1>1, <1>4 DEF StoreInv, AboutToLink
<1> QED
  BY <1>1, <1>3, <1>4, <1>5 DEF StoreInv

\* Opening only reads the storage.
LEMMA OpenKeeps ==
    ASSUME StoreInv, NEW r \in Ranks, Open(r) \/ ReadMetadata(r) \/ FileOpen(r)
    PROVE  StoreInv'
<1>1. CASE Open(r)
  <2>1. UNCHANGED storage /\ (Goto(r, "aborted") \/ Goto(r, "read"))
    BY <1>1 DEF Open
  <2>2. obj' = obj \/ \E x : obj' = [obj EXCEPT ![r] = x]
    BY <1>1 DEF Open
  <2> QED
    BY <2>1, <2>2, QuietStep
<1>2. CASE ReadMetadata(r)
  <2>1. UNCHANGED storage /\ (Goto(r, "bcast") \/ Return(r))
    BY <1>2 DEF ReadMetadata
  <2>2. \E x : obj' = [obj EXCEPT ![r] = x]
    BY <1>2 DEF ReadMetadata
  <2> QED
    BY <2>1, <2>2, QuietStep, QuietReturn
<1>3. CASE FileOpen(r)
  <2>1. UNCHANGED storage /\ (Goto(r, "bcast") \/ Goto(r, "aborted") \/ Return(r))
    BY <1>3 DEF FileOpen
  <2>2. \E x : obj' = [obj EXCEPT ![r] = x]
    BY <1>3 DEF FileOpen
  <2> QED
    BY <2>1, <2>2, QuietStep, QuietReturn
<1> QED
  BY <1>1, <1>2, <1>3

LEMMA BroadcastKeeps ==
    ASSUME StoreInv, NEW r \in Ranks, Broadcast(r) \/ BroadcastRest(r)
    PROVE  StoreInv'
<1>1. UNCHANGED storage /\ obj' = obj
  BY DEF Broadcast, BroadcastRest
<1>2. Goto(r, "bcast_rest") \/ Return(r)
  BY DEF Broadcast, BroadcastRest
<1> QED
  BY <1>1, <1>2, QuietStep, QuietReturn

LEMMA ReceiveKeeps ==
    ASSUME StoreInv, NEW r \in Ranks, Receive(r) \/ ReceiveRest(r)
    PROVE  StoreInv'
<1>1. UNCHANGED storage /\ \E x : obj' = [obj EXCEPT ![r] = x]
  BY DEF Receive, ReceiveRest
<1>2. Goto(r, "receive_rest") \/ Return(r)
  BY DEF Receive, ReceiveRest
<1> QED
  BY <1>1, <1>2, QuietStep, QuietReturn

\* A flush writes the index and no object.
LEMMA FlushKeeps ==
    ASSUME StoreInv, NEW r \in Ranks, Flush(r)
    PROVE  StoreInv'
<1>1. links' = links /\ meta' = meta /\ obj' = obj /\ DOMAIN pc' = Ranks
  BY DEF Flush, Return, Goto, StoreInv
<1>2. \A s \in Ranks : pc'[s] = "link" => pc[s] = "link"
  BY DEF Flush, Return, Goto, StoreInv
<1> QED
  BY <1>1, <1>2 DEF StoreInv, NoDanglingLink, AboutToLink

\* A crash takes the ranks away from what they were about to write.
LEMMA CrashKeeps ==
    ASSUME StoreInv, Crash
    PROVE  StoreInv'
<1>1. links' = links /\ meta' = meta
  BY DEF Crash, storage
<1>2. DOMAIN pc' = Ranks /\ DOMAIN obj' = Ranks /\ \A s \in Ranks : pc'[s] = "idle"
  BY DEF Crash, All
<1> QED
  BY <1>1, <1>2 DEF StoreInv, NoDanglingLink, AboutToLink

LEMMA NextStore == StoreInv /\ [Next]_vars => StoreInv'
<1> SUFFICES ASSUME StoreInv, [Next]_vars PROVE StoreInv'
  OBVIOUS
<1>1. CASE Crash
  BY <1>1, CrashKeeps
<1>2. ASSUME NEW r \in Ranks, Step(r) PROVE StoreInv'
  BY <1>2, CreateKeeps, WriteMetadataKeeps, LinkWriteKeeps, OpenKeeps, BroadcastKeeps,
     ReceiveKeeps, FlushKeeps DEF Step
<1>3. ASSUME NEW r \in Ranks, Follow(r) \/ Call(r) PROVE StoreInv'
  BY <1>3, BeginKeeps DEF Follow, Call
<1>4. CASE UNCHANGED vars
  BY <1>4 DEF vars, storage, StoreInv, NoDanglingLink, AboutToLink
<1> QED
  BY <1>1, <1>2, <1>3, <1>4 DEF Next

\* A link never leads to an object without metadata, wherever a crash falls
\* between the two writes of a create callback and whatever the other ranks do.
THEOREM LinksLead == Spec => []NoDanglingLink
<1>1. StoreInv => NoDanglingLink
  BY DEF StoreInv
<1> QED
  BY <1>1, InitStore, NextStore, PTL DEF Spec

-----------------------------------------------------------------------------
(***************************************************************************)
(* The invariant behind the types.  Where a rank is in a call says which   *)
(* call it is; the calls of the program say whether a rank has the file    *)
(* open, and so that rank 0 opens a file only when the index is stored,    *)
(* and that the group of an object to be linked is found.                  *)
(***************************************************************************)
FileOps == {"file_create", "file_open"}
Opens == {"open", "file_open"}
CallSet == [op : {"none", "file_create", "create", "flush", "close"} \union Opens,
          path : Paths, len : Nat, coll : BOOLEAN]
Objects == [oid : Oids \union {NoOid}, md : Paths \union {None}, len : Nat,
            grp : Oids \union {NoOid}]
Messages == [at : Nat, part : {"first", "rest"}, oid : Oids \union {NoOid}, len : Nat,
             md : Paths \union {None}, max_oid : Nat]

\* A call the application makes.
Valid(c) ==
    /\ c \in CallSet /\ c.op # "none"
    /\ c.op = "file_create" => c.len \in RootSizes
    /\ c.op = "create" => c.len \in Sizes
    /\ c.op \in {"create", "open"} <=> c.path # << >>
    /\ c.op \in FileOps \union {"close"} => c.coll

\* Whether the file is open after the first i collective calls.
OpenAfter(i) == i > 0 /\ log[i].op # "close"

\* The collective calls that a rank has come back from.
Done(r) == IF pc[r] # "idle" /\ call[r].coll THEN at[r] - 1 ELSE at[r]

\* The operations that a place belongs to, and who can be there.
Place(r) ==
    /\ pc[r] \in {"create", "metadata"} => call[r].op \in {"create", "file_create"}
    /\ pc[r] = "link" => call[r].op = "create"
    /\ pc[r] \in {"open", "read", "bcast_rest", "receive_rest"} => call[r].op = "open"
    /\ pc[r] \in {"bcast", "receive", "aborted"} => call[r].op \in Opens
    /\ pc[r] = "file_open" => call[r].op = "file_open"
    /\ pc[r] = "flush" => call[r].op \in {"flush", "close"}
    /\ pc[r] \in {"metadata", "link", "open", "read", "aborted"} => Acts(r)
    /\ pc[r] \in {"file_open", "bcast", "bcast_rest"} => r = Leader
    /\ pc[r] \in {"bcast", "bcast_rest", "receive", "receive_rest"} => call[r].coll
    /\ pc[r] \in {"receive", "receive_rest"} => r # Leader

InCall(r) ==
    /\ Valid(call[r])
    /\ call[r].coll => at[r] > 0 /\ call[r] = log[at[r]]
    /\ ~call[r].coll => ~collective /\ open[r]

ControlInv ==
    /\ pc \in [Ranks -> PCs] /\ call \in [Ranks -> CallSet] /\ open \in [Ranks -> BOOLEAN]
    /\ log \in Seq(CallSet) /\ at \in [Ranks -> 0 .. Len(log)]
    /\ \A i \in 1 .. Len(log) : /\ Valid(log[i]) /\ log[i].coll
                                /\ log[i].op \in FileOps <=> ~OpenAfter(i - 1)
    /\ \A r \in Ranks : /\ Place(r)
                        /\ pc[r] # "idle" => InCall(r)
                        /\ open[r] = OpenAfter(Done(r))

\* The index: what is flushed, and that it is there to be read.
IndexInv ==
    /\ glob \in Nat \union {None}
    /\ max_oid \in [Ranks -> Nat] /\ max_oid_dirty \in [Ranks -> BOOLEAN]
    /\ \A i \in 1 .. Len(log) : log[i].op = "file_create" => i = 1
    /\ Len(log) > 0 /\ log[1].op = "file_open" => glob # None
    /\ max_oid_dirty[Leader] => open[Leader]
    /\ Done(Leader) > 0 => glob # None \/ max_oid_dirty[Leader]

\* The tree: the parent of what is created comes first.
ParentMade(path) == Front(path) = << >> \/ Front(path) \in made

TreeInv ==
    /\ made \subseteq Paths /\ kept \subseteq made
    /\ \A i \in 1 .. Len(log) : log[i].op = "create" =>
          /\ \/ ParentMade(log[i].path)
             \/ \E j \in 1 .. i - 1 : log[j].op = "create" /\ log[j].path = Front(log[i].path)
          /\ i <= Done(Leader) => log[i].path \in made
    /\ \A r \in Ranks :
          pc[r] # "idle" /\ ~call[r].coll /\ call[r].op = "create" => ParentMade(call[r].path)
    /\ \A k \in DOMAIN links : k \in Oids \X Names /\ links[k] \in Oids
    /\ \A g \in Groups : <<g>> \in made => <<Root, g>> \in DOMAIN links
    /\ \A r \in Ranks : pc[r] \in {"metadata", "link"} =>
          /\ obj[r].oid \in Oids
          /\ call[r].path # << >> => obj[r].grp \in Oids
          /\ Len(call[r].path) = 1 => obj[r].grp = Root

\* What is stored, and what is sent.
DataInv ==
    /\ DOMAIN meta \subseteq Oids
    /\ \A x \in DOMAIN meta : meta[x] \in [path : Paths, len : Sizes \union RootSizes]
    /\ obj \in [Ranks -> Objects]
    /\ sent \in Seq(Messages) /\ taken \in [Ranks -> Nat]
    /\ \A r \in Ranks : taken[r] <= Len(sent)

TypeInv == ControlInv /\ IndexInv /\ TreeInv /\ DataInv

-----------------------------------------------------------------------------
\* The paths of the model, and where their links lead.
LEMMA PathCases ==
    ASSUME NEW p \in Paths
    PROVE  \/ p = << >>
           \/ \E n \in Names : p = <<n>>
           \/ \E g \in Groups, n \in Names : p = <<g, n>>
  BY DEF Paths

LEMMA OneName ==
    ASSUME NEW n
    PROVE  Len(<<n>>) = 1 /\ Front(<<n>>) = << >> /\ Last(<<n>>) = n /\ <<n>> # << >>
  BY DEF Front, Last

LEMMA TwoNames ==
    ASSUME NEW g, NEW n
    PROVE  /\ Len(<<g, n>>) = 2 /\ Front(<<g, n>>) = <<g>> /\ Last(<<g, n>>) = n
           /\ <<g, n>> # << >>
<1> DEFINE S == {g, n}
           f == SubSeq(<<g, n>>, 1, 1)
<1>1. <<g, n>> \in Seq(S) /\ Len(<<g, n>>) = 2 /\ <<g, n>>[1] = g /\ <<g, n>>[2] = n
  OBVIOUS
<1>2. f \in Seq(S) /\ Len(f) = 1 /\ f[1] = g
  BY <1>1
<1>3. <<g>> \in Seq(S) /\ Len(<<g>>) = 1 /\ <<g>>[1] = g
  OBVIOUS
<1>4. \A a, b \in Seq(S) : Len(a) = 1 /\ Len(b) = 1 /\ a[1] = b[1] => a = b
  OBVIOUS
<1>5. f = <<g>>
  BY <1>2, <1>3, <1>4
<1>6. <<g, n>> # << >>
  BY <1>1
<1> QED
  BY <1>1, <1>5, <1>6 DEF Front, Last

LEMMA PathParts ==
    ASSUME NEW p \in Paths, p # << >>
    PROVE  /\ Last(p) \in Names /\ Front(p) \in Paths
           /\ Front(p) = << >> <=> Len(p) = 1
           /\ Front(p) # << >> => \E g \in Groups : Front(p) = <<g>>
<1>1. CASE \E n \in Names : p = <<n>>
  BY <1>1, OneName DEF Paths
<1>2. CASE \E g \in Groups, n \in Names : p = <<g, n>>
  <2>1. PICK g \in Groups, n \in Names : p = <<g, n>>
    BY <1>2
  <2> QED
    BY <2>1, TwoNames, OneName DEF Paths, Names
<1> QED
  BY <1>1, <1>2, PathCases

LEMMA TraverseRoot == group_traverse(<< >>) = Root
<1> DEFINE def(w) == [i \in 0 .. 0 |-> IF i = 0 THEN Root ELSE link_follow(w[i - 1], << >>[i])]
           walk == [i \in {0} |-> Root]
<1>1. walk = def(walk) /\ Len(<< >>) = 0
  OBVIOUS
<1>2. \A w : w = def(w) => w[0] = Root
  OBVIOUS
<1> QED
  BY <1>1, <1>2 DEF group_traverse

LEMMA TraverseOne ==
    ASSUME NEW n PROVE group_traverse(<<n>>) = link_read(Root, n)
<1> DEFINE def(w) == [i \in 0 .. 1 |-> IF i = 0 THEN Root ELSE link_follow(w[i - 1], <<n>>[i])]
           walk == [i \in 0 .. 1 |-> IF i = 0 THEN Root ELSE link_follow(Root, n)]
<1>1. walk = def(walk) /\ Len(<<n>>) = 1
  OBVIOUS
<1>2. \A w : w = def(w) => w[1] = link_follow(Root, n)
  OBVIOUS
<1> QED
  BY <1>1, <1>2 DEF group_traverse, link_follow

LEMMA TraverseTwo ==
    ASSUME NEW g, NEW n PROVE group_traverse(<<g, n>>) = link_read(link_read(Root, g), n)
<1> DEFINE def(w) == [i \in 0 .. 2 |->
                         IF i = 0 THEN Root ELSE link_follow(w[i - 1], <<g, n>>[i])]
           walk == [i \in 0 .. 2 |-> IF i = 0 THEN Root
                                     ELSE IF i = 1 THEN link_follow(Root, g)
                                     ELSE link_follow(link_follow(Root, g), n)]
<1>1. walk = def(walk) /\ Len(<<g, n>>) = 2
  OBVIOUS
<1>2. \A w : w = def(w) => w[2] = link_follow(link_follow(Root, g), n)
  OBVIOUS
<1> QED
  BY <1>1, <1>2 DEF group_traverse, link_follow

LEMMA RootType == Root \in Oids /\ NoOid \notin Oids
  BY DEF Root, Oid, Oids, NoOid

\* A path leads to an oid or to nothing, and to an oid if its object has been made.
LEMMA TraverseType ==
    ASSUME TreeInv, NEW p \in Paths
    PROVE  group_traverse(p) \in Oids \union {NoOid}
<1>1. \A g, n : link_read(g, n) \in Oids \union {NoOid}
  BY DEF TreeInv, link_read
<1> QED
  BY <1>1, PathCases, RootType, TraverseRoot, TraverseOne, TraverseTwo

LEMMA TraverseParent ==
    ASSUME TreeInv, NEW p \in Paths, p # << >>, ParentMade(p)
    PROVE  /\ group_traverse(Front(p)) \in Oids
           /\ Len(p) = 1 => group_traverse(Front(p)) = Root
<1>1. CASE Front(p) = << >>
  BY <1>1, TraverseRoot, RootType
<1>2. CASE Front(p) # << >>
  <2>1. PICK g \in Groups : Front(p) = <<g>>
    BY <1>2, PathParts
  <2>2. <<Root, g>> \in DOMAIN links
    BY <2>1, <1>2 DEF TreeInv, ParentMade
  <2>3. group_traverse(<<g>>) \in Oids
    BY <2>2, TraverseOne DEF link_read, TreeInv
  <2>4. Len(p) # 1
    BY <1>2, PathParts
  <2> QED
    BY <2>1, <2>3, <2>4
<1> QED
  BY <1>1, <1>2

-----------------------------------------------------------------------------
\* A rank moves on inside its call.
LEMMA MoveControl ==
    ASSUME ControlInv, NEW r \in Ranks, NEW l \in PCs \ {"idle"}, pc[r] # "idle",
           Goto(r, l), UNCHANGED <<call, open, log, at, collective>>, Place(r)'
    PROVE  ControlInv' /\ \A s \in Ranks : Done(s)' = Done(s)
<1>1. pc' \in [Ranks -> PCs] /\ pc'[r] = l /\ \A s \in Ranks \ {r} : pc'[s] = pc[s]
  BY DEF ControlInv, Goto
<1>2. \A s \in Ranks : Done(s)' = Done(s)
  BY <1>1 DEF Done
<1>3. \A s \in Ranks \ {r} : Place(s)'
  BY <1>1 DEF ControlInv, Place, Acts
<1>4. \A s \in Ranks : pc'[s] # "idle" => InCall(s)'
  BY <1>1 DEF ControlInv, InCall
<1>5. \A s \in Ranks : open'[s] = OpenAfter(Done(s))'
  BY <1>2 DEF ControlInv, OpenAfter
<1>6. \A i \in 1 .. Len(log') : OpenAfter(i - 1)' = OpenAfter(i - 1)
  BY DEF OpenAfter
<1> QED
  BY <1>1, <1>2, <1>3, <1>4, <1>5, <1>6 DEF ControlInv

\* What is known of a rank in a call.
LEMMA CallKnown ==
    ASSUME ControlInv, NEW r \in Ranks, pc[r] # "idle"
    PROVE  /\ Valid(call[r]) /\ call[r].path \in Paths /\ call[r].len \in Nat
           /\ call[r].coll \in BOOLEAN /\ at[r] \in 0 .. Len(log)
           /\ call[r].coll => /\ at[r] \in 1 .. Len(log) /\ call[r] = log[at[r]]
                              /\ Done(r) = at[r] - 1
           /\ ~call[r].coll => ~collective /\ open[r] /\ Done(r) = at[r]
           /\ call[r].op \in FileOps <=> ~open[r]
<1>1. InCall(r) /\ open[r] = OpenAfter(Done(r)) /\ at[r] \in 0 .. Len(log)
  BY DEF ControlInv
<1>2. call[r].op \in FileOps => call[r].coll
  BY <1>1 DEF InCall, Valid
<1>3. call[r].coll \in BOOLEAN /\ call[r].path \in Paths /\ call[r].len \in Nat
  BY <1>1 DEF InCall, Valid, CallSet
<1>4. CASE call[r].coll
  <2>1. at[r] \in 1 .. Len(log) /\ call[r] = log[at[r]] /\ Done(r) = at[r] - 1
    BY <1>1, <1>4 DEF InCall, Done
  <2>2. log[at[r]].op \in FileOps <=> ~OpenAfter(at[r] - 1)
    BY <2>1 DEF ControlInv
  <2> QED
    BY <1>1, <1>3, <1>4, <2>1, <2>2 DEF InCall
<1>5. CASE ~call[r].coll
  BY <1>1, <1>2, <1>3, <1>5 DEF InCall, Done
<1> QED
  BY <1>4, <1>5

LEMMA DoneType ==
    ASSUME ControlInv, NEW r \in Ranks
    PROVE  /\ Done(r) \in 0 .. Len(log) /\ at[r] \in 0 .. Len(log) /\ Len(log) \in Nat
           /\ Done(r) = at[r] \/ Done(r) = at[r] - 1
<1>1. at[r] \in 0 .. Len(log) /\ Len(log) \in Nat
  BY DEF ControlInv
<1>2. CASE pc[r] = "idle"
  BY <1>1, <1>2 DEF Done
<1>3. CASE pc[r] # "idle"
  BY <1>1, <1>3, CallKnown
<1> QED
  BY <1>1, <1>2, <1>3

LEMMA ReturnControl ==
    ASSUME ControlInv, NEW r \in Ranks, pc[r] # "idle",
           Return(r), UNCHANGED <<call, log, at, collective>>
    PROVE  /\ ControlInv' /\ Done(r)' = at[r]
           /\ open'[r] = (call[r].op # "close")
           /\ \A s \in Ranks \ {r} : Done(s)' = Done(s) /\ pc'[s] = pc[s] /\ open'[s] = open[s]
<1>1. /\ pc' \in [Ranks -> PCs] /\ pc'[r] = "idle" /\ \A s \in Ranks \ {r} : pc'[s] = pc[s]
      /\ open' \in [Ranks -> BOOLEAN] /\ open'[r] = (call[r].op # "close")
      /\ \A s \in Ranks \ {r} : open'[s] = open[s]
  BY DEF ControlInv, Return, Goto, PCs
<1>2. Done(r)' = at[r] /\ \A s \in Ranks \ {r} : Done(s)' = Done(s)
  BY <1>1 DEF Done
<1>3. \A s \in Ranks : Place(s)'
  BY <1>1 DEF ControlInv, Place, Acts
<1>4. \A s \in Ranks : pc'[s] # "idle" => InCall(s)'
  BY <1>1 DEF ControlInv, InCall
<1>5. open'[r] = OpenAfter(Done(r))'
  <2>1. CASE call[r].coll
    BY <1>1, <1>2, <2>1, CallKnown DEF OpenAfter
  <2>2. CASE ~call[r].coll
    <3>1. call[r].op # "close" /\ open[r] /\ Done(r) = at[r]
      BY <2>2, CallKnown DEF Valid
    <3> QED
      BY <1>1, <1>2, <3>1 DEF OpenAfter, ControlInv
  <2> QED
    BY <2>1, <2>2
<1>6. \A s \in Ranks \ {r} : open'[s] = OpenAfter(Done(s))'
  BY <1>1, <1>2 DEF ControlInv, OpenAfter
<1>7. \A i \in 1 .. Len(log') : OpenAfter(i - 1)' = OpenAfter(i - 1)
  BY DEF OpenAfter
<1> QED
  BY <1>1, <1>2, <1>3, <1>4, <1>5, <1>6, <1>7 DEF ControlInv

\* A rank begins a call: one of its own, or the next of the collective ones.
LEMMA BeginControl ==
    ASSUME ControlInv, NEW r \in Ranks, NEW c, Begin(r, c), Valid(c),
           log' \in Seq(CallSet), Len(log) <= Len(log'),
           \A i \in 1 .. Len(log) : log'[i] = log[i],
           \A i \in Len(log) + 1 .. Len(log') :
              Valid(log'[i]) /\ log'[i].coll /\ (log'[i].op \in FileOps <=> ~OpenAfter(i - 1)'),
           c.coll => at[r] + 1 \in 1 .. Len(log') /\ c = log'[at[r] + 1],
           ~c.coll => ~collective /\ open[r]
    PROVE  ControlInv' /\ \A s \in Ranks : Done(s)' = Done(s)
<1>1. PICK l \in PCs \ {"idle"} : Goto(r, l) /\
        l = (IF c.op \in {"file_create", "create"} THEN "create"
             ELSE IF c.op \in {"flush", "close"} THEN "flush"
             ELSE IF c.coll /\ r # Leader THEN "receive"
             ELSE IF c.op = "open" THEN "open" ELSE "file_open")
  BY DEF Begin, PCs
<1>2. c \in CallSet /\ c.coll \in BOOLEAN
  BY DEF Valid, CallSet
<1>3. /\ pc[r] = "idle" /\ call' = [call EXCEPT ![r] = c]
      /\ at' = IF c.coll THEN [at EXCEPT ![r] = @ + 1] ELSE at
      /\ UNCHANGED <<open, collective>>
  BY DEF Begin, handles
<1>4. /\ pc' \in [Ranks -> PCs] /\ pc'[r] = l /\ \A s \in Ranks \ {r} : pc'[s] = pc[s]
      /\ call' \in [Ranks -> CallSet] /\ call'[r] = c
      /\ \A s \in Ranks \ {r} : call'[s] = call[s]
  BY <1>1, <1>2, <1>3 DEF ControlInv, Goto
<1>5. /\ at' \in [Ranks -> 0 .. Len(log')] /\ \A s \in Ranks \ {r} : at'[s] = at[s]
      /\ at'[r] = IF c.coll THEN at[r] + 1 ELSE at[r]
  BY <1>3 DEF ControlInv
<1>6. \A s \in Ranks : Done(s)' = Done(s)
  BY <1>1, <1>3, <1>4, <1>5 DEF Done, ControlInv
<1>7. \A s \in Ranks : Done(s) \in 0 .. Len(log)
  <2>1. \A s \in Ranks : pc[s] = "idle" => Done(s) \in 0 .. Len(log)
    BY DEF Done, ControlInv
  <2> QED
    BY <2>1, CallKnown
<1>8. \A i \in 0 .. Len(log) : OpenAfter(i)' = OpenAfter(i)
  BY DEF OpenAfter, ControlInv
<1>9. \A s \in Ranks : open'[s] = OpenAfter(Done(s))'
  <2>1. \A s \in Ranks : OpenAfter(Done(s))' = OpenAfter(Done(s))
    BY <1>6, <1>7 DEF OpenAfter
  <2> QED
    BY <1>3, <2>1 DEF ControlInv
<1>10. \A i \in 1 .. Len(log') : /\ Valid(log'[i]) /\ log'[i].coll
                                 /\ log'[i].op \in FileOps <=> ~OpenAfter(i - 1)'
  <2>1. \A i \in 1 .. Len(log) : i - 1 \in 0 .. Len(log)
    BY DEF ControlInv
  <2>2. \A i \in 1 .. Len(log) : /\ Valid(log'[i]) /\ log'[i].coll
                                 /\ log'[i].op \in FileOps <=> ~OpenAfter(i - 1)'
    BY <1>8, <2>1 DEF ControlInv
  <2>3. \A i \in 1 .. Len(log') : i \in 1 .. Len(log) \/ i \in Len(log) + 1 .. Len(log')
    BY DEF ControlInv
  <2> QED
    BY <2>2, <2>3
<1>11. Place(r)'
  BY <1>1, <1>4 DEF Place, Acts, Valid, CallSet, Opens, FileOps
<1>12. \A s \in Ranks \ {r} : Place(s)'
  BY <1>4 DEF ControlInv, Place, Acts
<1>13. InCall(r)'
  BY <1>2, <1>3, <1>4, <1>5 DEF InCall, ControlInv
<1>14. \A s \in Ranks \ {r} : pc'[s] # "idle" => InCall(s)'
  <2> SUFFICES ASSUME NEW s \in Ranks \ {r}, pc'[s] # "idle" PROVE InCall(s)'
    OBVIOUS
  <2>1. InCall(s) /\ at[s] \in 0 .. Len(log)
    BY <1>4 DEF ControlInv
  <2> QED
    BY <1>3, <1>4, <1>5, <2>1 DEF InCall
<1>15. \A s \in Ranks : Place(s)' /\ (pc'[s] # "idle" => InCall(s)')
  BY <1>11, <1>12, <1>13, <1>14
<1>16. open' \in [Ranks -> BOOLEAN]
  BY <1>3 DEF ControlInv
<1> QED
  BY <1>4, <1>5, <1>6, <1>9, <1>10, <1>15, <1>16 DEF ControlInv

-----------------------------------------------------------------------------
\* Rank 0 opens a file only if an index has been stored.
LEMMA IndexThere ==
    ASSUME ControlInv, IndexInv, pc[Leader] # "idle", call[Leader].op = "file_open"
    PROVE  glob \in Nat
<1>1. Leader \in Ranks
  BY LeaderAssumption
<1>2. /\ at[Leader] \in 1 .. Len(log) /\ log[at[Leader]].op = "file_open"
      /\ Done(Leader) = at[Leader] - 1 /\ ~open[Leader]
  BY <1>1, CallKnown DEF Valid, FileOps
<1>3. CASE at[Leader] = 1
  BY <1>2, <1>3 DEF IndexInv
<1>4. CASE at[Leader] # 1
  <2>1. Done(Leader) > 0
    BY <1>2, <1>4
  <2> QED
    BY <1>2, <2>1 DEF IndexInv
<1> QED
  BY <1>3, <1>4

\* The first call of the program opens the file or creates it.
LEMMA FirstCall ==
    ASSUME ControlInv, Len(log) > 0
    PROVE  log[1].op \in FileOps
<1>1. 1 \in 1 .. Len(log) /\ 1 - 1 = 0
  BY DEF ControlInv
<1>2. ~OpenAfter(1 - 1)
  BY <1>1 DEF OpenAfter
<1> QED
  BY <1>1, <1>2 DEF ControlInv

LEMMA ControlSame ==
    ASSUME ControlInv, UNCHANGED <<pc, call, open, log, at, collective>>
    PROVE  ControlInv' /\ \A s \in Ranks : Done(s)' = Done(s)
  BY DEF ControlInv, Place, Acts, InCall, OpenAfter, Done

\* A rank moves on, or returns, without writing to the storage or creating.
LEMMA QuietTypes ==
    ASSUME TypeInv, NEW r \in Ranks, pc[r] # "idle",
           UNCHANGED <<storage, made, kept, call, log, at, collective>>,
           \/ \E l \in PCs \ {"idle", "metadata", "link"} :
                 Goto(r, l) /\ UNCHANGED open /\ Place(r)'
           \/ Return(r) /\ (r = Leader => call[r].op \notin {"create", "file_create", "close"}),
           obj' = obj \/ \E x \in Objects : obj' = [obj EXCEPT ![r] = x],
           max_oid' \in [Ranks -> Nat], max_oid_dirty' \in [Ranks -> BOOLEAN],
           \/ max_oid_dirty'[Leader] = max_oid_dirty[Leader]
           \/ r = Leader /\ call[r].op = "file_open" /\ ~max_oid_dirty'[Leader],
           sent' \in Seq(Messages), taken' \in [Ranks -> Nat],
           \A s \in Ranks : taken'[s] <= Len(sent')
    PROVE  TypeInv'
<1>0. Leader \in Ranks /\ ControlInv /\ IndexInv /\ TreeInv /\ DataInv
  BY LeaderAssumption DEF TypeInv
<1>1. /\ ControlInv' /\ \A s \in Ranks \ {r} : pc'[s] = pc[s] /\ open'[s] = open[s]
      /\ \A s \in Ranks \ {r} : Done(s)' = Done(s)
      /\ pc'[r] \notin {"metadata", "link"}
      /\ \/ Done(r)' = Done(r) /\ open'[r] = open[r]
         \/ /\ Done(r)' = at[r] /\ open'[r] = (call[r].op # "close")
            /\ r = Leader => call[r].op \notin {"create", "file_create", "close"}
  <2>1. CASE \E l \in PCs \ {"idle", "metadata", "link"} :
                Goto(r, l) /\ UNCHANGED open /\ Place(r)'
    <3>1. PICK l \in PCs \ {"idle", "metadata", "link"} :
                Goto(r, l) /\ UNCHANGED open /\ Place(r)'
      BY <2>1
    <3>2. ControlInv' /\ \A s \in Ranks : Done(s)' = Done(s)
      BY <1>0, <3>1, MoveControl
    <3>3. pc'[r] = l /\ \A s \in Ranks \ {r} : pc'[s] = pc[s]
      BY <1>0, <3>1 DEF Goto, ControlInv
    <3> QED
      BY <3>1, <3>2, <3>3
  <2>2. CASE Return(r) /\ (r = Leader => call[r].op \notin {"create", "file_create", "close"})
    <3>1. pc'[r] = "idle"
      BY <1>0, <2>2 DEF Return, Goto, ControlInv
    <3> QED
      BY <1>0, <2>2, <3>1, ReturnControl
  <2> QED
    BY <2>1, <2>2
<1>2. DataInv'
  BY <1>0 DEF DataInv, storage
<1>3. \A s \in Ranks \ {r} : obj'[s] = obj[s]
  BY <1>0 DEF DataInv
<1>4. \/ Done(Leader)' = Done(Leader)
      \/ /\ Done(Leader)' = at[Leader] /\ r = Leader
         /\ call[Leader].op \notin {"create", "file_create"}
  BY <1>0, <1>1
<1>5. TreeInv'
  <2>1. ASSUME NEW i \in 1 .. Len(log), log[i].op = "create", i <= Done(Leader)'
        PROVE  log[i].path \in made
    <3>1. CASE Done(Leader)' = Done(Leader)
      BY <1>0, <2>1, <3>1 DEF TreeInv
    <3>2. CASE /\ Done(Leader)' = at[Leader] /\ r = Leader
               /\ call[Leader].op \notin {"create", "file_create"}
      <4>1. i # at[Leader] \/ ~call[Leader].coll
        BY <1>0, <2>1, <3>2, CallKnown
      <4>2. i <= Done(Leader)
        BY <1>0, <2>1, <3>2, <4>1, CallKnown
      <4> QED
        BY <1>0, <2>1, <4>2 DEF TreeInv
    <3> QED
      BY <1>4, <3>1, <3>2
  <2>2. \A s \in Ranks : pc'[s] \in {"metadata", "link"} =>
            s # r /\ pc[s] \in {"metadata", "link"} /\ obj'[s] = obj[s]
    BY <1>1, <1>3
  <2>3. \A s \in Ranks : pc'[s] # "idle" => pc[s] # "idle"
    BY <1>1
  <2> QED
    BY <1>0, <2>1, <2>2, <2>3 DEF TreeInv, ParentMade, storage
<1>6. IndexInv'
  <2>1. max_oid_dirty'[Leader] => open'[Leader]
    BY <1>0, <1>1 DEF IndexInv
  <2>2. ASSUME Done(Leader)' > 0 PROVE glob # None \/ max_oid_dirty'[Leader]
    <3>1. CASE call[Leader].op = "file_open" /\ pc[Leader] # "idle"
      BY <1>0, <3>1, IndexThere, NoneAssumption DEF IndexInv
    <3>2. CASE ~(call[Leader].op = "file_open" /\ pc[Leader] # "idle")
      <4>1. max_oid_dirty'[Leader] = max_oid_dirty[Leader]
        BY <3>2
      <4>2. CASE Done(Leader) > 0
        BY <1>0, <4>1, <4>2 DEF IndexInv
      <4>3. CASE ~(Done(Leader) > 0)
        <5>1. r = Leader /\ Done(Leader)' = at[Leader] /\ call[Leader].op # "file_create"
          BY <1>4, <2>2, <4>3
        <5>2. call[Leader].coll /\ at[Leader] = 1 /\ call[Leader] = log[1] /\ Len(log) > 0
          BY <1>0, <2>2, <4>3, <5>1, CallKnown
        <5>3. log[1].op = "file_open"
          BY <1>0, <5>1, <5>2, FirstCall DEF FileOps
        <5> QED
          BY <3>2, <5>1, <5>2, <5>3
      <4> QED
        BY <4>2, <4>3
    <3> QED
      BY <3>1, <3>2
  <2> QED
    BY <1>0, <2>1, <2>2 DEF IndexInv, storage
<1> QED
  BY <1>1, <1>2, <1>5, <1>6 DEF TypeInv

-----------------------------------------------------------------------------
\* The steps that write nothing to the storage.
LEMMA StoredType ==
    ASSUME DataInv, NEW oid
    PROVE  Stored(oid).path \in Paths \union {None} /\ Stored(oid).len \in Nat
  BY SizeAssumption DEF DataInv, Stored

LEMMA OpenTypes ==
    ASSUME TypeInv, NEW r \in Ranks, Open(r)
    PROVE  TypeInv'
<1>1. ControlInv /\ TreeInv /\ DataInv /\ pc[r] = "open"
  BY DEF TypeInv, Open
<1>2. Valid(call[r]) /\ call[r].op = "open" /\ Acts(r) /\ call[r].path \in Paths
  BY <1>1, CallKnown DEF ControlInv, Place
<1>3. UNCHANGED <<storage, handles, network, program, made, kept, call>>
  BY DEF Open
<1>4. obj' = obj \/ \E x \in Objects : obj' = [obj EXCEPT ![r] = x]
  <2>1. CASE obj' = [obj EXCEPT ![r].oid = group_traverse(call[r].path)]
    <3>1. obj[r] \in Objects /\ group_traverse(call[r].path) \in Oids \union {NoOid}
      BY <1>1, <1>2, TraverseType DEF DataInv
    <3>2. [obj[r] EXCEPT !.oid = group_traverse(call[r].path)] \in Objects
      BY <3>1 DEF Objects
    <3>3. obj' = [obj EXCEPT ![r] = [obj[r] EXCEPT !.oid = group_traverse(call[r].path)]]
      BY <1>1, <2>1 DEF DataInv
    <3> QED
      BY <3>2, <3>3
  <2> QED
    BY <2>1 DEF Open
<1>5. \E l \in {"aborted", "read"} : Goto(r, l)
  BY DEF Open
<1>6. PICK l \in {"aborted", "read"} : Goto(r, l)
  BY <1>5
<1>7. l \in PCs \ {"idle", "metadata", "link"} /\ Place(r)'
  <2>1. pc'[r] = l
    BY <1>1, <1>6 DEF Goto, ControlInv
  <2> QED
    BY <1>2, <1>3, <2>1 DEF Place, Acts, PCs, Opens
<1> QED
  BY <1>1, <1>3, <1>4, <1>6, <1>7, QuietTypes DEF handles, network, program, DataInv, IndexInv, TypeInv

LEMMA ReadTypes ==
    ASSUME TypeInv, NEW r \in Ranks, ReadMetadata(r)
    PROVE  TypeInv'
<1>1. ControlInv /\ DataInv /\ pc[r] = "read"
  BY DEF TypeInv, ReadMetadata
<1>2. call[r].op = "open" /\ Acts(r)
  BY <1>1 DEF ControlInv, Place
<1>3. UNCHANGED <<storage, max_oid, max_oid_dirty, network, program, made, kept, call>>
  BY DEF ReadMetadata
<1>4. \E x \in Objects : obj' = [obj EXCEPT ![r] = x]
  <2> DEFINE md == Stored(obj[r].oid)
             x == NewObj(obj[r].oid, md.path, md.len, NoOid)
  <2>1. x \in Objects
    BY <1>1, StoredType DEF NewObj, Objects, DataInv
  <2>2. obj' = [obj EXCEPT ![r] = x]
    BY <1>1 DEF ReadMetadata, DataInv
  <2> QED
    BY <2>1, <2>2
<1>5. \/ Goto(r, "bcast") /\ UNCHANGED open /\ Place(r)'
      \/ Return(r)
  <2>1. CASE Shares(r) /\ Goto(r, "bcast") /\ UNCHANGED open
    <3>1. pc'[r] = "bcast"
      BY <1>1, <2>1 DEF Goto, ControlInv
    <3> QED
      BY <1>2, <1>3, <2>1, <3>1 DEF Place, Acts, Shares, Opens
  <2> QED
    BY <2>1 DEF ReadMetadata
<1>6. "bcast" \in PCs \ {"idle", "metadata", "link"}
  BY DEF PCs
<1> QED
  BY <1>1, <1>2, <1>3, <1>4, <1>5, <1>6, QuietTypes DEF network, program, DataInv, IndexInv, TypeInv

LEMMA FileOpenTypes ==
    ASSUME TypeInv, NEW r \in Ranks, FileOpen(r)
    PROVE  TypeInv'
<1>1. ControlInv /\ IndexInv /\ DataInv /\ pc[r] = "file_open"
  BY DEF TypeInv, FileOpen
<1>2. call[r].op = "file_open" /\ r = Leader /\ call[r].coll
  BY <1>1, CallKnown DEF ControlInv, Place, Valid, FileOps
<1>3. UNCHANGED <<storage, network, program, made, kept, call>>
  BY DEF FileOpen
<1>4. max_oid' \in [Ranks -> Nat] /\ max_oid_dirty' \in [Ranks -> BOOLEAN] /\ ~max_oid_dirty'[r]
  <2>1. glob \in Nat
    BY <1>1, <1>2, IndexThere
  <2> QED
    BY <1>1, <2>1 DEF FileOpen, IndexInv
<1>5. \E x \in Objects : obj' = [obj EXCEPT ![r] = x]
  <2> DEFINE x == NewObj(Root, Stored(Root).path, Stored(Root).len, NoOid)
  <2>1. x \in Objects
    BY <1>1, StoredType, RootType DEF NewObj, Objects
  <2>2. obj' = [obj EXCEPT ![r] = x]
    BY DEF FileOpen
  <2> QED
    BY <2>1, <2>2
<1>6. \/ \E l \in {"aborted", "bcast"} : Goto(r, l) /\ UNCHANGED open
      \/ Return(r)
  BY DEF FileOpen
<1>7. CASE \E l \in {"aborted", "bcast"} : Goto(r, l) /\ UNCHANGED open
  <2>1. PICK l \in {"aborted", "bcast"} : Goto(r, l) /\ UNCHANGED open
    BY <1>7
  <2>2. pc'[r] = l
    BY <1>1, <2>1 DEF Goto, ControlInv
  <2>3. Place(r)' /\ l \in PCs \ {"idle", "metadata", "link"}
    BY <1>2, <1>3, <2>2 DEF Place, Opens, PCs, Acts
  <2> QED
    BY <1>1, <1>2, <1>3, <1>4, <1>5, <2>1, <2>3, QuietTypes DEF network, program, DataInv
<1>8. CASE Return(r)
  BY <1>1, <1>2, <1>3, <1>4, <1>5, <1>8, QuietTypes DEF network, program, DataInv
<1> QED
  BY <1>6, <1>7, <1>8

LEMMA BroadcastTypes ==
    ASSUME TypeInv, NEW r \in Ranks, Broadcast(r) \/ BroadcastRest(r)
    PROVE  TypeInv'
<1>1. ControlInv /\ IndexInv /\ DataInv /\ pc[r] \in {"bcast", "bcast_rest"}
  BY DEF TypeInv, Broadcast, BroadcastRest
<1>2. call[r].op \in Opens /\ call[r].coll /\ r = Leader
  BY <1>1 DEF ControlInv, Place, Opens
<1>3. UNCHANGED <<storage, max_oid, max_oid_dirty, obj, program, made, kept, call>>
  BY DEF Broadcast, BroadcastRest
<1>4. \E part \in {"first", "rest"}, md \in Paths \union {None} : Send(Message(r, part, md))
  BY <1>1 DEF Broadcast, BroadcastRest, DataInv, Objects
<1>5. sent' \in Seq(Messages) /\ taken' \in [Ranks -> Nat] /\ \A s \in Ranks : taken'[s] <= Len(sent')
  <2>1. PICK part \in {"first", "rest"}, md \in Paths \union {None} : Send(Message(r, part, md))
    BY <1>4
  <2>2. Message(r, part, md) \in Messages
    BY <1>1 DEF Message, Messages, ControlInv, IndexInv, DataInv, Objects
  <2>3. sent' = Append(sent, Message(r, part, md)) /\ taken' = taken
    BY <2>1 DEF Send
  <2> QED
    BY <1>1, <2>2, <2>3 DEF DataInv
<1>6. \/ Goto(r, "bcast_rest") /\ UNCHANGED open /\ call[r].op = "open"
      \/ Return(r)
  BY DEF Broadcast, BroadcastRest, SendsRest
<1>7. CASE Goto(r, "bcast_rest") /\ UNCHANGED open /\ call[r].op = "open"
  <2>1. pc'[r] = "bcast_rest"
    BY <1>1, <1>7 DEF Goto, ControlInv
  <2>2. Place(r)' /\ "bcast_rest" \in PCs \ {"idle", "metadata", "link"}
    BY <1>2, <1>3, <1>7, <2>1 DEF Place, PCs
  <2> QED
    BY <1>1, <1>3, <1>5, <1>7, <2>2, QuietTypes DEF program, IndexInv
<1>8. CASE Return(r)
  BY <1>1, <1>2, <1>3, <1>5, <1>8, QuietTypes DEF program, IndexInv, Opens
<1> QED
  BY <1>6, <1>7, <1>8

LEMMA ReceiveTypes ==
    ASSUME TypeInv, NEW r \in Ranks, Receive(r) \/ ReceiveRest(r)
    PROVE  TypeInv'
<1>1. ControlInv /\ IndexInv /\ DataInv /\ pc[r] \in {"receive", "receive_rest"} /\ Waiting(r)
  BY DEF TypeInv, Receive, ReceiveRest
<1>2. call[r].op \in Opens /\ call[r].coll /\ r # Leader /\ Leader \in Ranks
  BY <1>1, LeaderAssumption DEF ControlInv, Place, Opens
<1>3. UNCHANGED <<storage, program, made, kept, call, sent>>
  BY DEF Receive, ReceiveRest
<1>4. Incoming(r) \in Messages
  BY <1>1 DEF Incoming, Waiting, DataInv
<1>5. taken' \in [Ranks -> Nat] /\ \A s \in Ranks : taken'[s] <= Len(sent)
  <2>1. taken' = [taken EXCEPT ![r] = @ + 1]
    BY DEF Receive, ReceiveRest
  <2> QED
    BY <1>1, <2>1 DEF DataInv, Waiting
<1>6. \E x \in Objects : obj' = [obj EXCEPT ![r] = x]
  <2>1. CASE Receive(r)
    <3>1. obj' = [obj EXCEPT ![r] = NewObj(Incoming(r).oid, Incoming(r).md, Incoming(r).len, NoOid)]
      BY <2>1 DEF Receive
    <3>2. NewObj(Incoming(r).oid, Incoming(r).md, Incoming(r).len, NoOid) \in Objects
      BY <1>4 DEF NewObj, Objects, Messages
    <3> QED
      BY <3>1, <3>2
  <2>2. CASE ReceiveRest(r)
    <3>1. obj' = [obj EXCEPT ![r] = [obj[r] EXCEPT !.md = Incoming(r).md]]
      BY <1>1, <2>2 DEF ReceiveRest, DataInv
    <3>2. [obj[r] EXCEPT !.md = Incoming(r).md] \in Objects
      BY <1>1, <1>4 DEF DataInv, Objects, Messages
    <3> QED
      BY <3>1, <3>2
  <2> QED
    BY <2>1, <2>2
<1>7. /\ max_oid' \in [Ranks -> Nat] /\ max_oid_dirty' \in [Ranks -> BOOLEAN]
      /\ max_oid_dirty'[Leader] = max_oid_dirty[Leader]
  BY <1>1, <1>2, <1>4 DEF Receive, ReceiveRest, IndexInv, Messages
<1>8. \/ Goto(r, "receive_rest") /\ UNCHANGED open /\ call[r].op = "open"
      \/ Return(r)
  BY DEF Receive, ReceiveRest, ExpectsRest
<1>9. CASE Goto(r, "receive_rest") /\ UNCHANGED open /\ call[r].op = "open"
  <2>1. pc'[r] = "receive_rest"
    BY <1>1, <1>9 DEF Goto, ControlInv
  <2>2. Place(r)' /\ "receive_rest" \in PCs \ {"idle", "metadata", "link"}
    BY <1>2, <1>3, <1>9, <2>1 DEF Place, PCs
  <2> QED
    BY <1>1, <1>3, <1>5, <1>6, <1>7, <1>9, <2>2, QuietTypes DEF program, DataInv
<1>10. CASE Return(r)
  BY <1>1, <1>2, <1>3, <1>5, <1>6, <1>7, <1>10, QuietTypes DEF program, DataInv
<1> QED
  BY <1>8, <1>9, <1>10

-----------------------------------------------------------------------------
\* The steps of a creation.
LEMMA TreeSame ==
    ASSUME TreeInv, UNCHANGED <<made, kept, log, links, call>>,
           Done(Leader)' = Done(Leader),
           \A s \in Ranks : pc'[s] # "idle" => pc[s] # "idle",
           \A s \in Ranks : pc'[s] \in {"metadata", "link"} =>
              /\ obj'[s].oid \in Oids
              /\ call[s].path # << >> => obj'[s].grp \in Oids
              /\ Len(call[s].path) = 1 => obj'[s].grp = Root
    PROVE  TreeInv'
  BY DEF TreeInv, ParentMade

\* A return from anything but a creation adds no created object.
LEMMA NoneCreated ==
    ASSUME ControlInv, pc[Leader] # "idle", call[Leader].op # "create",
           NEW i \in 1 .. Len(log), log[i].op = "create", i <= at[Leader]
    PROVE  i <= Done(Leader)
<1>1. Leader \in Ranks
  BY LeaderAssumption
<1> QED
  BY <1>1, CallKnown

LEMMA KindType == ASSUME NEW p PROVE Kind(p) \in {"grp", "dset"}
  BY DEF Kind

LEMMA CreateTypes ==
    ASSUME TypeInv, NEW r \in Ranks, Create(r)
    PROVE  TypeInv'
<1>0. /\ ControlInv /\ IndexInv /\ TreeInv /\ DataInv /\ pc[r] = "create" /\ Leader \in Ranks
      /\ Valid(call[r]) /\ call[r].path \in Paths /\ call[r].len \in Nat
  BY CallKnown, LeaderAssumption DEF TypeInv, Create
<1> DEFINE idx == BaseIndex(r) + 1
           path == call[r].path
           x == NewObj(Oid(Kind(path), idx), path, call[r].len, TargetGroup(r))
<1>1. /\ UNCHANGED <<storage, call, max_oid_dirty, network, program, made, kept>>
      /\ max_oid' = [max_oid EXCEPT ![r] = idx] /\ obj' = [obj EXCEPT ![r] = x]
  BY DEF Create
<1>2. idx \in Nat /\ max_oid' \in [Ranks -> Nat]
  <2>1. BaseIndex(r) \in Nat
    BY <1>0 DEF BaseIndex, IndexInv
  <2> QED
    BY <1>0, <1>1, <2>1 DEF IndexInv
<1> HIDE DEF idx
<1>3. Oid(Kind(path), idx) \in Oids
  BY <1>2, KindType DEF Oid, Oids
<1>4. TargetGroup(r) \in Oids \union {NoOid}
  BY <1>0, TraverseType, PathParts DEF TargetGroup
<1>5. x \in Objects /\ x.oid \in Oids /\ x.grp = TargetGroup(r)
  BY <1>0, <1>3, <1>4 DEF NewObj, Objects
<1> HIDE DEF x
<1>6. CASE Acts(r) /\ Goto(r, "metadata") /\ UNCHANGED open
  <2>1. pc'[r] = "metadata" /\ \A s \in Ranks \ {r} : pc'[s] = pc[s]
    BY <1>0, <1>6 DEF Goto, ControlInv
  <2>2. call[r].op \in {"create", "file_create"}
    BY <1>0 DEF ControlInv, Place
  <2>3. Place(r)' /\ "metadata" \in PCs \ {"idle"}
    BY <1>1, <1>6, <2>1, <2>2 DEF Place, Acts, PCs
  <2>4. ControlInv' /\ \A s \in Ranks : Done(s)' = Done(s)
    BY <1>0, <1>1, <1>6, <2>3, MoveControl DEF program
  <2>5. IndexInv'
    BY <1>0, <1>1, <1>2, <1>6, <2>4 DEF IndexInv, storage, program
  <2>6. DataInv'
    BY <1>0, <1>1, <1>5 DEF DataInv, storage, network
  <2>7. path # << >> => ParentMade(path)
    <3> SUFFICES ASSUME path # << >> PROVE ParentMade(path)
      OBVIOUS
    <3>1. call[r].op = "create"
      BY <1>0, <2>2 DEF Valid
    <3>2. CASE call[r].coll
      <4>1. /\ r = Leader /\ at[r] \in 1 .. Len(log) /\ call[r] = log[at[r]]
            /\ Done(r) = at[r] - 1
        BY <1>0, <1>6, <3>2, CallKnown DEF Acts
      <4>2. \A j \in 1 .. at[r] - 1 : j \in 1 .. Len(log) /\ j <= Done(Leader)
        BY <4>1 DEF ControlInv
      <4> QED
        BY <1>0, <3>1, <4>1, <4>2 DEF TreeInv, ParentMade
    <3>3. CASE ~call[r].coll
      BY <1>0, <3>1, <3>3 DEF TreeInv
    <3> QED
      BY <3>2, <3>3
  <2>8. /\ path # << >> => TargetGroup(r) \in Oids
        /\ Len(path) = 1 => TargetGroup(r) = Root
    <3>1. Len(path) = 1 => path # << >>
      OBVIOUS
    <3> QED
      BY <1>0, <1>6, <2>7, <3>1, TraverseParent DEF TargetGroup
  <2>9. obj'[r] = x /\ \A s \in Ranks \ {r} : obj'[s] = obj[s]
    BY <1>0, <1>1 DEF DataInv
  <2>10. \A s \in Ranks : pc'[s] \in {"metadata", "link"} =>
            /\ obj'[s].oid \in Oids
            /\ call[s].path # << >> => obj'[s].grp \in Oids
            /\ Len(call[s].path) = 1 => obj'[s].grp = Root
    BY <1>0, <1>5, <2>1, <2>8, <2>9 DEF TreeInv
  <2>11. TreeInv'
    BY <1>0, <1>1, <2>1, <2>4, <2>10, TreeSame DEF storage, program
  <2> QED
    BY <2>4, <2>5, <2>6, <2>11 DEF TypeInv
<1>7. CASE ~Acts(r) /\ Return(r)
  <2>1. r # Leader
    BY <1>7 DEF Acts
  <2> QED
    BY <1>0, <1>1, <1>2, <1>5, <1>7, <2>1, QuietTypes DEF program, network, DataInv, IndexInv
<1> QED
  BY <1>6, <1>7 DEF Create

LEMMA WriteMetadataTypes ==
    ASSUME TypeInv, NEW r \in Ranks, WriteMetadata(r)
    PROVE  TypeInv'
<1>0. /\ ControlInv /\ IndexInv /\ TreeInv /\ DataInv /\ pc[r] = "metadata"
      /\ Leader \in Ranks /\ Valid(call[r]) /\ call[r].path \in Paths
      /\ call[r].op \in {"create", "file_create"} /\ Acts(r)
  BY CallKnown, LeaderAssumption DEF TypeInv, WriteMetadata, ControlInv, Place
<1>1. /\ UNCHANGED <<links, glob, call, max_oid, obj, network, program, kept>>
      /\ meta' = Put(meta, obj[r].oid, [path |-> call[r].path, len |-> call[r].len])
      /\ max_oid_dirty' = [max_oid_dirty EXCEPT ![r] = TRUE]
  BY DEF WriteMetadata
<1>2. DataInv'
  <2> DEFINE md == [path |-> call[r].path, len |-> call[r].len]
  <2>1. md \in [path : Paths, len : Sizes \union RootSizes] /\ obj[r].oid \in Oids
    BY <1>0 DEF Valid, TreeInv
  <2> HIDE DEF md
  <2>2. DOMAIN meta' = DOMAIN meta \union {obj[r].oid}
    BY <1>1, PutDomain DEF md
  <2>3. \A x \in DOMAIN meta' : meta'[x] = IF x = obj[r].oid THEN md ELSE meta[x]
    BY <1>1, <2>2, PutValue DEF md
  <2> QED
    BY <1>0, <1>1, <2>1, <2>2, <2>3 DEF DataInv, network
<1>3. max_oid_dirty' \in [Ranks -> BOOLEAN] /\ max_oid_dirty'[r]
      /\ \A s \in Ranks \ {r} : max_oid_dirty'[s] = max_oid_dirty[s]
  BY <1>0, <1>1 DEF IndexInv
<1>4. CASE call[r].path = << >>
  <2>1. Return(r) /\ made' = made \union {<< >>}
    BY <1>4 DEF WriteMetadata
  <2>2. call[r].op = "file_create" /\ r = Leader
    BY <1>0, <1>4 DEF Valid, Acts, FileOps
  <2>3. /\ ControlInv' /\ Done(r)' = at[r] /\ open'[r]
        /\ \A s \in Ranks \ {r} : pc'[s] = pc[s]
    BY <1>0, <1>1, <2>1, <2>2, ReturnControl DEF program
  <2>4. IndexInv'
    BY <1>0, <1>1, <1>3, <2>2, <2>3 DEF IndexInv, program
  <2>5. pc'[r] = "idle"
    BY <1>0, <2>1 DEF Return, Goto, ControlInv
  <2>6. TreeInv'
    <3>1. \A i \in 1 .. Len(log) : log[i].op = "create" /\ i <= Done(Leader)' => log[i].path \in made
      BY <1>0, <2>2, <2>3, NoneCreated DEF TreeInv
    <3>2. << >> \in Paths /\ \A g : <<g>> # << >>
      BY DEF Paths
    <3> QED
      BY <1>0, <1>1, <2>1, <2>3, <2>5, <3>1, <3>2 DEF TreeInv, ParentMade, program
  <2> QED
    BY <1>2, <2>3, <2>4, <2>6 DEF TypeInv
<1>5. CASE call[r].path # << >>
  <2>1. Goto(r, "link") /\ UNCHANGED <<open, made>>
    BY <1>5 DEF WriteMetadata
  <2>2. call[r].op = "create" /\ open[r]
    BY <1>0, <1>5, CallKnown DEF Valid, FileOps
  <2>3. pc'[r] = "link" /\ \A s \in Ranks \ {r} : pc'[s] = pc[s]
    BY <1>0, <2>1 DEF Goto, ControlInv
  <2>4. Place(r)' /\ "link" \in PCs \ {"idle"}
    BY <1>0, <1>1, <2>2, <2>3 DEF Place, Acts, PCs
  <2>5. ControlInv' /\ \A s \in Ranks : Done(s)' = Done(s)
    BY <1>0, <1>1, <2>1, <2>4, MoveControl DEF program
  <2>6. IndexInv'
    BY <1>0, <1>1, <1>3, <2>1, <2>2, <2>5 DEF IndexInv, program
  <2>7. \A s \in Ranks : pc'[s] \in {"metadata", "link"} => pc[s] \in {"metadata", "link"}
    BY <1>0, <2>3
  <2>8. TreeInv'
    BY <1>0, <1>1, <2>1, <2>3, <2>5, <2>7, TreeSame DEF program, TreeInv
  <2> QED
    BY <1>2, <2>5, <2>6, <2>8 DEF TypeInv
<1> QED
  BY <1>4, <1>5

LEMMA LinkWriteTypes ==
    ASSUME TypeInv, NEW r \in Ranks, link_write(r)
    PROVE  TypeInv'
<1>0. /\ ControlInv /\ IndexInv /\ TreeInv /\ DataInv /\ pc[r] = "link"
      /\ Leader \in Ranks /\ Valid(call[r]) /\ call[r].path \in Paths
      /\ call[r].op = "create" /\ Acts(r) /\ call[r].path # << >> /\ open[r]
  BY CallKnown, LeaderAssumption DEF TypeInv, link_write, ControlInv, Place, Valid, FileOps
<1> DEFINE key == <<obj[r].grp, Last(call[r].path)>>
<1>1. /\ UNCHANGED <<meta, glob, call, max_oid, max_oid_dirty, obj, network, program, kept>>
      /\ links' = Put(links, key, obj[r].oid) /\ made' = made \union {call[r].path} /\ Return(r)
  BY DEF link_write
<1>2. /\ ControlInv' /\ Done(r)' = at[r] /\ open'[r]
      /\ \A s \in Ranks \ {r} : Done(s)' = Done(s) /\ pc'[s] = pc[s] /\ open'[s] = open[s]
  BY <1>0, <1>1, ReturnControl DEF program
<1>3. pc'[r] = "idle"
  BY <1>0, <1>1 DEF Return, Goto, ControlInv
<1>4. DataInv'
  BY <1>0, <1>1 DEF DataInv, network
<1>5. IndexInv'
  <2>1. Done(r) > 0
    BY <1>0 DEF ControlInv, OpenAfter
  <2>2. Done(Leader)' > 0 => Done(Leader) > 0
    BY <1>0, <1>2, <2>1
  <2>3. max_oid_dirty[Leader] => open'[Leader]
    BY <1>0, <1>2 DEF IndexInv
  <2> QED
    BY <1>0, <1>1, <2>2, <2>3 DEF IndexInv, program
<1>6. key \in Oids \X Names /\ obj[r].oid \in Oids
  BY <1>0, PathParts DEF TreeInv
<1>7. \A g : call[r].path = <<g>> => key = <<Root, g>>
  BY <1>0, OneName DEF TreeInv
<1> HIDE DEF key
<1>8. /\ DOMAIN links' = DOMAIN links \union {key}
      /\ \A k \in DOMAIN links' : links'[k] = IF k = key THEN obj[r].oid ELSE links[k]
  <2>1. DOMAIN links' = DOMAIN links \union {key}
    BY <1>1, PutDomain
  <2>2. \A k \in DOMAIN links \union {key} : links'[k] = IF k = key THEN obj[r].oid ELSE links[k]
    BY <1>1, PutValue
  <2> QED
    BY <2>1, <2>2
<1>9. TreeInv'
  <2>1. ASSUME NEW i \in 1 .. Len(log), log[i].op = "create", i <= Done(Leader)'
        PROVE  log[i].path \in made'
    <3>1. CASE i <= Done(Leader)
      BY <1>0, <1>1, <2>1, <3>1 DEF TreeInv
    <3>2. CASE ~(i <= Done(Leader))
      <4>1. r = Leader /\ i <= at[r]
        BY <1>0, <1>2, <2>1, <3>2
      <4>2. i = at[r] /\ call[r] = log[at[r]]
        BY <1>0, <3>2, <4>1, CallKnown
      <4> QED
        BY <1>1, <4>2
    <3> QED
      BY <3>1, <3>2
  <2>2. \A k \in DOMAIN links' : k \in Oids \X Names /\ links'[k] \in Oids
    BY <1>0, <1>6, <1>8 DEF TreeInv
  <2>3. \A g \in Groups : <<g>> \in made' => <<Root, g>> \in DOMAIN links'
    BY <1>0, <1>1, <1>7, <1>8 DEF TreeInv
  <2>4. \A s \in Ranks : pc'[s] # "idle" => s # r
    BY <1>3
  <2> QED
    BY <1>0, <1>1, <1>2, <1>3, <2>1, <2>2, <2>3, <2>4 DEF TreeInv, ParentMade, program
<1> QED
  BY <1>2, <1>4, <1>5, <1>9 DEF TypeInv

LEMMA FlushTypes ==
    ASSUME TypeInv, NEW r \in Ranks, Flush(r)
    PROVE  TypeInv'
<1>0. /\ ControlInv /\ IndexInv /\ TreeInv /\ DataInv /\ pc[r] = "flush" /\ Leader \in Ranks
      /\ call[r].op \in {"flush", "close"} /\ open[r]
  BY CallKnown, LeaderAssumption DEF TypeInv, Flush, ControlInv, Place, FileOps
<1>1. /\ UNCHANGED <<meta, links, call, max_oid, obj, network, program, made>> /\ Return(r)
      /\ kept' = IF r = Leader THEN made ELSE kept
  BY DEF Flush
<1>2. /\ ControlInv' /\ Done(r)' = at[r]
      /\ \A s \in Ranks \ {r} : Done(s)' = Done(s) /\ pc'[s] = pc[s] /\ open'[s] = open[s]
  BY <1>0, <1>1, ReturnControl DEF program
<1>3. pc'[r] = "idle"
  BY <1>0, <1>1 DEF Return, Goto, ControlInv
<1>4. DataInv'
  BY <1>0, <1>1 DEF DataInv, network
<1>5. glob' \in Nat \union {None} /\ (glob # None \/ max_oid_dirty[r] => glob' # None)
  BY <1>0, NoneAssumption DEF Flush, IndexInv
<1>6. /\ max_oid_dirty' \in [Ranks -> BOOLEAN] /\ ~max_oid_dirty'[r]
      /\ \A s \in Ranks \ {r} : max_oid_dirty'[s] = max_oid_dirty[s]
  BY <1>0 DEF Flush, IndexInv
<1>7. IndexInv'
  <2>1. r = Leader => glob' # None
    BY <1>0, <1>5 DEF ControlInv, OpenAfter, IndexInv
  <2>2. max_oid_dirty'[Leader] => open'[Leader]
    BY <1>0, <1>2, <1>6 DEF IndexInv
  <2>3. Done(Leader)' > 0 => glob' # None \/ max_oid_dirty'[Leader]
    BY <1>0, <1>2, <1>5, <1>6, <2>1 DEF IndexInv
  <2> QED
    BY <1>0, <1>1, <1>5, <1>6, <2>2, <2>3 DEF IndexInv, program
<1>8. TreeInv'
  <2>1. \A i \in 1 .. Len(log) : log[i].op = "create" /\ i <= Done(Leader)' => log[i].path \in made
    BY <1>0, <1>2, NoneCreated DEF TreeInv
  <2>2. \A s \in Ranks : pc'[s] # "idle" => s # r /\ pc[s] = pc'[s]
    BY <1>2, <1>3
  <2> QED
    BY <1>0, <1>1, <2>1, <2>2 DEF TreeInv, ParentMade, program
<1> QED
  BY <1>2, <1>4, <1>7, <1>8 DEF TypeInv

-----------------------------------------------------------------------------
\* What the application may call is a call that the state allows.
LEMMA MayCallValid ==
    ASSUME TypeInv, NEW r \in Ranks, NEW c \in MayCall(r)
    PROVE  /\ Valid(c) /\ (c.op \in FileOps <=> ~open[r])
           /\ ~c.coll => ~collective /\ open[r]
           /\ c.op = "file_create" => ~FileExists
           /\ c.op = "file_open" => FileExists
           /\ c.op = "create" => \/ ParentMade(c.path)
                                 \/ c.coll /\ Front(c.path) \in Created
<1>1. made \subseteq Paths /\ << >> \in Paths /\ Created \subseteq Paths
  <2>1. made \subseteq Paths /\ log \in Seq(CallSet)
    BY DEF TypeInv, TreeInv, ControlInv
  <2>2. \A i \in DOMAIN log : log[i].path \in Paths
    <3>1. \A i \in DOMAIN log : log[i] \in CallSet
      BY <2>1
    <3> QED
      BY <3>1 DEF CallSet
  <2>3. << >> \in Paths
    BY DEF Paths
  <2> QED
    BY <2>1, <2>2, <2>3 DEF Created
<1>2. CASE ~open[r]
  <2>1. c \in FileCalls
    BY <1>2 DEF MayCall
  <2>2. CASE FileExists
    <3>1. c = NewCall("file_open", << >>, 0, TRUE)
      BY <2>1, <2>2 DEF FileCalls
    <3> QED
      BY <1>1, <1>2, <2>2, <3>1 DEF NewCall, Valid, CallSet, FileOps, Opens
  <2>3. CASE ~FileExists
    <3>1. PICK len \in RootSizes : c = NewCall("file_create", << >>, len, TRUE)
      BY <2>1, <2>3 DEF FileCalls
    <3>2. len \in Nat
      BY SizeAssumption
    <3> QED
      BY <1>1, <1>2, <2>3, <3>1, <3>2 DEF NewCall, Valid, CallSet, FileOps, Opens
  <2> QED
    BY <2>2, <2>3
<1>3. CASE open[r]
  <2>1. CASE c = NewCall("close", << >>, 0, TRUE)
    BY <1>1, <1>3, <2>1 DEF NewCall, Valid, CallSet, FileOps, Opens
  <2>2. ASSUME NEW coll \in BOOLEAN, c \in ObjectCalls(coll), ~coll => ~collective
        PROVE  /\ Valid(c) /\ c.op \notin FileOps /\ c.coll = coll
               /\ c.op = "create" => \/ ParentMade(c.path)
                                     \/ coll /\ Front(c.path) \in Created
    <3> DEFINE there == IF coll THEN Created ELSE made
    <3>1. CASE c \in {NewCall("create", p, len, coll) :
                 p \in {q \in Paths \ ({<< >>} \union Taken) : Front(q) \in there \union {<< >>}},
                 len \in Sizes}
      <4>1. PICK p \in {q \in Paths \ ({<< >>} \union Taken) : Front(q) \in there \union {<< >>}},
                 len \in Sizes : c = NewCall("create", p, len, coll)
        BY <3>1
      <4> QED
        BY <4>1, SizeAssumption DEF NewCall, Valid, CallSet, FileOps, ParentMade
    <3>2. CASE c \in {NewCall("open", p, 0, coll) : p \in there \ {<< >>}}
      BY <1>1, <3>2 DEF NewCall, Valid, CallSet, FileOps, Opens
    <3>3. CASE c = NewCall("flush", << >>, 0, coll)
      BY <1>1, <3>3 DEF NewCall, Valid, CallSet, FileOps, Opens
    <3> QED
      BY <2>2, <3>1, <3>2, <3>3 DEF ObjectCalls
  <2>3. \/ c = NewCall("close", << >>, 0, TRUE) \/ c \in ObjectCalls(TRUE)
        \/ ~collective /\ c \in ObjectCalls(FALSE)
    BY <1>3 DEF MayCall
  <2>4. c = NewCall("close", << >>, 0, TRUE) => c.op = "close" /\ c.coll
    BY DEF NewCall
  <2> QED
    BY <1>3, <2>1, <2>2, <2>3, <2>4 DEF FileOps
<1> QED
  BY <1>2, <1>3 DEF TypeInv, ControlInv

\* What a call that begins may not disturb.
LEMMA BeginTypes ==
    ASSUME TypeInv, NEW r \in Ranks, NEW c, Begin(r, c), ControlInv',
           \A s \in Ranks : Done(s)' = Done(s),
           Len(log) <= Len(log'), Len(log') \in Nat, \A i \in 1 .. Len(log) : log'[i] = log[i],
           \A i \in Len(log) + 1 .. Len(log') :
              /\ log'[i].op = "file_create" => i = 1
              /\ log'[i].op = "file_open" /\ i = 1 => glob # None
              /\ log'[i].op = "create" =>
                    \/ ParentMade(log'[i].path)
                    \/ \E j \in 1 .. i - 1 :
                          log'[j].op = "create" /\ log'[j].path = Front(log'[i].path),
           ~c.coll /\ c.op = "create" => ParentMade(c.path)
    PROVE  TypeInv'
<1>0. /\ ControlInv /\ IndexInv /\ TreeInv /\ DataInv /\ Leader \in Ranks /\ Len(log) \in Nat
  BY LeaderAssumption DEF TypeInv, ControlInv
<1>1. /\ UNCHANGED <<storage, handles, network, made, kept>> /\ obj' = [obj EXCEPT ![r] = NoObj]
      /\ call' = [call EXCEPT ![r] = c]
  BY DEF Begin
<1>2. DataInv'
  <2>1. NoObj \in Objects
    BY DEF NoObj, NewObj, Objects
  <2> QED
    BY <1>0, <1>1, <2>1 DEF DataInv, storage, network
<1>3. IndexInv'
  <2>1. \A i \in 1 .. Len(log') : log'[i].op = "file_create" => i = 1
    BY <1>0 DEF IndexInv
  <2>2. Len(log') > 0 /\ log'[1].op = "file_open" => glob # None
    BY <1>0 DEF IndexInv
  <2> QED
    BY <1>0, <1>1, <2>1, <2>2 DEF IndexInv, storage, handles
<1>4. TreeInv'
  <2>1. Done(Leader) <= Len(log)
    BY <1>0, DoneType
  <2>2. ASSUME NEW i \in 1 .. Len(log'), log'[i].op = "create"
        PROVE  /\ \/ ParentMade(log'[i].path)
                  \/ \E j \in 1 .. i - 1 :
                        log'[j].op = "create" /\ log'[j].path = Front(log'[i].path)
               /\ i <= Done(Leader) => log'[i].path \in made
    <3>1. CASE i <= Len(log)
      <4>1. \A j \in 1 .. i - 1 : log'[j] = log[j]
        BY <1>0, <3>1
      <4> QED
        BY <1>0, <2>2, <3>1, <4>1 DEF TreeInv
    <3>2. CASE ~(i <= Len(log))
      <4>1. i \in Len(log) + 1 .. Len(log') /\ ~(i <= Done(Leader))
        BY <1>0, <2>1, <3>2, DoneType
      <4> QED
        BY <2>2, <4>1
    <3> QED
      BY <3>1, <3>2
  <2>3. pc'[r] \notin {"metadata", "link"} /\ \A s \in Ranks \ {r} : pc'[s] = pc[s]
    BY <1>0 DEF Begin, Goto, ControlInv
  <2>4. call'[r] = c /\ \A s \in Ranks \ {r} : call'[s] = call[s] /\ obj'[s] = obj[s]
    BY <1>0, <1>1 DEF ControlInv, DataInv
  <2>5. \A s \in Ranks : pc'[s] # "idle" /\ ~call'[s].coll /\ call'[s].op = "create"
                           => ParentMade(call'[s].path)
    BY <1>0, <2>3, <2>4 DEF TreeInv
  <2> QED
    BY <1>0, <1>1, <2>2, <2>3, <2>4, <2>5 DEF TreeInv, ParentMade, storage
<1> QED
  BY <1>2, <1>3, <1>4 DEF TypeInv

LEMMA FollowTypes ==
    ASSUME TypeInv, NEW r \in Ranks, Follow(r)
    PROVE  TypeInv'
<1> DEFINE c == log[at[r] + 1]
<1>1. /\ ControlInv /\ log \in Seq(CallSet) /\ at[r] \in 0 .. Len(log)
      /\ at[r] < Len(log) /\ Begin(r, c) /\ UNCHANGED log
  BY DEF TypeInv, ControlInv, Follow
<1>2. at[r] + 1 \in 1 .. Len(log)
  BY <1>1
<1>3. Valid(c) /\ c.coll
  BY <1>1, <1>2 DEF ControlInv
<1> HIDE DEF c
<1>4. ControlInv' /\ \A s \in Ranks : Done(s)' = Done(s)
  BY <1>1, <1>2, <1>3, BeginControl DEF c
<1> QED
  BY <1>1, <1>3, <1>4, BeginTypes

LEMMA CallTypes ==
    ASSUME TypeInv, NEW r \in Ranks, Call(r)
    PROVE  TypeInv'
<1>0. PICK c \in MayCall(r) :
        /\ c.coll => at[r] = Len(log)
        /\ Begin(r, c)
        /\ log' = IF c.coll THEN Append(log, c) ELSE log
  BY DEF Call
<1>1. /\ ControlInv /\ IndexInv /\ log \in Seq(CallSet) /\ at[r] \in 0 .. Len(log) /\ pc[r] = "idle"
  BY <1>0 DEF TypeInv, ControlInv, Begin
<1>2. /\ Valid(c) /\ (c.op \in FileOps <=> ~open[r]) /\ c \in CallSet
      /\ ~c.coll => ~collective /\ open[r]
      /\ c.op = "file_create" => ~FileExists
      /\ c.op = "file_open" => FileExists
      /\ c.op = "create" => ParentMade(c.path) \/ (c.coll /\ Front(c.path) \in Created)
  <2>1. TypeInv
    OBVIOUS
  <2> HIDE DEF TypeInv
  <2>2. /\ Valid(c) /\ (c.op \in FileOps <=> ~open[r])
        /\ ~c.coll => ~collective /\ open[r]
        /\ c.op = "file_create" => ~FileExists
        /\ c.op = "file_open" => FileExists
        /\ c.op = "create" => ParentMade(c.path) \/ (c.coll /\ Front(c.path) \in Created)
    BY <1>0, <2>1, MayCallValid
  <2> QED
    BY <2>2 DEF Valid
<1>3. CASE ~c.coll
  <2>1. UNCHANGED log
    BY <1>0, <1>3
  <2>2. ControlInv' /\ \A s \in Ranks : Done(s)' = Done(s)
    BY <1>0, <1>1, <1>2, <1>3, <2>1, BeginControl
  <2> QED
    BY <1>0, <1>1, <1>2, <1>3, <2>1, <2>2, BeginTypes
<1>4. CASE c.coll
  <2>0. PICK n \in Nat : n = Len(log) + 1
    BY <1>1
  <2>1. /\ log' = Append(log, c) /\ log' \in Seq(CallSet) /\ Len(log') = n /\ log'[n] = c
        /\ \A i \in 1 .. Len(log) : log'[i] = log[i]
        /\ at[r] = Len(log) /\ Len(log) \in Nat
    BY <1>0, <1>1, <1>2, <1>4, <2>0
  <2>2. n - 1 = Len(log) /\ n \in Nat /\ \A i \in Len(log) + 1 .. Len(log') : i = n
    BY <2>0, <2>1
  <2>3. OpenAfter(n - 1)' = open[r]
    <3>1. Done(r) = Len(log)
      BY <1>1, <2>1 DEF Done
    <3>2. open[r] = OpenAfter(Len(log))
      BY <1>1, <3>1 DEF ControlInv
    <3>3. Len(log) > 0 => log'[Len(log)] = log[Len(log)]
      BY <2>1
    <3>5. OpenAfter(n - 1)' <=> Len(log) > 0 /\ log'[Len(log)].op # "close"
      BY <2>2 DEF OpenAfter
    <3> QED
      BY <3>2, <3>3, <3>5 DEF OpenAfter
  <2>4. ControlInv' /\ \A s \in Ranks : Done(s)' = Done(s)
    <3>1. at[r] + 1 \in 1 .. Len(log') /\ c = log'[at[r] + 1]
      BY <2>0, <2>1
    <3>2. \A i \in Len(log) + 1 .. Len(log') :
            Valid(log'[i]) /\ log'[i].coll /\ (log'[i].op \in FileOps <=> ~OpenAfter(i - 1)')
      BY <1>2, <1>4, <2>1, <2>2, <2>3
    <3>3. Len(log) <= Len(log')
      BY <2>1, <2>2
    <3> QED
      BY <1>0, <1>1, <1>2, <1>4, <2>1, <3>1, <3>2, <3>3, BeginControl
  <2>5. c.op = "file_create" => n = 1
    <3>1. Len(log) > 0 => FileExists
      <4> SUFFICES ASSUME Len(log) > 0 PROVE FileExists
        OBVIOUS
      <4>1. log[1].op \in FileOps /\ 1 \in DOMAIN log
        BY <1>1, FirstCall
      <4> QED
        BY <1>1, <4>1 DEF FileOps, FileExists, IndexInv
    <3> QED
      BY <1>2, <2>0, <2>1, <3>1
  <2>6. c.op = "file_open" /\ n = 1 => glob # None
    BY <1>1, <1>2, <2>0, <2>1 DEF FileExists
  <2>7. c.op = "create" => \/ ParentMade(c.path)
                           \/ \E j \in 1 .. n - 1 : log'[j].op = "create" /\ log'[j].path = Front(c.path)
    BY <1>1, <1>2, <2>1, <2>2 DEF Created, ParentMade
  <2>8. \A i \in Len(log) + 1 .. Len(log') :
          /\ log'[i].op = "file_create" => i = 1
          /\ log'[i].op = "file_open" /\ i = 1 => glob # None
          /\ log'[i].op = "create" =>
                \/ ParentMade(log'[i].path)
                \/ \E j \in 1 .. i - 1 :
                      log'[j].op = "create" /\ log'[j].path = Front(log'[i].path)
    BY <2>1, <2>2, <2>5, <2>6, <2>7
  <2>9. Len(log) <= Len(log') /\ Len(log') \in Nat
    BY <2>1, <2>2
  <2> QED
    BY <1>0, <1>2, <1>4, <2>1, <2>4, <2>8, <2>9, BeginTypes
<1> QED
  BY <1>3, <1>4

\* A crash empties the ranks and the log; what it leaves is what was stored and kept.
LEMMA CrashTypes ==
    ASSUME TypeInv, Crash
    PROVE  TypeInv'
<1>0. /\ UNCHANGED <<storage, collective, kept>> /\ made' = kept
      /\ pc' = All("idle") /\ call' = All(NoCall) /\ obj' = All(NoObj)
      /\ open' = All(FALSE) /\ max_oid' = All(0) /\ max_oid_dirty' = All(FALSE)
      /\ sent' = << >> /\ taken' = All(0) /\ log' = << >> /\ at' = All(0)
      /\ ControlInv /\ IndexInv /\ TreeInv /\ DataInv /\ Leader \in Ranks
  BY LeaderAssumption DEF Crash, TypeInv
<1>1. NoCall \in CallSet /\ NoObj \in Objects
  BY DEF NoCall, NewCall, CallSet, NoObj, NewObj, Objects, Paths
<1>2. Len(log') = 0 /\ log' \in Seq(CallSet) /\ sent' \in Seq(Messages) /\ Len(sent') = 0
  BY <1>0
<1>3. \A s \in Ranks : /\ pc'[s] = "idle" /\ at'[s] = 0 /\ open'[s] = FALSE /\ Done(s)' = 0
                       /\ taken'[s] = 0 /\ ~max_oid_dirty'[s]
  BY <1>0 DEF All, Done
<1>4. ControlInv'
  <2>1. \A s \in Ranks : Place(s)'
    BY <1>3 DEF Place
  <2>4. \A s \in Ranks : open'[s] = OpenAfter(Done(s))'
    <3> SUFFICES ASSUME NEW s \in Ranks PROVE open'[s] = OpenAfter(Done(s))'
      OBVIOUS
    <3>1. Done(s)' = 0 /\ open'[s] = FALSE
      BY <1>3
    <3>2. OpenAfter(Done(s))' = FALSE
      <4>1. ~(Done(s)' > 0)
        BY <3>1
      <4> QED
        BY <4>1, Zenon DEF OpenAfter
    <3> QED
      BY <3>1, <3>2
  <2>2. /\ pc' \in [Ranks -> PCs] /\ call' \in [Ranks -> CallSet]
        /\ open' \in [Ranks -> BOOLEAN] /\ at' \in [Ranks -> 0 .. Len(log')]
    BY <1>0, <1>1, <1>2 DEF All, PCs
  <2>3. \A i : i \notin 1 .. Len(log')
    BY <1>2
  <2> QED
    BY <1>2, <1>3, <2>1, <2>2, <2>3, <2>4 DEF ControlInv
<1>5. IndexInv'
  BY <1>0, <1>2, <1>3 DEF IndexInv, All, storage
<1>6. DataInv'
  BY <1>0, <1>1, <1>2, <1>3 DEF DataInv, All, storage
<1>7. TreeInv'
  <2>1. made' \subseteq made /\ kept' = made'
    BY <1>0 DEF TreeInv
  <2>2. \A i : i \notin 1 .. Len(log')
    BY <1>2
  <2>3. UNCHANGED links
    BY <1>0 DEF storage
  <2> QED
    BY <1>0, <1>3, <2>1, <2>2, <2>3 DEF TreeInv
<1> QED
  BY <1>4, <1>5, <1>6, <1>7 DEF TypeInv

LEMMA InitTypes == Init => TypeInv
<1> SUFFICES ASSUME Init PROVE TypeInv
  OBVIOUS
<1>0. /\ pc = All("idle") /\ call = All(NoCall) /\ obj = All(NoObj)
      /\ open = All(FALSE) /\ max_oid = All(0) /\ max_oid_dirty = All(FALSE)
      /\ sent = << >> /\ taken = All(0) /\ log = << >> /\ at = All(0)
      /\ DOMAIN meta = {} /\ DOMAIN links = {} /\ glob = None /\ made = {} /\ kept = {}
      /\ Leader \in Ranks
  BY LeaderAssumption DEF Init
<1>1. NoCall \in CallSet /\ NoObj \in Objects
  BY DEF NoCall, NewCall, CallSet, NoObj, NewObj, Objects, Paths
<1>2. Len(log) = 0 /\ log \in Seq(CallSet) /\ sent \in Seq(Messages) /\ Len(sent) = 0
  BY <1>0
<1>3. \A s \in Ranks : /\ pc[s] = "idle" /\ at[s] = 0 /\ open[s] = FALSE /\ Done(s) = 0
                       /\ taken[s] = 0 /\ ~max_oid_dirty[s]
  BY <1>0 DEF All, Done
<1>4. ControlInv
  <2>1. \A s \in Ranks : Place(s)
    BY <1>3 DEF Place
  <2>4. \A s \in Ranks : open[s] = OpenAfter(Done(s))
    <3> SUFFICES ASSUME NEW s \in Ranks PROVE open[s] = OpenAfter(Done(s))
      OBVIOUS
    <3>1. Done(s) = 0 /\ open[s] = FALSE
      BY <1>3
    <3>2. OpenAfter(Done(s)) = FALSE
      <4>1. ~(Done(s) > 0)
        BY <3>1
      <4> QED
        BY <4>1, Zenon DEF OpenAfter
    <3> QED
      BY <3>1, <3>2
  <2>2. /\ pc \in [Ranks -> PCs] /\ call \in [Ranks -> CallSet]
        /\ open \in [Ranks -> BOOLEAN] /\ at \in [Ranks -> 0 .. Len(log)]
    BY <1>0, <1>1, <1>2 DEF All, PCs
  <2>3. \A i : i \notin 1 .. Len(log)
    BY <1>2
  <2> QED
    BY <1>2, <1>3, <2>1, <2>2, <2>3, <2>4 DEF ControlInv
<1>5. IndexInv
  BY <1>0, <1>2, <1>3 DEF IndexInv, All
<1>6. DataInv
  BY <1>0, <1>1, <1>2, <1>3 DEF DataInv, All
<1>7. TreeInv
  <2>1. \A i : i \notin 1 .. Len(log)
    BY <1>2
  <2> QED
    BY <1>0, <1>3, <2>1 DEF TreeInv
<1> QED
  BY <1>4, <1>5, <1>6, <1>7 DEF TypeInv

LEMMA NextTypes == TypeInv /\ [Next]_vars => TypeInv'
<1> SUFFICES ASSUME TypeInv, [Next]_vars PROVE TypeInv'
  OBVIOUS
<1>1. CASE Crash
  BY <1>1, CrashTypes
<1>2. ASSUME NEW r \in Ranks, Step(r) PROVE TypeInv'
  BY <1>2, CreateTypes, WriteMetadataTypes, LinkWriteTypes, OpenTypes, ReadTypes,
     FileOpenTypes, BroadcastTypes, ReceiveTypes, FlushTypes DEF Step
<1>3. ASSUME NEW r \in Ranks, Follow(r) \/ Call(r) PROVE TypeInv'
  BY <1>3, FollowTypes, CallTypes
<1>4. CASE UNCHANGED vars
  <2>1. /\ UNCHANGED <<meta, links, glob, pc, call, open, max_oid, max_oid_dirty, obj, sent,
                       taken, collective, log, at, made, kept>>
    BY <1>4 DEF vars, storage, handles, network, program
  <2>2. ControlInv' /\ \A s \in Ranks : Done(s)' = Done(s)
    BY <2>1, ControlSame DEF TypeInv
  <2>3. IndexInv' /\ TreeInv' /\ DataInv'
    BY <2>1, <2>2, LeaderAssumption DEF TypeInv, IndexInv, TreeInv, ParentMade, DataInv
  <2> QED
    BY <2>2, <2>3 DEF TypeInv
<1> QED
  BY <1>1, <1>2, <1>3, <1>4 DEF Next

LEMMA TypeInvTypes == TypeInv => TypeOK
<1> SUFFICES ASSUME TypeInv PROVE TypeOK
  OBVIOUS
<1>1. \A r \in Ranks : /\ obj[r].oid \in Oids \union {NoOid}
                       /\ obj[r].md \in Paths \union {None}
                       /\ call[r].path \in Paths
  BY DEF TypeInv, DataInv, ControlInv, Objects, CallSet
<1> QED
  BY <1>1 DEF TypeInv, ControlInv, IndexInv, TreeInv, DataInv, TypeOK

\* The types, and with them that what is stored names only real objects: a link is in
\* a group that exists and holds the oid of an object that was made, and a rank that
\* opens the file finds an index there, whoever flushed it and whenever the job died.
THEOREM TypeCorrect == Spec => []TypeOK
  BY InitTypes, NextTypes, TypeInvTypes, PTL DEF Spec
=============================================================================
