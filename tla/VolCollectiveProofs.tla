----------------------- MODULE VolCollectiveProofs -----------------------
(***************************************************************************)
(* What TLAPS proves of the collective calls of VolConnector, for any      *)
(* number of ranks and calls: a receive takes the broadcast that was sent  *)
(* for it, the ranks' own copies of max_oid agree, a collective call gives *)
(* every rank the same object, and what has been created, or was flushed   *)
(* before the job died, is found under its path with its own metadata.     *)
(***************************************************************************)
EXTENDS VolConnectorProofs, FiniteSetTheorems

(***************************************************************************)
(* The inductive invariant of the broadcasts.  They are sent in the order  *)
(* of the calls, the second part of one after its first, and all that a    *)
(* call sends is sent before rank 0 comes back from it; what another rank  *)
(* has taken is exactly what belongs to the calls it has come back from,   *)
(* and the first part of the one whose second it waits for.                *)
(***************************************************************************)
\* The first broadcast of a call that does not fit in the receivers' static buffer.
Split(c, len) ==
    /\ c.op = "open"
    /\ len + (IF Kind(c.path) = "grp" THEN 2 ELSE 4)
          > (IF Kind(c.path) = "grp" THEN GInfoBuf ELSE DInfoBuf)

\* Broadcast k is this part of the one of call i.
IsPart(k, i, part) == k \in 1 .. Len(sent) /\ sent[k].at = i /\ sent[k].part = part

\* All that call i sends has been sent.
Complete(i) ==
    \E k \in 1 .. Len(sent) :
        /\ IsPart(k, i, "first")
        /\ Split(log[i], sent[k].len) => \E l \in 1 .. Len(sent) : IsPart(l, i, "rest")

\* Between the two receives, or the two sends, of its call.
Half(r) ==
    \E k \in 1 .. Len(sent) :
        /\ IsPart(k, at[r], "first") /\ Split(call[r], sent[k].len)
        /\ sent[k].oid = obj[r].oid /\ sent[k].len = obj[r].len

SentInv ==
    /\ \A k \in 1 .. Len(sent) :
          /\ sent[k].at \in 1 .. Len(log) /\ log[sent[k].at].op \in Opens
          /\ \/ sent[k].at <= Done(Leader)
             \/ pc[Leader] = "bcast_rest" /\ IsPart(k, at[Leader], "first")
          /\ sent[k].part = "rest" =>
                \E j \in 1 .. k - 1 : /\ IsPart(j, sent[k].at, "first")
                                      /\ Split(log[sent[k].at], sent[j].len)
    /\ \A k, l \in 1 .. Len(sent) : k < l =>
          \/ sent[k].at < sent[l].at
          \/ sent[k].at = sent[l].at /\ sent[k].part = "first" /\ sent[l].part = "rest"
    /\ pc[Leader] = "bcast_rest" => Half(Leader)
    /\ Cardinality(Ranks) > 1 =>
          \A i \in 1 .. Done(Leader) : log[i].op \in Opens => Complete(i)

TakenInv ==
    \A r \in Ranks \ {Leader} :
        /\ \A k \in 1 .. Len(sent) :
              k <= taken[r] <=> \/ sent[k].at <= Done(r)
                                \/ pc[r] = "receive_rest" /\ IsPart(k, at[r], "first")
        /\ pc[r] = "receive_rest" => Half(r)
        /\ \A i \in 1 .. Done(r) : log[i].op \in Opens => Complete(i)

Mail == SentInv /\ TakenInv

-----------------------------------------------------------------------------
LEMMA Several ==
    ASSUME NEW r \in Ranks, NEW s \in Ranks, r # s
    PROVE  Cardinality(Ranks) > 1
<1>1. IsFiniteSet({r}) /\ Cardinality({r}) = 1
  BY FS_Singleton
<1>2. Cardinality({r} \union {s}) = 2
  BY <1>1, FS_AddElement
<1>3. IsFiniteSet(Ranks) /\ {r} \union {s} \in SUBSET Ranks
  BY LeaderAssumption
<1>4. Cardinality({r} \union {s}) <= Cardinality(Ranks) /\ Cardinality(Ranks) \in Nat
  BY <1>3, FS_Subset, FS_CardinalityType
<1> QED
  BY <1>2, <1>4

LEMMA SentType ==
    ASSUME DataInv
    PROVE  /\ Len(sent) \in Nat
           /\ \A k \in 1 .. Len(sent) :
                 /\ sent[k] \in Messages /\ sent[k].at \in Nat
                 /\ sent[k].part = "first" \/ sent[k].part = "rest"
           /\ \A r \in Ranks : taken[r] \in Nat /\ taken[r] <= Len(sent)
<1>1. sent \in Seq(Messages)
  BY DEF DataInv
<1>2. \A k \in 1 .. Len(sent) : sent[k] \in Messages
  BY <1>1
<1> QED
  BY <1>1, <1>2 DEF DataInv, Messages

\* A part of a call is broadcast once.
LEMMA PartOnce ==
    ASSUME DataInv, SentInv, NEW k, NEW l, NEW i, NEW part,
           IsPart(k, i, part), IsPart(l, i, part)
    PROVE  k = l
<1>1. /\ k \in 1 .. Len(sent) /\ l \in 1 .. Len(sent) /\ Len(sent) \in Nat
      /\ sent[k].at = i /\ sent[l].at = i /\ sent[k].part = part /\ sent[l].part = part
      /\ i \in Nat
  BY SentType DEF IsPart
<1>2. ASSUME NEW m \in 1 .. Len(sent), NEW n \in 1 .. Len(sent), m < n,
             sent[m].at = i, sent[n].at = i
      PROVE  sent[m].part # sent[n].part
  <2>1. \/ sent[m].at < sent[n].at
        \/ sent[m].at = sent[n].at /\ sent[m].part = "first" /\ sent[n].part = "rest"
    BY <1>2 DEF SentInv
  <2> QED
    BY <1>1, <1>2, <2>1
<1>3. k < l \/ l < k \/ k = l
  BY <1>1
<1> QED
  BY <1>1, <1>2, <1>3

\* Broadcasts that are taken later are of the same call or of a later one.
LEMMA InOrder ==
    ASSUME DataInv, SentInv, NEW k \in 1 .. Len(sent), NEW l \in 1 .. Len(sent),
           sent[k].at < sent[l].at
    PROVE  k < l
<1>1. sent[k].at \in Nat /\ sent[l].at \in Nat /\ k \in Nat /\ l \in Nat
  BY SentType
<1>2. l < k => sent[l].at <= sent[k].at
  BY <1>1 DEF SentInv
<1> QED
  BY <1>1, <1>2

\* A rank goes on with nothing that concerns the broadcasts, or comes back from a
\* call that has none.
LEMMA QuietMail ==
    ASSUME ControlInv, DataInv, Mail, NEW r \in Ranks, UNCHANGED <<sent, taken>>,
           Len(log) <= Len(log'), Len(log') \in Nat, \A i \in 1 .. Len(log) : log'[i] = log[i],
           \A s \in Ranks \ {r} : /\ Done(s)' = Done(s) /\ pc'[s] = pc[s] /\ at'[s] = at[s]
                                  /\ call'[s] = call[s] /\ obj'[s] = obj[s],
           pc[r] \notin {"bcast_rest", "receive_rest"},
           pc'[r] \notin {"bcast_rest", "receive_rest"},
           \/ Done(r)' = Done(r)
           \/ /\ Done(r)' = Done(r) + 1 /\ Done(r)' \in 1 .. Len(log)
              /\ \/ log[Done(r)'].op \notin Opens
                 \/ r = Leader /\ ~(Cardinality(Ranks) > 1)
    PROVE  Mail'
<1>0. Leader \in Ranks /\ SentInv /\ TakenInv /\ Len(log) \in Nat
  BY LeaderAssumption DEF Mail, ControlInv
<1>1. \A k, i, part : IsPart(k, i, part)' = IsPart(k, i, part)
  BY DEF IsPart
<1>2. \A i \in 1 .. Len(log) : Complete(i) => Complete(i)'
  BY <1>1 DEF Complete
<1>3. \A s \in Ranks \ {r} : Half(s) => Half(s)'
  BY <1>1 DEF Half
<1>4. \A k \in 1 .. Len(sent) : /\ sent[k].at \in Nat /\ sent[k].at \in 1 .. Len(log)
                               /\ log[sent[k].at].op \in Opens
                               /\ log'[sent[k].at] = log[sent[k].at]
  BY <1>0, SentType DEF SentInv
<1>5. \A s \in Ranks : /\ Done(s) \in Nat /\ Done(s)' \in Nat
                       /\ Done(s) <= Done(s)' /\ Done(s)' <= Len(log)
  BY DoneType
<1>6. \A s \in Ranks : \A k \in 1 .. Len(sent) :
        (s = r /\ s = Leader) \/ (sent[k].at <= Done(s)' <=> sent[k].at <= Done(s))
  <2>1. CASE Done(r)' = Done(r)
    BY <2>1
  <2>2. CASE /\ Done(r)' = Done(r) + 1 /\ Done(r)' \in 1 .. Len(log)
             /\ log[Done(r)'].op \notin Opens
    <3>1. \A k \in 1 .. Len(sent) : sent[k].at # Done(r)'
      BY <1>4, <2>2
    <3> QED
      BY <1>4, <1>5, <2>2, <3>1
  <2>3. CASE r = Leader
    BY <2>3
  <2> QED
    BY <2>1, <2>2, <2>3
<1>7. \A s \in Ranks : \A i \in 1 .. Done(s)' : log'[i].op \in Opens =>
        i \in 1 .. Done(s) \/ (s = r /\ r = Leader /\ ~(Cardinality(Ranks) > 1))
  <2> SUFFICES ASSUME NEW s \in Ranks, NEW i \in 1 .. Done(s)', log'[i].op \in Opens,
                      i \notin 1 .. Done(s)
               PROVE  s = r /\ r = Leader /\ ~(Cardinality(Ranks) > 1)
    OBVIOUS
  <2>1. i \in 1 .. Len(log) /\ log'[i] = log[i]
    BY <1>0, <1>5
  <2>2. Done(s)' # Done(s) /\ s = r
    BY <1>5
  <2>3. i = Done(r)'
    BY <1>5, <2>2
  <2> QED
    BY <2>1, <2>2, <2>3
<1>8. SentInv'
  <2>1. ASSUME NEW k \in 1 .. Len(sent')
        PROVE  /\ sent'[k].at \in 1 .. Len(log') /\ log'[sent'[k].at].op \in Opens
               /\ \/ sent'[k].at <= Done(Leader)'
                  \/ pc'[Leader] = "bcast_rest" /\ IsPart(k, at[Leader], "first")'
               /\ sent'[k].part = "rest" =>
                     \E j \in 1 .. k - 1 : /\ IsPart(j, sent[k].at, "first")'
                                           /\ Split(log'[sent'[k].at], sent'[j].len)
    <3>1. k \in 1 .. Len(sent) /\ sent'[k] = sent[k]
      OBVIOUS
    <3>2. \/ sent[k].at <= Done(Leader)
          \/ pc[Leader] = "bcast_rest" /\ IsPart(k, at[Leader], "first")
      BY <1>0, <3>1 DEF SentInv
    <3>3. \/ sent'[k].at <= Done(Leader)'
          \/ pc'[Leader] = "bcast_rest" /\ IsPart(k, at[Leader], "first")'
      BY <1>0, <1>4, <1>5, <3>1, <3>2 DEF IsPart
    <3>4. sent[k].part = "rest" =>
             \E j \in 1 .. k - 1 : /\ IsPart(j, sent[k].at, "first")
                                   /\ Split(log[sent[k].at], sent[j].len)
      BY <1>0, <3>1 DEF SentInv
    <3>5. sent'[k].part = "rest" =>
             \E j \in 1 .. k - 1 : /\ IsPart(j, sent[k].at, "first")'
                                   /\ Split(log'[sent'[k].at], sent'[j].len)
      BY <1>1, <1>4, <3>1, <3>4
    <3>6. sent'[k].at \in 1 .. Len(log') /\ log'[sent'[k].at].op \in Opens
      BY <1>4, <3>1
    <3> QED
      BY <3>3, <3>5, <3>6
  <2>2. pc'[Leader] = "bcast_rest" => Half(Leader)'
    BY <1>0, <1>3 DEF SentInv
  <2>3. Cardinality(Ranks) > 1 =>
          \A i \in 1 .. Done(Leader)' : log'[i].op \in Opens => Complete(i)'
    <3> SUFFICES ASSUME Cardinality(Ranks) > 1,
                        NEW i \in 1 .. Done(Leader)', log'[i].op \in Opens
                 PROVE  Complete(i)'
      OBVIOUS
    <3>1. i \in 1 .. Done(Leader) /\ i \in 1 .. Len(log) /\ log'[i] = log[i]
      BY <1>0, <1>5, <1>7
    <3> QED
      BY <1>0, <1>2, <3>1 DEF SentInv
  <2> QED
    BY <1>0, <2>1, <2>2, <2>3 DEF SentInv
<1>9. TakenInv'
  <2> SUFFICES ASSUME NEW s \in Ranks \ {Leader}
               PROVE  /\ \A k \in 1 .. Len(sent') :
                            k <= taken'[s] <=>
                               \/ sent'[k].at <= Done(s)'
                               \/ pc'[s] = "receive_rest" /\ IsPart(k, at[s], "first")'
                      /\ pc'[s] = "receive_rest" => Half(s)'
                      /\ \A i \in 1 .. Done(s)' : log'[i].op \in Opens => Complete(i)'
    BY DEF TakenInv
  <2>1. \A k \in 1 .. Len(sent') :
           k <= taken'[s] <=> \/ sent'[k].at <= Done(s)'
                              \/ pc'[s] = "receive_rest" /\ IsPart(k, at[s], "first")'
    BY <1>0, <1>6 DEF TakenInv, IsPart
  <2>2. pc'[s] = "receive_rest" => Half(s)'
    BY <1>0, <1>3 DEF TakenInv
  <2>3. ASSUME NEW i \in 1 .. Done(s)', log'[i].op \in Opens PROVE Complete(i)'
    <3>1. i \in 1 .. Done(s) /\ i \in 1 .. Len(log) /\ log'[i] = log[i]
      BY <1>0, <1>5, <1>7, <2>3
    <3> QED
      BY <1>0, <1>2, <2>3, <3>1 DEF TakenInv
  <2> QED
    BY <2>1, <2>2, <2>3
<1> QED
  BY <1>8, <1>9 DEF Mail

\* Rank 0 broadcasts: a part that has not been sent, and so one that no other rank
\* can have taken.
LEMMA SendMail ==
    ASSUME ControlInv, DataInv, Mail, NEW m \in Messages, Send(m),
           UNCHANGED <<log, call, at, obj>>,
           pc[Leader] # "idle", call[Leader].coll, call[Leader].op \in Opens,
           \A s \in Ranks \ {Leader} : Done(s)' = Done(s) /\ pc'[s] = pc[s],
           m.at = at[Leader],
           \A k \in 1 .. Len(sent) :
              \/ sent[k].at < at[Leader]
              \/ sent[k].at = at[Leader] /\ sent[k].part = "first" /\ m.part = "rest",
           ~Complete(at[Leader]),
           m.part = "rest" => \E j \in 1 .. Len(sent) :
              IsPart(j, at[Leader], "first") /\ Split(call[Leader], sent[j].len),
           \/ Done(Leader)' = at[Leader] /\ pc'[Leader] = "idle" /\ Complete(at[Leader])'
           \/ /\ Done(Leader)' = Done(Leader) /\ pc'[Leader] = "bcast_rest"
              /\ Half(Leader)' /\ m.part = "first"
    PROVE  Mail'
<1>0. /\ Leader \in Ranks /\ SentInv /\ TakenInv
      /\ at[Leader] \in 1 .. Len(log) /\ call[Leader] = log[at[Leader]]
      /\ Done(Leader) = at[Leader] - 1 /\ Len(log) \in Nat
  BY LeaderAssumption, CallKnown DEF Mail, ControlInv
<1>1. PICK n \in Nat : n = Len(sent) + 1
  BY SentType
<1>2. /\ Len(sent') = n /\ sent'[n] = m /\ \A k \in 1 .. Len(sent) : sent'[k] = sent[k]
      /\ \A k \in 1 .. Len(sent') : k \in 1 .. Len(sent) \/ k = n
      /\ \A k \in 1 .. Len(sent) : k \in 1 .. Len(sent') /\ k < n
      /\ taken' = taken /\ Len(sent) \in Nat
  BY <1>1, SentType DEF DataInv, Send
<1>3. /\ \A k, i, part : IsPart(k, i, part) => IsPart(k, i, part)'
      /\ \A i, part : m.at = i /\ m.part = part => IsPart(n, i, part)'
  BY <1>1, <1>2 DEF IsPart
<1>4. \A i : Complete(i) => Complete(i)'
  BY <1>2, <1>3 DEF Complete, IsPart
<1>5. \A s \in Ranks \ {Leader} : Half(s) => Half(s)'
  BY <1>2, <1>3 DEF Half, IsPart
<1>6. \A k \in 1 .. Len(sent) : /\ sent[k].at \in Nat /\ sent[k].at \in 1 .. Len(log)
                               /\ log[sent[k].at].op \in Opens
  BY <1>0, SentType DEF SentInv
<1>7. \A s \in Ranks : Done(s) \in Nat /\ at[s] \in Nat
  BY DoneType
<1>8. SentInv'
  <2>1. ASSUME NEW k \in 1 .. Len(sent')
        PROVE  /\ sent'[k].at \in 1 .. Len(log') /\ log'[sent'[k].at].op \in Opens
               /\ \/ sent'[k].at <= Done(Leader)'
                  \/ pc'[Leader] = "bcast_rest" /\ IsPart(k, at[Leader], "first")'
               /\ sent'[k].part = "rest" =>
                     \E j \in 1 .. k - 1 : /\ IsPart(j, sent[k].at, "first")'
                                           /\ Split(log'[sent'[k].at], sent'[j].len)
    <3>1. CASE k \in 1 .. Len(sent)
      <4>1. sent[k].part = "rest" =>
               \E j \in 1 .. k - 1 : /\ IsPart(j, sent[k].at, "first")
                                     /\ Split(log[sent[k].at], sent[j].len)
        BY <1>0, <3>1 DEF SentInv
      <4>2. sent'[k].part = "rest" =>
               \E j \in 1 .. k - 1 : /\ IsPart(j, sent[k].at, "first")'
                                     /\ Split(log'[sent'[k].at], sent'[j].len)
        BY <1>2, <3>1, <4>1 DEF IsPart
      <4>3. \/ sent'[k].at <= Done(Leader)'
            \/ pc'[Leader] = "bcast_rest" /\ IsPart(k, at[Leader], "first")'
        <5>1. \/ sent[k].at <= Done(Leader)
              \/ sent[k].at = at[Leader] /\ sent[k].part = "first" /\ m.part = "rest"
          BY <1>0, <1>6, <3>1
        <5> QED
          BY <1>0, <1>2, <1>6, <3>1, <5>1
      <4> QED
        BY <1>2, <1>6, <3>1, <4>2, <4>3
    <3>2. CASE k = n
      <4>1. \/ sent'[k].at <= Done(Leader)'
            \/ pc'[Leader] = "bcast_rest" /\ IsPart(k, at[Leader], "first")'
        BY <1>0, <1>2, <3>2 DEF IsPart
      <4>2. sent'[k].part = "rest" =>
               \E j \in 1 .. k - 1 : /\ IsPart(j, sent[k].at, "first")'
                                     /\ Split(log'[sent'[k].at], sent'[j].len)
        BY <1>0, <1>1, <1>2, <3>2 DEF IsPart
      <4> QED
        BY <1>0, <1>2, <3>2, <4>1, <4>2
    <3> QED
      BY <1>2, <3>1, <3>2
  <2>2. ASSUME NEW k \in 1 .. Len(sent'), NEW l \in 1 .. Len(sent'), k < l
        PROVE  \/ sent'[k].at < sent'[l].at
               \/ /\ sent'[k].at = sent'[l].at
                  /\ sent'[k].part = "first" /\ sent'[l].part = "rest"
    <3>1. CASE l \in 1 .. Len(sent)
      <4>1. k \in 1 .. Len(sent)
        BY <1>1, <1>2, <2>2, <3>1
      <4> QED
        BY <1>0, <1>2, <2>2, <3>1, <4>1 DEF SentInv
    <3>2. CASE l = n
      <4>1. k \in 1 .. Len(sent)
        BY <1>1, <1>2, <2>2, <3>2
      <4> QED
        BY <1>0, <1>2, <3>2, <4>1
    <3> QED
      BY <1>2, <3>1, <3>2
  <2>3. pc'[Leader] = "bcast_rest" => Half(Leader)'
    OBVIOUS
  <2>4. Cardinality(Ranks) > 1 =>
          \A i \in 1 .. Done(Leader)' : log'[i].op \in Opens => Complete(i)'
    <3> SUFFICES ASSUME Cardinality(Ranks) > 1,
                        NEW i \in 1 .. Done(Leader)', log'[i].op \in Opens
                 PROVE  Complete(i)'
      OBVIOUS
    <3>1. i \in 1 .. Done(Leader) \/ (Done(Leader)' = at[Leader] /\ i = at[Leader])
      BY <1>0
    <3>2. CASE i \in 1 .. Done(Leader)
      BY <1>0, <1>4, <3>2 DEF SentInv
    <3>3. CASE Done(Leader)' = at[Leader] /\ i = at[Leader]
      BY <1>0, <3>3
    <3> QED
      BY <3>1, <3>2, <3>3
  <2> QED
    BY <2>1, <2>2, <2>3, <2>4 DEF SentInv
<1>9. TakenInv'
  <2> SUFFICES ASSUME NEW s \in Ranks \ {Leader}
               PROVE  /\ \A k \in 1 .. Len(sent') :
                            k <= taken'[s] <=>
                               \/ sent'[k].at <= Done(s)'
                               \/ pc'[s] = "receive_rest" /\ IsPart(k, at[s], "first")'
                      /\ pc'[s] = "receive_rest" => Half(s)'
                      /\ \A i \in 1 .. Done(s)' : log'[i].op \in Opens => Complete(i)'
    BY DEF TakenInv
  <2>1. Done(s) < at[Leader]
    <3>1. at[Leader] \notin 1 .. Done(s)
      BY <1>0 DEF TakenInv
    <3> QED
      BY <1>0, <1>7, <3>1
  <2>2. ~(pc[s] = "receive_rest" /\ m.at = at[s] /\ m.part = "first")
    <3> SUFFICES ASSUME pc[s] = "receive_rest", m.at = at[s] PROVE m.part # "first"
      OBVIOUS
    <3>1. PICK k \in 1 .. Len(sent) : IsPart(k, at[s], "first")
      BY <1>0 DEF TakenInv, Half
    <3> QED
      BY <1>0, <1>6, <3>1 DEF IsPart
  <2>3. ASSUME NEW k \in 1 .. Len(sent')
        PROVE  k <= taken'[s] <=> \/ sent'[k].at <= Done(s)'
                                  \/ pc'[s] = "receive_rest" /\ IsPart(k, at[s], "first")'
    <3>1. CASE k \in 1 .. Len(sent)
      BY <1>0, <1>2, <3>1 DEF TakenInv, IsPart
    <3>2. CASE k = n
      <4>1. ~(k <= taken'[s])
        BY <1>1, <1>2, <3>2, SentType
      <4>2. ~(sent'[k].at <= Done(s)')
        BY <1>0, <1>2, <1>7, <2>1, <3>2
      <4> QED
        BY <1>2, <2>2, <3>2, <4>1, <4>2 DEF IsPart
    <3> QED
      BY <1>2, <3>1, <3>2
  <2>4. pc'[s] = "receive_rest" => Half(s)'
    BY <1>0, <1>5 DEF TakenInv
  <2>5. \A i \in 1 .. Done(s)' : log'[i].op \in Opens => Complete(i)'
    BY <1>0, <1>4 DEF TakenInv
  <2> QED
    BY <2>3, <2>4, <2>5
<1> QED
  BY <1>8, <1>9 DEF Mail

LEMMA BroadcastMail ==
    ASSUME TypeInv, Mail, NEW r \in Ranks, Broadcast(r) \/ BroadcastRest(r)
    PROVE  Mail'
<1>0. /\ ControlInv /\ DataInv /\ SentInv /\ TakenInv /\ pc[r] \in {"bcast", "bcast_rest"}
      /\ pc[r] # "idle"
  BY DEF TypeInv, Mail, Broadcast, BroadcastRest
<1>1. /\ call[r].op \in Opens /\ call[r].coll /\ r = Leader
      /\ pc[r] = "bcast_rest" => call[r].op = "open"
  BY <1>0 DEF ControlInv, Place, Opens
<1>2. /\ at[r] \in 1 .. Len(log) /\ call[r] = log[at[r]] /\ Done(r) = at[r] - 1
      /\ Len(log) \in Nat
  BY <1>0, <1>1, CallKnown DEF ControlInv
<1>3. UNCHANGED <<call, obj, log, at>>
  BY DEF Broadcast, BroadcastRest, program
<1>4. PICK md \in Paths \union {None}, part \in {"first", "rest"} :
        /\ Send(Message(r, part, md))
        /\ part = IF pc[r] = "bcast" THEN "first" ELSE "rest"
  BY <1>0 DEF Broadcast, BroadcastRest, DataInv, Objects
<1> DEFINE m == Message(r, part, md)
<1>5. /\ m \in Messages /\ m.at = at[r] /\ m.part = part
      /\ m.oid = obj[r].oid /\ m.len = obj[r].len
  BY <1>0 DEF Message, Messages, TypeInv, ControlInv, IndexInv, DataInv, Objects
<1> HIDE DEF m
<1>6. /\ Len(sent') = Len(sent) + 1 /\ sent'[Len(sent) + 1] = m
      /\ \A k \in 1 .. Len(sent) : sent'[k] = sent[k]
      /\ Len(sent) \in Nat /\ Len(sent) + 1 \in 1 .. Len(sent')
  BY <1>0, <1>4, SentType DEF m, Send, DataInv
<1>7. SendsRest(r) <=> Split(call[r], obj[r].len)
  BY DEF SendsRest, Split, Header, Static
<1>8. \A k \in 1 .. Len(sent) :
         \/ sent[k].at < at[r]
         \/ sent[k].at = at[r] /\ sent[k].part = "first" /\ pc[r] = "bcast_rest"
  BY <1>0, <1>1, <1>2, SentType DEF SentInv, IsPart
<1>9. ~Complete(at[r])
  <2> SUFFICES ASSUME Complete(at[r]) PROVE FALSE
    OBVIOUS
  <2>1. PICK k \in 1 .. Len(sent) :
          /\ IsPart(k, at[r], "first")
          /\ Split(log[at[r]], sent[k].len) => \E l \in 1 .. Len(sent) : IsPart(l, at[r], "rest")
    BY DEF Complete
  <2>2. pc[r] = "bcast_rest"
    BY <1>2, <1>8, <2>1, SentType, <1>0 DEF IsPart
  <2>3. PICK j \in 1 .. Len(sent) : /\ IsPart(j, at[r], "first")
                                    /\ Split(call[r], sent[j].len)
    BY <1>0, <1>1, <2>2 DEF SentInv, Half
  <2>4. j = k
    BY <1>0, <2>1, <2>3, PartOnce
  <2>5. PICK l \in 1 .. Len(sent) : IsPart(l, at[r], "rest")
    BY <1>2, <2>1, <2>3, <2>4
  <2> QED
    BY <1>2, <1>8, <2>5 DEF IsPart
<1>10. part = "rest" => \E j \in 1 .. Len(sent) :
          IsPart(j, at[r], "first") /\ Split(call[r], sent[j].len)
  BY <1>0, <1>1, <1>4 DEF SentInv, Half
<1>11. \A s \in Ranks \ {r} : Done(s)' = Done(s) /\ pc'[s] = pc[s]
  BY <1>0, <1>3 DEF Done, Broadcast, BroadcastRest, Return, Goto, ControlInv
<1>12. CASE part = "first" /\ SendsRest(r)
  <2>1. pc'[r] = "bcast_rest"
    BY <1>0, <1>4, <1>12 DEF Broadcast, BroadcastRest, Goto, ControlInv
  <2>2. Done(r)' = Done(r)
    BY <1>0, <1>3, <2>1 DEF Done
  <2>3. Half(r)'
    BY <1>3, <1>5, <1>6, <1>7, <1>12 DEF Half, IsPart
  <2> QED
    BY <1>0, <1>1, <1>3, <1>4, <1>5, <1>8, <1>9, <1>11, <1>12, <2>1, <2>2, <2>3, SendMail DEF m
<1>13. CASE ~(part = "first" /\ SendsRest(r))
  <2>1. pc'[r] = "idle"
    BY <1>0, <1>4, <1>13 DEF Broadcast, BroadcastRest, Return, Goto, ControlInv
  <2>2. Done(r)' = at[r]
    BY <1>3, <2>1 DEF Done
  <2>3. Complete(at[r])'
    <3>1. CASE part = "first"
      BY <1>2, <1>3, <1>5, <1>6, <1>7, <1>13, <3>1 DEF Complete, IsPart
    <3>2. CASE part = "rest"
      BY <1>2, <1>3, <1>5, <1>6, <1>10, <3>2 DEF Complete, IsPart
    <3> QED
      BY <3>1, <3>2
  <2> QED
    BY <1>0, <1>1, <1>3, <1>4, <1>5, <1>8, <1>9, <1>10, <1>11, <2>1, <2>2, <2>3, SendMail DEF m
<1> QED
  BY <1>12, <1>13

-----------------------------------------------------------------------------
\* What a rank that waits for the first broadcast of its call takes.
LEMMA IncomingFirst ==
    ASSUME ControlInv, DataInv, Mail, NEW r \in Ranks, pc[r] = "receive", Waiting(r)
    PROVE  IsPart(taken[r] + 1, at[r], "first")
<1>0. /\ SentInv /\ TakenInv /\ r # Leader /\ Leader \in Ranks /\ Cardinality(Ranks) > 1
      /\ call[r].coll /\ call[r].op \in Opens
  BY LeaderAssumption, Several DEF Mail, ControlInv, Place
<1>1. /\ at[r] \in 1 .. Len(log) /\ call[r] = log[at[r]] /\ Done(r) = at[r] - 1
      /\ Len(log) \in Nat
  BY <1>0, CallKnown DEF ControlInv
<1>2. PICK n \in 1 .. Len(sent) : n = taken[r] + 1 /\ ~(n <= taken[r])
  BY SentType DEF Waiting
<1>3. sent[n].at \in Nat /\ sent[n].at >= at[r]
  BY <1>0, <1>1, <1>2, SentType DEF TakenInv
<1>4. \A k \in 1 .. Len(sent) : k < n => sent[k].at < at[r]
  <2>1. \A k \in 1 .. Len(sent) : k < n => k <= taken[r]
    BY <1>2, SentType
  <2>2. \A k \in 1 .. Len(sent) : k <= taken[r] => sent[k].at <= Done(r)
    BY <1>0 DEF TakenInv
  <2>3. \A k \in 1 .. Len(sent) : sent[k].at \in Nat
    BY SentType
  <2> QED
    BY <1>1, <2>1, <2>2, <2>3
<1>5. sent[n].at = at[r]
  <2> SUFFICES ASSUME sent[n].at > at[r] PROVE FALSE
    BY <1>1, <1>3
  <2>1. at[r] \in 1 .. Done(Leader)
    <3>1. sent[n].at <= Done(Leader) \/ sent[n].at <= at[Leader]
      BY <1>0, <1>3 DEF SentInv, IsPart
    <3> QED
      BY <1>0, <1>1, <1>3, <3>1, DoneType
  <2>2. PICK k \in 1 .. Len(sent) : IsPart(k, at[r], "first")
    BY <1>0, <1>1, <2>1 DEF SentInv, Complete
  <2>3. k < n
    BY <1>1, <1>3, <2>2, InOrder, <1>0 DEF IsPart
  <2> QED
    BY <1>1, <1>4, <2>2, <2>3 DEF IsPart
<1>6. sent[n].part # "rest"
  <2> SUFFICES ASSUME sent[n].part = "rest" PROVE FALSE
    OBVIOUS
  <2>1. PICK j \in 1 .. n - 1 : IsPart(j, sent[n].at, "first")
    BY <1>0 DEF SentInv
  <2> QED
    BY <1>1, <1>4, <1>5, <2>1 DEF IsPart
<1> QED
  BY <1>2, <1>5, <1>6, SentType DEF IsPart

\* And what one takes that waits for the second.
LEMMA IncomingRest ==
    ASSUME ControlInv, DataInv, Mail, NEW r \in Ranks, pc[r] = "receive_rest", Waiting(r)
    PROVE  IsPart(taken[r] + 1, at[r], "rest")
<1>0. /\ SentInv /\ TakenInv /\ r # Leader /\ Leader \in Ranks /\ Cardinality(Ranks) > 1
      /\ call[r].coll /\ call[r].op \in Opens
  BY LeaderAssumption, Several DEF Mail, ControlInv, Place, Opens
<1>1. /\ at[r] \in 1 .. Len(log) /\ call[r] = log[at[r]] /\ Done(r) = at[r] - 1
      /\ Len(log) \in Nat
  BY <1>0, CallKnown DEF ControlInv
<1>2. PICK n \in 1 .. Len(sent) : n = taken[r] + 1 /\ ~(n <= taken[r])
  BY SentType DEF Waiting
<1>3. sent[n].at \in Nat /\ sent[n].at >= at[r] /\ ~IsPart(n, at[r], "first")
  BY <1>0, <1>1, <1>2, SentType DEF TakenInv
<1>4. PICK j \in 1 .. Len(sent) : IsPart(j, at[r], "first") /\ Split(call[r], sent[j].len)
  BY <1>0 DEF TakenInv, Half
<1>5. \A k \in 1 .. Len(sent) : k < n => sent[k].at < at[r] \/ IsPart(k, at[r], "first")
  BY <1>0, <1>1, <1>2, SentType DEF TakenInv
<1>6. sent[n].at = at[r]
  <2> SUFFICES ASSUME sent[n].at > at[r] PROVE FALSE
    BY <1>1, <1>3
  <2>1. at[r] \in 1 .. Done(Leader)
    <3>1. sent[n].at <= Done(Leader) \/ sent[n].at <= at[Leader]
      BY <1>0, <1>3 DEF SentInv, IsPart
    <3> QED
      BY <1>0, <1>1, <1>3, <3>1, DoneType
  <2>2. PICK k \in 1 .. Len(sent) :
          /\ IsPart(k, at[r], "first")
          /\ Split(log[at[r]], sent[k].len) => \E l \in 1 .. Len(sent) : IsPart(l, at[r], "rest")
    BY <1>0, <1>1, <2>1 DEF SentInv, Complete
  <2>3. k = j
    BY <1>0, <1>4, <2>2, PartOnce
  <2>4. PICK l \in 1 .. Len(sent) : IsPart(l, at[r], "rest")
    BY <1>1, <1>4, <2>2, <2>3
  <2>5. l < n
    BY <1>1, <1>3, <2>4, InOrder, <1>0 DEF IsPart
  <2> QED
    BY <1>1, <1>5, <2>4, <2>5 DEF IsPart
<1> QED
  BY <1>2, <1>3, <1>6, SentType DEF IsPart

\* A rank takes the next broadcast: n is the one, of its call.
LEMMA TakeMail ==
    ASSUME ControlInv, DataInv, Mail, NEW r \in Ranks \ {Leader}, NEW n \in 1 .. Len(sent),
           pc[r] \in {"receive", "receive_rest"}, n = taken[r] + 1, sent[n].at = at[r],
           UNCHANGED <<sent, log, call, at>>, taken' = [taken EXCEPT ![r] = @ + 1],
           \A s \in Ranks \ {r} : Done(s)' = Done(s) /\ pc'[s] = pc[s] /\ obj'[s] = obj[s],
           \/ /\ Done(r)' = at[r] /\ pc'[r] = "idle" /\ Complete(at[r])
              /\ \A k \in 1 .. Len(sent) : k > n => sent[k].at > at[r]
           \/ /\ Done(r)' = Done(r) /\ pc'[r] = "receive_rest" /\ Half(r)'
              /\ pc[r] = "receive" /\ sent[n].part = "first"
    PROVE  Mail'
<1>0. /\ SentInv /\ TakenInv /\ Leader \in Ranks /\ pc[r] # "idle"
      /\ call[r].coll
  BY LeaderAssumption DEF Mail, ControlInv, Place
<1>1. /\ at[r] \in 1 .. Len(log) /\ call[r] = log[at[r]] /\ Done(r) = at[r] - 1
      /\ Len(log) \in Nat
  BY <1>0, CallKnown DEF ControlInv
<1>2. /\ \A k, i, part : IsPart(k, i, part)' <=> IsPart(k, i, part)
      /\ \A k, i : IsPart(k, i, "first") => ~IsPart(k, i, "rest")
  BY DEF IsPart
<1>3. \A i : Complete(i)' <=> Complete(i)
  BY <1>2 DEF Complete
<1>4. \A s \in Ranks \ {r} : Half(s)' <=> Half(s)
  BY <1>2 DEF Half
<1>5. /\ taken'[r] = n /\ \A s \in Ranks \ {r} : taken'[s] = taken[s]
      /\ taken[r] \in Nat
  BY DEF DataInv
<1>6. \A k \in 1 .. Len(sent) : sent[k].at \in Nat /\ sent[k].at \in 1 .. Len(log)
  BY <1>0, SentType DEF SentInv
<1>7. SentInv'
  <2>1. \A k : IsPart(k, at[Leader], "first")' <=> IsPart(k, at[Leader], "first")
    BY DEF IsPart
  <2>2. \A k : IsPart(k, sent[k].at, "first")' <=> IsPart(k, sent[k].at, "first")
    BY DEF IsPart
  <2>3. \A k \in 1 .. Len(sent') :
           /\ sent'[k].at \in 1 .. Len(log') /\ log'[sent'[k].at].op \in Opens
           /\ \/ sent'[k].at <= Done(Leader)'
              \/ pc'[Leader] = "bcast_rest" /\ IsPart(k, at[Leader], "first")'
    BY <1>0, <2>1 DEF SentInv
  <2>4. \A k \in 1 .. Len(sent') : sent'[k].part = "rest" =>
                \E j \in 1 .. k - 1 : /\ IsPart(j, sent[k].at, "first")'
                                      /\ Split(log'[sent'[k].at], sent'[j].len)
    BY <1>0 DEF SentInv, IsPart
  <2>5. pc'[Leader] = "bcast_rest" => Half(Leader)'
    BY <1>0, <1>4 DEF SentInv
  <2>6. \A k, l \in 1 .. Len(sent') : k < l =>
          \/ sent'[k].at < sent'[l].at
          \/ sent'[k].at = sent'[l].at /\ sent'[k].part = "first" /\ sent'[l].part = "rest"
    BY <1>0 DEF SentInv
  <2>7. Cardinality(Ranks) > 1 =>
          \A i \in 1 .. Done(Leader)' : log'[i].op \in Opens => Complete(i)'
    BY <1>0, <1>3 DEF SentInv
  <2> QED
    BY <2>3, <2>4, <2>5, <2>6, <2>7 DEF SentInv
<1>8. TakenInv'
  <2> SUFFICES ASSUME NEW s \in Ranks \ {Leader}
               PROVE  /\ \A k \in 1 .. Len(sent') :
                            k <= taken'[s] <=>
                               \/ sent'[k].at <= Done(s)'
                               \/ pc'[s] = "receive_rest" /\ IsPart(k, at[s], "first")'
                      /\ pc'[s] = "receive_rest" => Half(s)'
                      /\ \A i \in 1 .. Done(s)' : log'[i].op \in Opens => Complete(i)'
    BY DEF TakenInv
  <2>1. CASE s # r
    <3>1. \A k : IsPart(k, at[s], "first")' <=> IsPart(k, at[s], "first")
      BY DEF IsPart
    <3> QED
      BY <1>0, <1>3, <1>4, <1>5, <2>1, <3>1 DEF TakenInv
  <2>2. CASE s = r
    <3>1. \A k \in 1 .. Len(sent) : k < n =>
             sent[k].at < at[r] \/ (pc[r] = "receive_rest" /\ IsPart(k, at[r], "first"))
      BY <1>0, <1>1, <1>5, <1>6 DEF TakenInv
    <3>2. \A k \in 1 .. Len(sent) : k >= n => sent[k].at >= at[r]
      BY <1>0, <1>1, <1>5, <1>6 DEF TakenInv
    <3>3. ASSUME NEW k \in 1 .. Len(sent')
          PROVE  k <= n <=> \/ sent'[k].at <= Done(r)'
                            \/ pc'[r] = "receive_rest" /\ IsPart(k, at[r], "first")'
      <4>1. CASE k < n
        <5>1. CASE Done(r)' = at[r]
          BY <1>1, <1>6, <3>1, <4>1, <5>1 DEF IsPart
        <5>2. CASE pc[r] = "receive" /\ Done(r)' = Done(r)
          BY <1>1, <1>6, <3>1, <4>1, <5>2
        <5> QED
          BY <5>1, <5>2
      <4>2. CASE k = n
        BY <1>1, <1>6, <4>2 DEF IsPart
      <4>3. CASE k > n
        <5>1. ~(k <= n) /\ sent[k].at >= at[r]
          BY <3>2, <4>3
        <5>2. CASE /\ Done(r)' = at[r] /\ pc'[r] = "idle"
                   /\ \A l \in 1 .. Len(sent) : l > n => sent[l].at > at[r]
          BY <1>1, <1>6, <4>3, <5>1, <5>2
        <5>3. CASE Done(r)' = Done(r) /\ pc'[r] = "receive_rest" /\ sent[n].part = "first"
          <6>1. IsPart(n, at[r], "first")
            BY <5>3 DEF IsPart
          <6>2. ~IsPart(k, at[r], "first")
            BY <1>0, <4>3, <6>1, PartOnce
          <6>3. ~IsPart(k, at[r], "first")'
            BY <6>2 DEF IsPart
          <6> QED
            BY <1>1, <1>6, <5>1, <5>3, <6>3
        <5> QED
          BY <5>2, <5>3
      <4> QED
        BY <4>1, <4>2, <4>3
    <3>4. \A i \in 1 .. Done(r)' : log'[i].op \in Opens => Complete(i)'
      <4>1. ASSUME NEW i \in 1 .. Done(r)', log[i].op \in Opens PROVE Complete(i)
        <5>1. i \in 1 .. Done(r) \/ (i = at[r] /\ Complete(at[r]))
          BY <1>1
        <5> QED
          BY <1>0, <4>1, <5>1 DEF TakenInv
      <4> QED
        BY <1>3, <4>1
    <3> QED
      BY <1>5, <2>2, <3>3, <3>4
  <2> QED
    BY <2>1, <2>2
<1> QED
  BY <1>7, <1>8 DEF Mail

LEMMA ReceiveMail ==
    ASSUME TypeInv, Mail, NEW r \in Ranks, Receive(r) \/ ReceiveRest(r)
    PROVE  Mail'
<1>0. /\ ControlInv /\ DataInv /\ SentInv /\ TakenInv /\ pc[r] \in {"receive", "receive_rest"}
      /\ pc[r] # "idle" /\ Waiting(r)
  BY DEF TypeInv, Mail, Receive, ReceiveRest
<1>1. /\ call[r].op \in Opens /\ call[r].coll /\ r # Leader
      /\ pc[r] = "receive_rest" => call[r].op = "open"
  BY <1>0 DEF ControlInv, Place, Opens
<1>2. /\ at[r] \in 1 .. Len(log) /\ call[r] = log[at[r]] /\ Done(r) = at[r] - 1
      /\ Len(log) \in Nat
  BY <1>0, <1>1, CallKnown DEF ControlInv
<1>3. UNCHANGED <<call, log, at, sent>> /\ taken' = [taken EXCEPT ![r] = @ + 1]
  BY DEF Receive, ReceiveRest, program
<1>4. PICK n \in 1 .. Len(sent) : n = taken[r] + 1
  BY <1>0, SentType DEF Waiting
<1>5. \A s \in Ranks \ {r} : Done(s)' = Done(s) /\ pc'[s] = pc[s] /\ obj'[s] = obj[s]
  BY <1>0, <1>3 DEF Done, Receive, ReceiveRest, Return, Goto, ControlInv, DataInv
<1>6. \A k \in 1 .. Len(sent) : k > n =>
        sent[k].at > at[r] \/ (sent[k].at = at[r] /\ sent[n].part = "first" /\ sent[k].part = "rest")
        \/ sent[n].at # at[r]
  BY <1>0, SentType DEF SentInv
<1>7. CASE Receive(r)
  <2>1. pc[r] = "receive" /\ Incoming(r) = sent[n]
    BY <1>4, <1>7 DEF Receive, Incoming
  <2>2. IsPart(n, at[r], "first") /\ sent[n].at = at[r] /\ sent[n].part = "first"
    BY <1>0, <1>4, <2>1, IncomingFirst DEF IsPart
  <2>3. /\ obj'[r].oid = sent[n].oid /\ obj'[r].len = sent[n].len
        /\ ExpectsRest(r, sent[n].len) <=> Split(call[r], sent[n].len)
    BY <1>0, <1>7, <2>1 DEF Receive, NewObj, DataInv, ExpectsRest, Split, Header, Static
  <2>4. CASE Split(call[r], sent[n].len)
    <3>1. pc'[r] = "receive_rest"
      BY <1>0, <1>7, <2>1, <2>3, <2>4 DEF Receive, Goto, ControlInv
    <3>2. Done(r)' = Done(r)
      BY <1>0, <1>3, <3>1 DEF Done
    <3>3. Half(r)'
      BY <1>3, <2>2, <2>3, <2>4 DEF Half, IsPart
    <3> QED
      BY <1>0, <1>1, <1>3, <1>4, <1>5, <2>1, <2>2, <3>1, <3>2, <3>3, TakeMail
  <2>5. CASE ~Split(call[r], sent[n].len)
    <3>1. pc'[r] = "idle"
      BY <1>0, <1>7, <2>1, <2>3, <2>5 DEF Receive, Return, Goto, ControlInv
    <3>2. Done(r)' = at[r]
      BY <1>3, <3>1 DEF Done
    <3>3. Complete(at[r])
      BY <1>2, <2>2, <2>5 DEF Complete
    <3>4. ASSUME NEW k \in 1 .. Len(sent), k > n PROVE sent[k].at > at[r]
      <4>1. CASE sent[k].at = at[r] /\ sent[k].part = "rest"
        <5>1. PICK j \in 1 .. k - 1 : /\ IsPart(j, sent[k].at, "first")
                                      /\ Split(log[sent[k].at], sent[j].len)
          BY <1>0, <4>1 DEF SentInv
        <5>2. j = n
          BY <1>0, <2>2, <4>1, <5>1, PartOnce
        <5> QED
          BY <1>2, <2>5, <4>1, <5>1, <5>2
      <4> QED
        BY <1>6, <2>2, <3>4, <4>1
    <3> QED
      BY <1>0, <1>1, <1>3, <1>4, <1>5, <2>1, <2>2, <3>1, <3>2, <3>3, <3>4, TakeMail
  <2> QED
    BY <2>4, <2>5
<1>8. CASE ReceiveRest(r)
  <2>1. pc[r] = "receive_rest"
    BY <1>8 DEF ReceiveRest
  <2>2. IsPart(n, at[r], "rest") /\ sent[n].at = at[r] /\ sent[n].part = "rest"
    BY <1>0, <1>4, <2>1, IncomingRest DEF IsPart
  <2>3. pc'[r] = "idle"
    BY <1>0, <1>8 DEF ReceiveRest, Return, Goto, ControlInv
  <2>4. Done(r)' = at[r]
    BY <1>3, <2>3 DEF Done
  <2>5. Complete(at[r])
    BY <1>0, <1>1, <2>1, <2>2 DEF Complete, TakenInv, Half, IsPart
  <2>6. \A k \in 1 .. Len(sent) : k > n => sent[k].at > at[r]
    BY <1>6, <2>2
  <2> QED
    BY <1>0, <1>1, <1>3, <1>4, <1>5, <2>1, <2>2, <2>3, <2>4, <2>5, <2>6, TakeMail
<1> QED
  BY <1>7, <1>8

-----------------------------------------------------------------------------
\* The other steps.
LEMMA MoveMail ==
    ASSUME TypeInv, Mail, NEW r \in Ranks, UNCHANGED <<sent, taken, call, log, at>>,
           pc[r] \notin {"idle", "bcast_rest", "receive_rest"},
           NEW l \in PCs \ {"bcast_rest", "receive_rest"}, Goto(r, l),
           \A s \in Ranks \ {r} : obj'[s] = obj[s],
           l = "idle" /\ call[r].coll =>
              call[r].op \notin Opens \/ (r = Leader /\ ~(Cardinality(Ranks) > 1))
    PROVE  Mail'
<1>0. ControlInv /\ DataInv /\ Len(log) \in Nat
  BY DEF TypeInv, ControlInv
<1>1. pc'[r] = l /\ \A s \in Ranks \ {r} : pc'[s] = pc[s]
  BY <1>0 DEF Goto, ControlInv
<1>2. \A s \in Ranks \ {r} : Done(s)' = Done(s)
  BY <1>1 DEF Done
<1>3. \/ Done(r)' = Done(r)
      \/ /\ Done(r)' = Done(r) + 1 /\ Done(r)' \in 1 .. Len(log)
         /\ \/ log[Done(r)'].op \notin Opens
            \/ r = Leader /\ ~(Cardinality(Ranks) > 1)
  <2>1. CASE l # "idle"
    BY <1>1, <2>1 DEF Done
  <2>2. CASE l = "idle"
    <3>1. Done(r)' = at[r]
      BY <1>1, <2>2 DEF Done
    <3>2. CASE call[r].coll
      <4>1. /\ at[r] \in 1 .. Len(log) /\ call[r] = log[at[r]] /\ Done(r) = at[r] - 1
            /\ at[r] \in Nat
        BY <1>0, <3>2, CallKnown
      <4> QED
        BY <2>2, <3>1, <3>2, <4>1
    <3>3. CASE ~call[r].coll
      BY <1>0, <3>1, <3>3, CallKnown
    <3> QED
      BY <3>2, <3>3
  <2> QED
    BY <2>1, <2>2
<1>4. pc'[r] \notin {"bcast_rest", "receive_rest"}
  BY <1>1
<1> QED
  BY <1>0, <1>1, <1>2, <1>3, <1>4, QuietMail

LEMMA CreatingMail ==
    ASSUME TypeInv, Mail, NEW r \in Ranks,
           Create(r) \/ WriteMetadata(r) \/ link_write(r) \/ Flush(r)
    PROVE  Mail'
<1>0. ControlInv /\ DataInv
  BY DEF TypeInv
<1>1. /\ UNCHANGED <<sent, taken, call, log, at>>
      /\ pc[r] \notin {"idle", "bcast_rest", "receive_rest"} /\ call[r].op \notin Opens
  BY <1>0 DEF Create, WriteMetadata, link_write, Flush, network, program, ControlInv, Place, Opens
<1>2. \A s \in Ranks \ {r} : obj'[s] = obj[s]
  BY <1>0 DEF Create, WriteMetadata, link_write, Flush, DataInv
<1>3. PICK l \in {"idle", "metadata", "link"} : Goto(r, l)
  BY DEF Create, WriteMetadata, link_write, Flush, Return
<1>4. l \in PCs \ {"bcast_rest", "receive_rest"}
  BY DEF PCs
<1> QED
  BY <1>1, <1>2, <1>3, <1>4, MoveMail

LEMMA OpeningMail ==
    ASSUME TypeInv, Mail, NEW r \in Ranks, Open(r) \/ ReadMetadata(r) \/ FileOpen(r)
    PROVE  Mail'
<1>0. ControlInv /\ DataInv
  BY DEF TypeInv
<1>1. /\ UNCHANGED <<sent, taken, call, log, at>>
      /\ pc[r] \notin {"idle", "bcast_rest", "receive_rest"}
  BY DEF Open, ReadMetadata, FileOpen, network, program
<1>2. \A s \in Ranks \ {r} : obj'[s] = obj[s]
  BY <1>0 DEF Open, ReadMetadata, FileOpen, DataInv
<1>3. PICK l \in {"idle", "aborted", "read", "bcast"} :
        /\ Goto(r, l)
        /\ l = "idle" => \/ ReadMetadata(r) /\ ~Shares(r)
                         \/ FileOpen(r) /\ Cardinality(Ranks) = 1
  BY DEF Open, ReadMetadata, FileOpen, Return
<1>4. l \in PCs \ {"bcast_rest", "receive_rest"}
  BY DEF PCs
<1>5. l = "idle" /\ call[r].coll => r = Leader /\ ~(Cardinality(Ranks) > 1)
  <2>1. CASE l = "idle" /\ ReadMetadata(r) /\ ~Shares(r)
    BY <1>0, <2>1 DEF ReadMetadata, Shares, ControlInv, Place, Acts
  <2>2. CASE l = "idle" /\ FileOpen(r) /\ Cardinality(Ranks) = 1
    BY <1>0, <2>2 DEF FileOpen, ControlInv, Place
  <2> QED
    BY <1>3, <2>1, <2>2
<1> QED
  BY <1>1, <1>2, <1>3, <1>4, <1>5, MoveMail

LEMMA BeginMail ==
    ASSUME TypeInv, Mail, TypeInv', NEW r \in Ranks, NEW c, Begin(r, c), c \in CallSet,
           Len(log) <= Len(log'), \A i \in 1 .. Len(log) : log'[i] = log[i]
    PROVE  Mail'
<1>0. ControlInv /\ DataInv /\ Len(log') \in Nat
  BY DEF TypeInv, ControlInv
<1>1. /\ pc[r] = "idle" /\ UNCHANGED <<sent, taken>>
      /\ call' = [call EXCEPT ![r] = c] /\ obj' = [obj EXCEPT ![r] = NoObj]
      /\ at' = IF c.coll THEN [at EXCEPT ![r] = @ + 1] ELSE at
  BY DEF Begin, network
<1>2. PICK l \in {"create", "flush", "receive", "open", "file_open"} : Goto(r, l)
  BY DEF Begin
<1>3. /\ pc'[r] = l /\ call'[r] = c /\ c.coll \in BOOLEAN
      /\ at'[r] = IF c.coll THEN at[r] + 1 ELSE at[r]
      /\ \A s \in Ranks \ {r} : /\ pc'[s] = pc[s] /\ call'[s] = call[s] /\ at'[s] = at[s]
                                /\ obj'[s] = obj[s]
  BY <1>0, <1>1, <1>2 DEF Goto, ControlInv, DataInv, CallSet
<1>4. \A s \in Ranks : Done(s)' = Done(s)
  BY <1>0, <1>1, <1>3, DoneType DEF Done
<1>5. pc[r] \notin {"bcast_rest", "receive_rest"} /\ pc'[r] \notin {"bcast_rest", "receive_rest"}
  BY <1>1, <1>3
<1> QED
  BY <1>0, <1>1, <1>3, <1>4, <1>5, QuietMail

\* The calls that begin leave the log as it is, or add to it.
LEMMA BegunCall ==
    ASSUME TypeInv, NEW r \in Ranks, Follow(r) \/ Call(r)
    PROVE  /\ Len(log) <= Len(log') /\ \A i \in 1 .. Len(log) : log'[i] = log[i]
           /\ \E c \in CallSet : /\ Begin(r, c) /\ Valid(c)
                                 /\ c.coll => /\ at[r] + 1 \in 1 .. Len(log')
                                              /\ log'[at[r] + 1] = c
                                 /\ ~c.coll => ~collective
<1>0. ControlInv /\ log \in Seq(CallSet) /\ Len(log) \in Nat /\ at[r] \in 0 .. Len(log)
  BY DEF TypeInv, ControlInv
<1>1. CASE Follow(r)
  <2>1. at[r] + 1 \in 1 .. Len(log) /\ Begin(r, log[at[r] + 1]) /\ log' = log
    BY <1>0, <1>1 DEF Follow
  <2>2. Valid(log[at[r] + 1]) /\ log[at[r] + 1] \in CallSet /\ log[at[r] + 1].coll
    BY <1>0, <2>1 DEF ControlInv
  <2> QED
    BY <1>0, <2>1, <2>2
<1>2. CASE Call(r)
  <2>1. PICK c \in MayCall(r) :
          /\ c.coll => at[r] = Len(log)
          /\ Begin(r, c)
          /\ log' = IF c.coll THEN Append(log, c) ELSE log
    BY <1>2 DEF Call
  <2>2. Valid(c) /\ (~c.coll => ~collective)
    BY MayCallValid
  <2>3. c \in CallSet
    BY <2>2 DEF Valid
  <2>4. /\ Len(log) <= Len(log') /\ \A i \in 1 .. Len(log) : log'[i] = log[i]
        /\ c.coll => at[r] + 1 \in 1 .. Len(log') /\ log'[at[r] + 1] = c
    BY <1>0, <2>1, <2>3
  <2> QED
    BY <2>1, <2>2, <2>3, <2>4
<1> QED
  BY <1>1, <1>2

LEMMA InitMail == Init => Mail
<1> SUFFICES ASSUME Init PROVE Mail
  OBVIOUS
<1>1. /\ \A i : i \notin 1 .. Len(sent)
      /\ \A r \in Ranks : pc[r] = "idle" /\ Done(r) = 0
      /\ Leader \in Ranks
  BY LeaderAssumption DEF Init, All, Done
<1>2. \A i : i \notin 1 .. 0
  OBVIOUS
<1>3. SentInv
  BY <1>1, <1>2 DEF SentInv
<1>4. TakenInv
  BY <1>1, <1>2 DEF TakenInv
<1> QED
  BY <1>3, <1>4 DEF Mail

LEMMA CrashMail == Crash => Mail'
<1> SUFFICES ASSUME Crash PROVE Mail'
  OBVIOUS
<1>1. /\ \A i : i \notin 1 .. Len(sent')
      /\ \A r \in Ranks : pc'[r] = "idle" /\ Done(r)' = 0
      /\ Leader \in Ranks
  BY LeaderAssumption DEF Crash, All, Done
<1>2. \A i : i \notin 1 .. 0
  OBVIOUS
<1>3. SentInv'
  BY <1>1, <1>2 DEF SentInv
<1>4. TakenInv'
  BY <1>1, <1>2 DEF TakenInv
<1> QED
  BY <1>3, <1>4 DEF Mail

LEMMA NextMail == TypeInv /\ TypeInv' /\ Mail /\ [Next]_vars => Mail'
<1> SUFFICES ASSUME TypeInv, TypeInv', Mail, [Next]_vars PROVE Mail'
  OBVIOUS
<1>1. CASE Crash
  BY <1>1, CrashMail
<1>2. ASSUME NEW r \in Ranks, Step(r) PROVE Mail'
  BY <1>2, CreatingMail, OpeningMail, BroadcastMail, ReceiveMail DEF Step
<1>3. ASSUME NEW r \in Ranks, Follow(r) \/ Call(r) PROVE Mail'
  BY <1>3, BegunCall, BeginMail
<1>4. CASE UNCHANGED vars
  BY <1>4 DEF vars, storage, network, program, Mail, SentInv, TakenInv, IsPart, Complete, Half, Done
<1> QED
  BY <1>1, <1>2, <1>3, <1>4 DEF Next

LEMMA MailMatches == TypeInv /\ Mail => BroadcastsMatch
<1> SUFFICES ASSUME TypeInv, Mail, NEW r \in Ranks
             PROVE  /\ pc[r] \in {"receive", "receive_rest"} /\ Waiting(r) =>
                          /\ Incoming(r).at = at[r]
                          /\ Incoming(r).part = IF pc[r] = "receive" THEN "first" ELSE "rest"
                    /\ pc[r] = "idle" /\ (\A s \in Ranks \ {r} : at[s] <= at[r]) =>
                          r = Leader \/ ~Waiting(r)
  BY DEF BroadcastsMatch
<1>0. ControlInv /\ DataInv /\ SentInv /\ TakenInv /\ Leader \in Ranks
  BY LeaderAssumption DEF TypeInv, Mail
<1>1. ASSUME pc[r] \in {"receive", "receive_rest"}, Waiting(r)
      PROVE  /\ Incoming(r).at = at[r]
             /\ Incoming(r).part = IF pc[r] = "receive" THEN "first" ELSE "rest"
  BY <1>0, <1>1, IncomingFirst, IncomingRest DEF Incoming, IsPart
<1>2. ASSUME pc[r] = "idle", \A s \in Ranks \ {r} : at[s] <= at[r], r # Leader, Waiting(r)
      PROVE  FALSE
  <2>1. PICK n \in 1 .. Len(sent) : n = taken[r] + 1 /\ ~(n <= taken[r])
    <3>1. taken[r] \in Nat /\ Len(sent) \in Nat /\ taken[r] < Len(sent)
      BY <1>0, <1>2, SentType DEF Waiting
    <3>2. taken[r] + 1 \in 1 .. Len(sent) /\ ~(taken[r] + 1 <= taken[r])
      BY <3>1
    <3> QED
      BY <3>2
  <2>2. ~(sent[n].at <= at[r]) /\ sent[n].at \in Nat
    <3>1. Done(r) = at[r]
      BY <1>2 DEF Done
    <3> QED
      BY <1>0, <1>2, <2>1, <3>1, SentType DEF TakenInv
  <2>3. sent[n].at <= at[Leader]
    <3>1. sent[n].at <= Done(Leader) \/ sent[n].at = at[Leader]
      BY <1>0, <2>1 DEF SentInv, IsPart
    <3>2. Done(Leader) \in Nat /\ at[Leader] \in Nat /\ Done(Leader) <= at[Leader]
      BY <1>0, DoneType
    <3> QED
      BY <2>2, <3>1, <3>2
  <2>4. at[Leader] \in Nat /\ at[r] \in Nat /\ at[Leader] <= at[r]
    BY <1>0, <1>2, DoneType
  <2> QED
    BY <2>2, <2>3, <2>4
<1> QED
  BY <1>1, <1>2

\* Each receive takes the broadcast that was sent for it, however far the ranks are
\* apart: the first part with the first, the second with the second, of the same call;
\* and a rank that none is ahead of has left none behind.
THEOREM BroadcastsMeet == Spec => []BroadcastsMatch
<1>1. Init => TypeInv /\ Mail
  BY InitTypes, InitMail
<1>2. TypeInv /\ Mail /\ [Next]_vars => (TypeInv /\ Mail)'
  BY NextTypes, NextMail
<1> QED
  BY <1>1, <1>2, MailMatches, PTL DEF Spec

-----------------------------------------------------------------------------
(***************************************************************************)
(* The inductive invariant of the indices, in a collective file.  A rank's *)
(* max_oid is the index that the program began with and the creates it has *)
(* counted since, wherever it is: that is why the oids it makes are those  *)
(* that rank 0 stores, though only rank 0 reads and writes the index.      *)
(***************************************************************************)
\* The calls that create an object, among the first i.
Creates(i) == Cardinality({j \in 1 .. i : log[j].op = "create"})

\* The calls whose effect on its index a rank has had.
Counted(r) == IF pc[r] \in {"create", "file_open", "receive"} THEN at[r] - 1 ELSE at[r]

\* Rank 0's index is in the storage, or marked to be flushed.
Flushed ==
    Counted(Leader) > 0 /\ ~max_oid_dirty[Leader] /\ pc[Leader] # "metadata"
        => glob = max_oid[Leader]

\* b is the index that the program began with.
CountFrom(b) ==
    /\ Len(log) > 0 /\ log[1].op = "file_create" => b = 1
    /\ \A r \in Ranks : max_oid[r] = IF Counted(r) = 0 THEN 0 ELSE b + Creates(Counted(r))
    /\ \A k \in 1 .. Len(sent) :
          log[sent[k].at].op = "file_open" => sent[k].max_oid = b + Creates(sent[k].at)
    /\ Flushed
    /\ \A r \in Ranks \ {Leader} : ~max_oid_dirty[r]

CountInv == collective => \E b \in Nat : CountFrom(b)

LEMMA CreatesNone == Creates(0) = 0
<1>1. {j \in 1 .. 0 : log[j].op = "create"} = {}
  OBVIOUS
<1> QED
  BY <1>1, FS_EmptySet DEF Creates

LEMMA CreatesNext ==
    ASSUME NEW i \in Nat
    PROVE  /\ Creates(i) \in Nat
           /\ Creates(i + 1) = Creates(i) + (IF log[i + 1].op = "create" THEN 1 ELSE 0)
<1> DEFINE C(n) == {j \in 1 .. n : log[j].op = "create"}
<1>1. IsFiniteSet(C(i)) /\ i + 1 \notin C(i) /\ Cardinality(C(i)) \in Nat
  <2>1. IsFiniteSet(1 .. i) /\ C(i) \in SUBSET (1 .. i)
    BY FS_Interval
  <2> QED
    BY <2>1, FS_Subset, FS_CardinalityType
<1>2. CASE log[i + 1].op = "create"
  <2>1. C(i + 1) = C(i) \union {i + 1}
    BY <1>2
  <2> QED
    BY <1>1, <1>2, <2>1, FS_AddElement DEF Creates
<1>3. CASE log[i + 1].op # "create"
  <2>1. C(i + 1) = C(i)
    BY <1>3
  <2>2. Creates(i + 1) = Cardinality(C(i + 1)) /\ Creates(i) = Cardinality(C(i))
    BY DEF Creates
  <2>3. Creates(i + 1) = Creates(i)
    BY <2>1, <2>2
  <2> HIDE DEF C
  <2> QED
    BY <1>1, <1>3, <2>2, <2>3
<1> QED
  BY <1>2, <1>3

LEMMA CreatesAt ==
    ASSUME NEW i \in Nat \ {0}
    PROVE  /\ Creates(i - 1) \in Nat
           /\ Creates(i) = Creates(i - 1) + (IF log[i].op = "create" THEN 1 ELSE 0)
<1>1. PICK j \in Nat : i = j + 1 /\ i - 1 = j
  OBVIOUS
<1> QED
  BY <1>1, CreatesNext

LEMMA CreatesSame ==
    ASSUME NEW n \in Nat, NEW i \in 0 .. n, \A j \in 1 .. n : log'[j] = log[j]
    PROVE  Creates(i)' = Creates(i)
<1>1. {j \in 1 .. i : log'[j].op = "create"} = {j \in 1 .. i : log[j].op = "create"}
  OBVIOUS
<1> QED
  BY <1>1 DEF Creates

\* What is known of a rank in a call of a collective file.
LEMMA InCollective ==
    ASSUME ControlInv, collective, NEW r \in Ranks, pc[r] # "idle"
    PROVE  /\ call[r].coll /\ at[r] \in 1 .. Len(log) /\ call[r] = log[at[r]]
           /\ Valid(call[r]) /\ Len(log) \in Nat /\ at[r] \in Nat
           /\ pc[r] \in {"metadata", "link", "open", "read"} => r = Leader
           /\ call[r].op \in FileOps \/ at[r] > 1
<1>1. call[r].coll
  BY CallKnown
<1>2. /\ at[r] \in 1 .. Len(log) /\ call[r] = log[at[r]] /\ Len(log) \in Nat /\ Valid(call[r])
      /\ at[r] \in Nat
  BY <1>1, CallKnown DEF ControlInv
<1>3. pc[r] \in {"metadata", "link", "open", "read"} => r = Leader
  BY <1>1 DEF ControlInv, Place, Acts
<1>4. at[r] = 1 => call[r].op \in FileOps
  BY <1>2, FirstCall
<1> QED
  BY <1>1, <1>2, <1>3, <1>4

LEMMA CountedType ==
    ASSUME ControlInv, collective, NEW r \in Ranks
    PROVE  /\ Counted(r) \in 0 .. Len(log) /\ Counted(r) \in Nat
           /\ Counted(r) = 0 => at[r] = 0 \/ pc[r] \in {"create", "file_open", "receive"}
<1>1. at[r] \in 0 .. Len(log) /\ Len(log) \in Nat
  BY DoneType
<1>2. pc[r] # "idle" => at[r] \in 1 .. Len(log)
  BY InCollective
<1> QED
  BY <1>1, <1>2 DEF Counted

\* The same calls are counted, and what is broadcast of an open of the file is right.
LEMMA SameCount ==
    ASSUME NEW b, CountFrom(b), UNCHANGED <<log, max_oid>>,
           \A s \in Ranks : Counted(s)' = Counted(s),
           \A k \in 1 .. Len(sent') :
              \/ k \in 1 .. Len(sent) /\ sent'[k] = sent[k]
              \/ log[sent'[k].at].op = "file_open" => sent'[k].max_oid = b + Creates(sent'[k].at),
           Flushed', \A s \in Ranks \ {Leader} : ~max_oid_dirty'[s]
    PROVE  CountFrom(b)'
<1>1. \A i : Creates(i)' = Creates(i)
  BY DEF Creates
<1>2. \A s \in Ranks :
        max_oid'[s] = IF Counted(s)' = 0 THEN 0 ELSE b + Creates(Counted(s)')
  BY DEF CountFrom
<1>3. \A s \in Ranks : Creates(Counted(s))' = Creates(Counted(s)')
  BY DEF Creates
<1>4. \A k : Creates(sent[k].at)' = Creates(sent'[k].at)
  BY DEF Creates
<1>5. \A k \in 1 .. Len(sent') :
        log'[sent'[k].at].op = "file_open" => sent'[k].max_oid = b + Creates(sent[k].at)'
  BY <1>4 DEF CountFrom
<1> QED
  BY <1>2, <1>3, <1>5 DEF CountFrom

\* A rank moves on, or returns, and nothing of the indices changes.
LEMMA CalmCount ==
    ASSUME ControlInv, NEW b, CountFrom(b), NEW r \in Ranks,
           UNCHANGED <<log, at, max_oid, max_oid_dirty, glob>>,
           pc[r] \notin {"create", "file_open", "receive", "metadata"},
           NEW l \in PCs \ {"create", "file_open", "receive"}, Goto(r, l),
           \A k \in 1 .. Len(sent') :
              \/ k \in 1 .. Len(sent) /\ sent'[k] = sent[k]
              \/ log[sent'[k].at].op = "file_open" => sent'[k].max_oid = b + Creates(sent'[k].at)
    PROVE  CountFrom(b)'
<1>1. pc'[r] = l /\ \A s \in Ranks \ {r} : pc'[s] = pc[s]
  BY DEF Goto, ControlInv
<1>2. \A s \in Ranks : Counted(s)' = Counted(s)
  BY <1>1 DEF Counted
<1>3. Flushed'
  <2>1. Leader \in Ranks
    BY LeaderAssumption
  <2>2. Counted(Leader)' = Counted(Leader) /\ (pc'[Leader] # "metadata" => pc[Leader] # "metadata")
    BY <1>1, <1>2, <2>1
  <2> QED
    BY <2>2 DEF Flushed, CountFrom
<1>4. \A s \in Ranks \ {Leader} : ~max_oid_dirty'[s]
  BY DEF CountFrom
<1> QED
  BY <1>2, <1>3, <1>4, SameCount

LEMMA QuietCount ==
    ASSUME TypeInv, collective, NEW b, CountFrom(b), NEW r \in Ranks,
           link_write(r) \/ Open(r) \/ ReadMetadata(r) \/ ReceiveRest(r)
    PROVE  CountFrom(b)'
<1>0. ControlInv
  BY DEF TypeInv
<1>1. /\ UNCHANGED <<log, at, max_oid, max_oid_dirty, glob, sent>>
      /\ pc[r] \notin {"create", "file_open", "receive", "metadata"}
  BY DEF link_write, Open, ReadMetadata, ReceiveRest, storage, handles, network, program
<1>2. PICK l \in {"idle", "aborted", "read", "bcast"} : Goto(r, l)
  BY DEF link_write, Open, ReadMetadata, ReceiveRest, Return
<1>3. l \in PCs \ {"create", "file_open", "receive"}
  BY DEF PCs
<1> QED
  BY <1>0, <1>1, <1>2, <1>3, CalmCount

LEMMA BroadcastCount ==
    ASSUME TypeInv, collective, NEW b, CountFrom(b), NEW r \in Ranks,
           Broadcast(r) \/ BroadcastRest(r)
    PROVE  CountFrom(b)'
<1>0. ControlInv /\ DataInv /\ pc[r] # "idle"
  BY DEF TypeInv, Broadcast, BroadcastRest
<1>1. /\ UNCHANGED <<log, at, max_oid, max_oid_dirty, glob>>
      /\ pc[r] \notin {"create", "file_open", "receive", "metadata"}
  BY DEF Broadcast, BroadcastRest, storage, program
<1>2. PICK l \in {"idle", "bcast_rest"} : Goto(r, l)
  BY DEF Broadcast, BroadcastRest, Return
<1>3. l \in PCs \ {"create", "file_open", "receive"}
  BY DEF PCs
<1>4. PICK md, part : Send(Message(r, part, md))
  BY DEF Broadcast, BroadcastRest
<1> DEFINE m == Message(r, part, md)
<1>5. m.at = at[r] /\ m.max_oid = max_oid[r]
  BY DEF Message
<1> HIDE DEF m
<1>6. /\ \A k \in 1 .. Len(sent') : k \in 1 .. Len(sent) \/ sent'[k] = m
      /\ \A k \in 1 .. Len(sent) : sent'[k] = sent[k]
  BY <1>0, <1>4 DEF m, Send, DataInv
<1>7. m.max_oid = b + Creates(m.at)
  <2>1. at[r] # 0 /\ Counted(r) = at[r]
    BY <1>0, <1>1, InCollective DEF Counted
  <2> QED
    BY <1>5, <2>1 DEF CountFrom
<1> QED
  BY <1>0, <1>1, <1>2, <1>3, <1>6, <1>7, CalmCount

\* Rank 0 writes an object: from here to the next flush its index is dirty.
LEMMA WriteCount ==
    ASSUME TypeInv, collective, NEW b, CountFrom(b), NEW r \in Ranks, WriteMetadata(r)
    PROVE  CountFrom(b)'
<1>0. ControlInv /\ IndexInv /\ pc[r] = "metadata"
  BY DEF TypeInv, WriteMetadata
<1>1. r = Leader
  BY <1>0, InCollective
<1>2. /\ UNCHANGED <<log, at, max_oid, glob, sent>>
      /\ max_oid_dirty' = [max_oid_dirty EXCEPT ![r] = TRUE]
  BY DEF WriteMetadata, network, program
<1>3. PICK l \in {"idle", "link"} : Goto(r, l)
  BY DEF WriteMetadata, Return
<1>4. pc'[r] = l /\ \A s \in Ranks \ {r} : pc'[s] = pc[s]
  BY <1>0, <1>3 DEF Goto, ControlInv
<1>5. \A s \in Ranks : Counted(s)' = Counted(s)
  BY <1>0, <1>2, <1>4 DEF Counted
<1>6. max_oid_dirty'[Leader] /\ \A s \in Ranks \ {Leader} : ~max_oid_dirty'[s]
  BY <1>0, <1>1, <1>2 DEF IndexInv, CountFrom
<1>7. Flushed'
  BY <1>6 DEF Flushed
<1> QED
  BY <1>2, <1>5, <1>6, <1>7, SameCount

LEMMA FlushCount ==
    ASSUME TypeInv, collective, NEW b, CountFrom(b), NEW r \in Ranks, Flush(r)
    PROVE  CountFrom(b)'
<1>0. ControlInv /\ IndexInv /\ pc[r] = "flush" /\ Leader \in Ranks
  BY LeaderAssumption DEF TypeInv, Flush
<1>1. UNCHANGED <<log, at, max_oid, sent>> /\ Goto(r, "idle")
  BY DEF Flush, network, program, Return
<1>2. pc'[r] = "idle" /\ \A s \in Ranks \ {r} : pc'[s] = pc[s]
  BY <1>0, <1>1 DEF Goto, ControlInv
<1>3. \A s \in Ranks : Counted(s)' = Counted(s)
  BY <1>0, <1>1, <1>2 DEF Counted
<1>4. /\ \A s \in Ranks \ {Leader} : ~max_oid_dirty'[s]
      /\ r # Leader => max_oid_dirty'[Leader] = max_oid_dirty[Leader] /\ glob' = glob
  BY <1>0 DEF Flush, IndexInv, CountFrom
<1>5. Flushed'
  <2>1. CASE r # Leader
    BY <1>0, <1>1, <1>2, <1>3, <1>4, <2>1 DEF Flushed, CountFrom
  <2>2. CASE r = Leader /\ max_oid_dirty[r]
    BY <1>1, <2>2 DEF Flush, Flushed
  <2>3. CASE r = Leader /\ ~max_oid_dirty[r]
    <3>1. glob' = glob
      BY <2>3 DEF Flush
    <3> QED
      BY <1>0, <1>1, <1>3, <2>3, <3>1 DEF Flushed, CountFrom
  <2> QED
    BY <2>1, <2>2, <2>3
<1> QED
  BY <1>1, <1>3, <1>4, <1>5, SameCount

\* One rank has had the effect of the call it is in.
LEMMA OneCount ==
    ASSUME NEW b, NEW r \in Ranks, UNCHANGED <<log, sent>>,
           Len(log) > 0 /\ log[1].op = "file_create" => b = 1,
           \A s \in Ranks \ {r} :
              /\ Counted(s)' = Counted(s) /\ max_oid'[s] = max_oid[s]
              /\ max_oid[s] = IF Counted(s) = 0 THEN 0 ELSE b + Creates(Counted(s)),
           NEW i \in Nat \ {0}, Counted(r)' = i, max_oid'[r] = b + Creates(i),
           \A k \in 1 .. Len(sent) :
              log[sent[k].at].op = "file_open" => sent[k].max_oid = b + Creates(sent[k].at),
           Flushed', \A s \in Ranks \ {Leader} : ~max_oid_dirty'[s]
    PROVE  CountFrom(b)'
<1>1. \A s \in Ranks :
        max_oid'[s] = IF Counted(s)' = 0 THEN 0 ELSE b + Creates(Counted(s)')
  OBVIOUS
<1>2. \A s \in Ranks : Creates(Counted(s))' = Creates(Counted(s)')
  BY DEF Creates
<1>3. \A k : Creates(sent[k].at)' = Creates(sent'[k].at)
  BY DEF Creates
<1>4. \A k \in 1 .. Len(sent') :
        log'[sent'[k].at].op = "file_open" => sent'[k].max_oid = b + Creates(sent[k].at)'
  BY <1>3
<1> QED
  BY <1>1, <1>2, <1>4 DEF CountFrom

LEMMA CreateCount ==
    ASSUME TypeInv, collective, NEW b \in Nat, CountFrom(b), NEW r \in Ranks, Create(r)
    PROVE  CountFrom(b)'
<1>0. ControlInv /\ IndexInv /\ pc[r] = "create" /\ Leader \in Ranks
  BY LeaderAssumption DEF TypeInv, Create
<1>1. /\ UNCHANGED <<log, at, sent, glob, max_oid_dirty>>
      /\ max_oid' = [max_oid EXCEPT ![r] = BaseIndex(r) + 1]
  <2>1. /\ UNCHANGED <<log, at, sent, glob, max_oid_dirty>>
        /\ max_oid' = [max_oid EXCEPT ![r] = IF Acts(r) THEN BaseIndex(r) + 1
                                             ELSE BaseIndex(r) + 1]
    BY DEF Create, storage, network, program
  <2> QED
    BY <2>1
<1>2. /\ call[r].coll /\ at[r] \in 1 .. Len(log) /\ call[r] = log[at[r]]
      /\ Len(log) \in Nat /\ at[r] \in Nat /\ (call[r].op \in FileOps \/ at[r] > 1)
      /\ call[r].op \in {"create", "file_create"}
  BY <1>0, InCollective DEF ControlInv, Place
<1>10. at[r] \in Nat \ {0}
  BY <1>2
<1>3. PICK l \in {"metadata", "idle"} : Goto(r, l) /\ (r = Leader => l = "metadata")
  BY <1>2 DEF Create, Return, Acts
<1>4. pc'[r] = l /\ \A s \in Ranks \ {r} : pc'[s] = pc[s]
  BY <1>0, <1>3 DEF Goto, ControlInv
<1>5. /\ Counted(r) = at[r] - 1 /\ Counted(r)' = at[r]
      /\ \A s \in Ranks \ {r} : Counted(s)' = Counted(s)
  BY <1>0, <1>1, <1>4 DEF Counted
<1>6. max_oid'[r] = b + Creates(at[r])
  <2>1. CASE call[r].op = "file_create"
    <3>1. at[r] = 1 /\ b = 1 /\ log[1].op # "create"
      BY <1>0, <1>2, <2>1 DEF IndexInv, CountFrom
    <3>2. Creates(0 + 1) = 0
      BY <3>1, CreatesNone, CreatesNext
    <3>3. max_oid'[r] = 1
      BY <1>0, <1>1, <2>1 DEF BaseIndex, IndexInv
    <3> QED
      BY <3>1, <3>2, <3>3
  <2>2. CASE call[r].op = "create"
    <3>1. at[r] - 1 \in Nat \ {0}
      BY <1>2, <2>2 DEF FileOps
    <3>2. max_oid[r] = b + Creates(at[r] - 1)
      BY <1>5, <3>1 DEF CountFrom
    <3>3. Creates(at[r]) = Creates(at[r] - 1) + 1 /\ Creates(at[r] - 1) \in Nat
      BY <1>2, <1>10, <2>2, CreatesAt
    <3>5. max_oid'[r] = max_oid[r] + 1
      BY <1>0, <1>1, <2>2 DEF BaseIndex, IndexInv
    <3> QED
      BY <3>2, <3>3, <3>5
  <2> QED
    BY <1>2, <2>1, <2>2
<1>7. Flushed'
  <2>1. CASE r = Leader
    BY <1>3, <1>4, <2>1 DEF Flushed
  <2>2. CASE r # Leader
    <3>1. max_oid'[Leader] = max_oid[Leader]
      BY <1>0, <1>1, <2>2 DEF IndexInv
    <3> QED
      BY <1>0, <1>1, <1>4, <1>5, <2>2, <3>1 DEF Flushed, CountFrom
  <2> QED
    BY <2>1, <2>2
<1>8. \A s \in Ranks \ {r} : max_oid'[s] = max_oid[s]
  BY <1>0, <1>1 DEF IndexInv
<1>9. \A s \in Ranks \ {Leader} : ~max_oid_dirty'[s]
  BY <1>1 DEF CountFrom
<1>11. \A s \in Ranks \ {r} : max_oid[s] = IF Counted(s) = 0 THEN 0 ELSE b + Creates(Counted(s))
  BY DEF CountFrom
<1>12. /\ Len(log) > 0 /\ log[1].op = "file_create" => b = 1
       /\ \A k \in 1 .. Len(sent) :
             log[sent[k].at].op = "file_open" => sent[k].max_oid = b + Creates(sent[k].at)
  BY DEF CountFrom
<1>13. PICK i \in Nat \ {0} : i = at[r]
  BY <1>10
<1> QED
  BY <1>1, <1>5, <1>6, <1>7, <1>8, <1>9, <1>11, <1>12, <1>13, OneCount

\* Before rank 0 has opened the file that the program opens first, no other rank has.
LEMMA NoneCounted ==
    ASSUME TypeInv, Mail, collective, pc[Leader] = "file_open", at[Leader] = 1
    PROVE  (\A s \in Ranks \ {Leader} : Counted(s) = 0) /\ (\A k : k \notin 1 .. Len(sent))
<1>0. /\ ControlInv /\ DataInv /\ SentInv /\ TakenInv /\ Leader \in Ranks
      /\ call[Leader].op = "file_open" /\ pc[Leader] # "idle"
  BY LeaderAssumption DEF TypeInv, Mail, ControlInv, Place
<1>1. Done(Leader) = 0 /\ log[1].op = "file_open" /\ Len(log) > 0 /\ Len(log) \in Nat
  BY <1>0, InCollective DEF Done
<1>2. \A k : k \notin 1 .. Len(sent)
  <2> SUFFICES ASSUME NEW k \in 1 .. Len(sent) PROVE FALSE
    OBVIOUS
  <2>1. sent[k].at \in 1 .. Len(log) /\ (sent[k].at <= 0 \/ pc[Leader] = "bcast_rest")
    BY <1>0, <1>1 DEF SentInv
  <2> QED
    BY <1>1, <2>1
<1>3. ASSUME NEW s \in Ranks \ {Leader}, Counted(s) # 0 PROVE FALSE
  <2>1. Done(s) \in Nat /\ Counted(s) \in Nat /\ at[s] \in Nat
    BY <1>0, DoneType, CountedType
  <2>2. Done(s) >= 1
    <3>1. CASE pc[s] = "idle"
      BY <1>3, <2>1, <3>1 DEF Done, Counted
    <3>2. CASE pc[s] \in {"create", "file_open", "receive"}
      BY <1>0, <1>3, <2>1, <3>2, InCollective DEF Done, Counted
    <3>3. CASE pc[s] \notin {"idle", "create", "file_open", "receive"}
      <4>1. pc[s] \in {"flush", "receive_rest"}
        <5>1. call[s].coll /\ pc[s] \in PCs /\ Place(s)
          BY <1>0, <3>3, InCollective DEF ControlInv
        <5> QED
          BY <3>3, <5>1 DEF PCs, Place, Acts
      <4>2. call[s].op \notin FileOps
        BY <1>0, <4>1 DEF ControlInv, Place, FileOps
      <4> QED
        BY <1>0, <2>1, <3>3, <4>2, InCollective DEF Done
    <3> QED
      BY <3>1, <3>2, <3>3
  <2>3. Complete(1)
    <3>1. 1 \in 1 .. Done(s) /\ log[1].op \in Opens
      BY <1>1, <2>1, <2>2 DEF Opens
    <3> QED
      BY <1>0, <3>1 DEF TakenInv
  <2> QED
    BY <1>2, <2>3 DEF Complete
<1> QED
  BY <1>2, <1>3

LEMMA FileOpenCount ==
    ASSUME TypeInv, Mail, collective, NEW b \in Nat, CountFrom(b), NEW r \in Ranks, FileOpen(r)
    PROVE  \E a \in Nat : CountFrom(a)'
<1>0. /\ ControlInv /\ IndexInv /\ pc[r] = "file_open" /\ Leader \in Ranks
      /\ r = Leader /\ call[r].op = "file_open"
  BY LeaderAssumption DEF TypeInv, FileOpen, ControlInv, Place
<1>1. /\ UNCHANGED <<log, at, sent, glob>>
      /\ max_oid' = [max_oid EXCEPT ![r] = glob]
      /\ max_oid_dirty' = [max_oid_dirty EXCEPT ![r] = FALSE]
  BY DEF FileOpen, storage, network, program
<1>2. /\ at[r] \in 1 .. Len(log) /\ call[r] = log[at[r]] /\ Len(log) \in Nat /\ at[r] \in Nat
      /\ Done(r) = at[r] - 1 /\ ~open[r]
  BY <1>0, InCollective, CallKnown DEF FileOps
<1>3. glob \in Nat
  BY <1>0, IndexThere
<1>4. PICK l \in {"aborted", "bcast", "idle"} : Goto(r, l)
  BY DEF FileOpen, Return
<1>5. pc'[r] = l /\ \A s \in Ranks \ {r} : pc'[s] = pc[s]
  BY <1>0, <1>4 DEF Goto, ControlInv
<1>6. /\ Counted(r) = at[r] - 1 /\ Counted(r)' = at[r]
      /\ \A s \in Ranks \ {r} : Counted(s)' = Counted(s)
  BY <1>0, <1>1, <1>5 DEF Counted
<1>7. /\ max_oid'[r] = glob /\ \A s \in Ranks \ {r} : max_oid'[s] = max_oid[s]
      /\ \A s \in Ranks \ {Leader} : ~max_oid_dirty'[s]
  BY <1>0, <1>1 DEF IndexInv, CountFrom
<1>8. Flushed'
  BY <1>0, <1>1, <1>7 DEF Flushed
<1>9. at[r] \in Nat \ {0} /\ log[at[r]].op = "file_open"
  BY <1>0, <1>2
<1>10. CASE at[r] = 1
  <2>1. Creates(0 + 1) = 0
    BY <1>9, <1>10, CreatesNone, CreatesNext
  <2>2. /\ \A s \in Ranks \ {r} : max_oid[s] = IF Counted(s) = 0 THEN 0 ELSE glob + Creates(Counted(s))
        /\ \A k : k \notin 1 .. Len(sent)
    BY <1>0, <1>10, NoneCounted DEF CountFrom
  <2>3. Len(log) > 0 /\ log[1].op = "file_create" => glob = 1
    BY <1>9, <1>10
  <2>4. max_oid'[r] = glob + Creates(at[r])
    BY <1>3, <1>7, <1>10, <2>1
  <2>5. CountFrom(glob)'
    <3>1. PICK g \in Nat : g = glob
      BY <1>3
    <3>2. CountFrom(g)'
      BY <1>1, <1>6, <1>7, <1>8, <1>9, <2>2, <2>3, <2>4, <3>1, OneCount
    <3> QED
      BY <1>1, <3>1, <3>2 DEF CountFrom
  <2> QED
    BY <1>1, <1>3, <2>5
<1>11. CASE at[r] # 1
  <2>1. at[r] - 1 \in Nat \ {0}
    BY <1>2, <1>11
  <2>2. max_oid[r] = b + Creates(at[r] - 1)
    BY <1>6, <2>1 DEF CountFrom
  <2>3. Creates(at[r]) = Creates(at[r] - 1) /\ Creates(at[r] - 1) \in Nat
    BY <1>9, CreatesAt
  <2>4. glob = max_oid[r]
    BY <1>0, <1>2, <1>6, <2>1 DEF CountFrom, Flushed, IndexInv
  <2>5. max_oid'[r] = b + Creates(at[r])
    BY <1>7, <2>2, <2>3, <2>4
  <2>6. \A s \in Ranks \ {r} : max_oid[s] = IF Counted(s) = 0 THEN 0 ELSE b + Creates(Counted(s))
    BY DEF CountFrom
  <2>7. /\ Len(log) > 0 /\ log[1].op = "file_create" => b = 1
        /\ \A k \in 1 .. Len(sent) :
              log[sent[k].at].op = "file_open" => sent[k].max_oid = b + Creates(sent[k].at)
    BY DEF CountFrom
  <2>8. PICK i \in Nat \ {0} : i = at[r]
    BY <1>9
  <2>9. CountFrom(b)'
    BY <1>1, <1>6, <1>7, <1>8, <2>5, <2>6, <2>7, <2>8, OneCount
  <2> QED
    BY <2>9
<1> QED
  BY <1>10, <1>11

LEMMA ReceiveCount ==
    ASSUME TypeInv, Mail, collective, NEW b \in Nat, CountFrom(b), NEW r \in Ranks, Receive(r)
    PROVE  CountFrom(b)'
<1>0. /\ ControlInv /\ IndexInv /\ DataInv /\ pc[r] = "receive" /\ Waiting(r) /\ Leader \in Ranks
      /\ r # Leader /\ call[r].op \in Opens
  BY LeaderAssumption DEF TypeInv, Receive, ControlInv, Place
<1>1. UNCHANGED <<log, at, sent, glob>>
  BY DEF Receive, storage, program
<1>2. /\ at[r] \in 1 .. Len(log) /\ call[r] = log[at[r]] /\ Len(log) \in Nat /\ at[r] \in Nat
      /\ (call[r].op \in FileOps \/ at[r] > 1)
  BY <1>0, InCollective
<1>3. PICK l \in {"receive_rest", "idle"} : Goto(r, l)
  BY DEF Receive, Return
<1>4. pc'[r] = l /\ \A s \in Ranks \ {r} : pc'[s] = pc[s]
  BY <1>0, <1>3 DEF Goto, ControlInv
<1>5. /\ Counted(r) = at[r] - 1 /\ Counted(r)' = at[r]
      /\ \A s \in Ranks \ {r} : Counted(s)' = Counted(s)
  BY <1>0, <1>1, <1>4 DEF Counted
<1>6. PICK n \in 1 .. Len(sent) : n = taken[r] + 1
  BY <1>0, SentType DEF Waiting
<1>7. Incoming(r) = sent[n] /\ sent[n].at = at[r]
  BY <1>0, <1>6, IncomingFirst DEF Incoming, IsPart
<1>8. /\ \A s \in Ranks \ {r} : max_oid'[s] = max_oid[s] /\ max_oid_dirty'[s] = max_oid_dirty[s]
      /\ IF call[r].op = "file_open"
         THEN max_oid'[r] = sent[n].max_oid /\ ~max_oid_dirty'[r]
         ELSE max_oid'[r] = max_oid[r] /\ max_oid_dirty'[r] = max_oid_dirty[r]
  BY <1>0, <1>7 DEF Receive, IndexInv
<1>9. max_oid'[r] = b + Creates(at[r])
  <2>1. CASE call[r].op = "file_open"
    BY <1>2, <1>7, <1>8, <2>1 DEF CountFrom
  <2>2. CASE call[r].op # "file_open"
    <3>1. at[r] - 1 \in Nat \ {0} /\ log[at[r]].op # "create"
      BY <1>0, <1>2, <2>2 DEF FileOps, Opens
    <3>2. max_oid[r] = b + Creates(at[r] - 1)
      BY <1>5, <3>1 DEF CountFrom
    <3>3. Creates(at[r]) = Creates(at[r] - 1) /\ Creates(at[r] - 1) \in Nat
      <4>1. at[r] \in Nat \ {0}
        BY <1>2
      <4> QED
        BY <3>1, <4>1, CreatesAt
    <3> QED
      BY <1>8, <2>2, <3>2, <3>3
  <2> QED
    BY <2>1, <2>2
<1>10. Flushed' /\ \A s \in Ranks \ {Leader} : ~max_oid_dirty'[s]
  <2>1. /\ Counted(Leader)' = Counted(Leader) /\ max_oid'[Leader] = max_oid[Leader]
        /\ max_oid_dirty'[Leader] = max_oid_dirty[Leader] /\ pc'[Leader] = pc[Leader]
    BY <1>0, <1>4, <1>5, <1>8
  <2> QED
    BY <1>0, <1>1, <1>8, <2>1 DEF Flushed, CountFrom
<1>11. at[r] \in Nat \ {0}
  BY <1>2
<1> QED
  BY <1>1, <1>5, <1>8, <1>9, <1>10, <1>11, OneCount DEF CountFrom

\* A rank begins a call; with the first one of the program the base is settled.
LEMMA BeginCount ==
    ASSUME TypeInv, TypeInv', Mail, collective, NEW b \in Nat, CountFrom(b), NEW r \in Ranks,
           Follow(r) \/ Call(r)
    PROVE  \E a \in Nat : CountFrom(a)'
<1>0. /\ ControlInv /\ ControlInv' /\ IndexInv /\ SentInv /\ Leader \in Ranks
      /\ Len(log) \in Nat /\ Len(log') \in Nat
  BY LeaderAssumption DEF TypeInv, ControlInv, Mail
<1>1. Len(log) <= Len(log') /\ \A i \in 1 .. Len(log) : log'[i] = log[i]
  BY BegunCall
<1>2. PICK c \in CallSet : /\ Begin(r, c) /\ Valid(c)
                           /\ c.coll => at[r] + 1 \in 1 .. Len(log') /\ log'[at[r] + 1] = c
                           /\ ~c.coll => ~collective
  BY BegunCall
<1>3. /\ UNCHANGED <<max_oid, max_oid_dirty, glob, sent>> /\ pc[r] = "idle"
      /\ at' = [at EXCEPT ![r] = @ + 1]
  BY <1>2 DEF Begin, handles, storage, network
<1>4. /\ at[r] \in Nat /\ at'[r] = at[r] + 1 /\ \A s \in Ranks \ {r} : at'[s] = at[s]
      /\ at[r] + 1 \in 1 .. Len(log') /\ log'[at[r] + 1] = c
  BY <1>0, <1>2, <1>3, DoneType DEF ControlInv
<1>5. PICK l \in {"create", "flush", "receive", "open", "file_open"} :
        Goto(r, l) /\ (l \in {"flush", "open"} => c.op \notin FileOps \union {"create"})
  BY <1>2 DEF Begin, Valid, CallSet, Opens, FileOps
<1>6. pc'[r] = l /\ \A s \in Ranks \ {r} : pc'[s] = pc[s]
  BY <1>0, <1>5 DEF Goto, ControlInv
<1>7. Counted(r) = at[r] /\ \A s \in Ranks \ {r} : Counted(s)' = Counted(s)
  BY <1>3, <1>4, <1>6 DEF Counted
<1>8. log'[1].op \in FileOps /\ Len(log') > 0
  <2>1. 1 \in 1 .. Len(log') /\ 1 - 1 = 0
    BY <1>0, <1>4
  <2>2. ~OpenAfter(1 - 1)'
    BY <2>1 DEF OpenAfter
  <2> QED
    BY <1>0, <2>1, <2>2 DEF ControlInv
<1>9. /\ pc'[Leader] = "metadata" <=> pc[Leader] = "metadata"
      /\ \A s \in Ranks \ {Leader} : ~max_oid_dirty'[s]
  BY <1>0, <1>3, <1>5, <1>6 DEF CountFrom
<1>10. \A i \in 0 .. Len(log) : Creates(i)' = Creates(i)
  BY <1>0, <1>1, CreatesSame
<1>11. \A s \in Ranks : Counted(s) \in 0 .. Len(log)
  BY <1>0, CountedType
<1>12. CASE Len(log) = 0
  <2>1. \A k : k \notin 1 .. Len(sent)
    BY <1>0, <1>12 DEF SentInv
  <2>2. at[r] = 0
    BY <1>0, <1>12, DoneType
  <2>3. l \notin {"flush", "open"}
    BY <1>4, <1>5, <1>8, <2>2
  <2>4. Counted(r)' = 0
    BY <1>4, <1>5, <1>6, <2>2, <2>3 DEF Counted
  <2>5. \A s \in Ranks : Counted(s)' = 0 /\ max_oid'[s] = 0
    BY <1>3, <1>7, <1>11, <1>12, <2>4 DEF CountFrom
  <2>6. CountFrom(1)'
    BY <1>0, <1>3, <1>9, <2>1, <2>5 DEF CountFrom, Flushed
  <2> QED
    BY <2>6
<1>13. CASE Len(log) > 0
  <2>1. 1 \in 1 .. Len(log) /\ log'[1] = log[1]
    BY <1>0, <1>1, <1>13
  <2>2. CASE l \in {"create", "receive", "file_open"}
    <3>1. \A s \in Ranks : Counted(s)' = Counted(s)
      BY <1>4, <1>6, <1>7, <2>2 DEF Counted
    <3>2. \A s \in Ranks :
            max_oid'[s] = IF Counted(s)' = 0 THEN 0 ELSE b + Creates(Counted(s))'
      <4> SUFFICES ASSUME NEW s \in Ranks
                   PROVE  max_oid'[s] = IF Counted(s)' = 0 THEN 0 ELSE b + Creates(Counted(s))'
        OBVIOUS
      <4>1. PICK i \in 0 .. Len(log) : i = Counted(s) /\ Counted(s)' = i
        BY <1>11, <3>1
      <4>2. Creates(Counted(s))' = Creates(i)'
        BY <4>1 DEF Creates
      <4>3. max_oid[s] = IF i = 0 THEN 0 ELSE b + Creates(i)
        BY <4>1 DEF CountFrom
      <4> QED
        BY <1>3, <1>10, <4>1, <4>2, <4>3
    <3>3. ASSUME NEW k \in 1 .. Len(sent), log'[sent[k].at].op = "file_open"
          PROVE  sent[k].max_oid = b + Creates(sent[k].at)'
      <4>1. PICK i \in 1 .. Len(log) : i = sent[k].at
        BY <1>0 DEF SentInv
      <4>2. Creates(sent[k].at)' = Creates(i)'
        BY <1>3, <4>1 DEF Creates
      <4> QED
        BY <1>0, <1>1, <1>10, <3>3, <4>1, <4>2 DEF CountFrom
    <3>4. Flushed'
      BY <1>0, <1>3, <1>9, <3>1 DEF Flushed, CountFrom
    <3>5. CountFrom(b)'
      BY <1>3, <1>9, <2>1, <1>13, <3>2, <3>3, <3>4 DEF CountFrom
    <3> QED
      BY <3>5
  <2>3. CASE l \in {"flush", "open"}
    <3>1. Counted(r)' = at[r] + 1 /\ at[r] \in Nat \ {0}
      BY <1>4, <1>5, <1>6, <1>8, <2>3 DEF Counted
    <3>2. PICK i \in Nat \ {0} : i = at[r] + 1
      BY <1>4
    <3>3. Creates(i)' = Creates(i - 1)
      <4>1. {j \in 1 .. i : log'[j].op = "create"} = {j \in 1 .. i - 1 : log[j].op = "create"}
        <5>1. i - 1 \in 0 .. Len(log) /\ i - 1 = at[r]
          BY <1>0, <1>4, <3>2, DoneType
        <5>2. log'[i].op # "create"
          BY <1>4, <1>5, <2>3, <3>2
        <5>3. \A j \in 1 .. i - 1 : log'[j] = log[j]
          BY <1>0, <1>1, <5>1
        <5> QED
          BY <5>2, <5>3
      <4> QED
        BY <4>1 DEF Creates
    <3>4. max_oid[r] = b + Creates(i - 1)
      <4>1. PICK j \in Nat : j = at[r] /\ j = i - 1 /\ j # 0
        BY <3>1, <3>2
      <4> QED
        BY <1>7, <4>1 DEF CountFrom
    <3>5. \A s \in Ranks :
            max_oid'[s] = IF Counted(s)' = 0 THEN 0 ELSE b + Creates(Counted(s))'
      <4> SUFFICES ASSUME NEW s \in Ranks
                   PROVE  max_oid'[s] = IF Counted(s)' = 0 THEN 0 ELSE b + Creates(Counted(s))'
        OBVIOUS
      <4>1. CASE s # r
        <5>1. PICK j \in 0 .. Len(log) : j = Counted(s) /\ Counted(s)' = j
          BY <1>7, <1>11, <4>1
        <5>2. Creates(Counted(s))' = Creates(j)'
          BY <5>1 DEF Creates
        <5>3. max_oid[s] = IF j = 0 THEN 0 ELSE b + Creates(j)
          BY <5>1 DEF CountFrom
        <5> QED
          BY <1>3, <1>10, <5>1, <5>2, <5>3
      <4>2. CASE s = r
        <5>1. Counted(r)' = i
          BY <3>1, <3>2
        <5>2. Creates(Counted(r))' = Creates(i)'
          BY <5>1 DEF Creates
        <5> QED
          BY <1>3, <3>3, <3>4, <4>2, <5>1, <5>2
      <4> QED
        BY <4>1, <4>2
    <3>6. ASSUME NEW k \in 1 .. Len(sent), log'[sent[k].at].op = "file_open"
          PROVE  sent[k].max_oid = b + Creates(sent[k].at)'
      <4>1. PICK j \in 1 .. Len(log) : j = sent[k].at
        BY <1>0 DEF SentInv
      <4>2. Creates(sent[k].at)' = Creates(j)'
        BY <1>3, <4>1 DEF Creates
      <4> QED
        BY <1>0, <1>1, <1>10, <3>6, <4>1, <4>2 DEF CountFrom
    <3>7. Flushed'
      <4>1. r = Leader => Counted(Leader) > 0
        BY <1>7, <3>1
      <4>2. r # Leader => Counted(Leader)' = Counted(Leader)
        BY <1>0, <1>7
      <4> QED
        BY <1>0, <1>3, <1>9, <4>1, <4>2 DEF Flushed, CountFrom
    <3>8. CountFrom(b)'
      BY <1>3, <1>9, <2>1, <1>13, <3>5, <3>6, <3>7 DEF CountFrom
    <3> QED
      BY <3>8
  <2> QED
    BY <1>5, <2>2, <2>3
<1> QED
  BY <1>0, <1>12, <1>13

LEMMA InitCount == Init => CountInv
<1> SUFFICES ASSUME Init PROVE CountFrom(1)
  BY DEF CountInv
<1>1. /\ \A i : i \notin 1 .. Len(sent)
      /\ \A r \in Ranks : Counted(r) = 0 /\ max_oid[r] = 0 /\ ~max_oid_dirty[r]
      /\ Leader \in Ranks
  BY LeaderAssumption DEF Init, All, Counted
<1> QED
  BY <1>1 DEF CountFrom, Flushed

LEMMA CrashCount == Crash => CountInv'
<1> SUFFICES ASSUME Crash PROVE CountFrom(1)'
  BY DEF CountInv
<1>1. /\ \A i : i \notin 1 .. Len(sent')
      /\ \A r \in Ranks : Counted(r)' = 0 /\ max_oid'[r] = 0 /\ ~max_oid_dirty'[r]
      /\ Leader \in Ranks /\ ~(Len(log') > 0)
  BY LeaderAssumption DEF Crash, All, Counted
<1> QED
  BY <1>1 DEF CountFrom, Flushed

LEMMA FileKept ==
    ASSUME [Next]_vars PROVE Crash \/ collective' = collective
  BY DEF Next, Step, vars, Create, WriteMetadata, link_write, Open, ReadMetadata, FileOpen,
     Broadcast, BroadcastRest, Receive, ReceiveRest, Flush, Follow, Call, Begin, program

LEMMA NextCount == TypeInv /\ TypeInv' /\ Mail /\ CountInv /\ [Next]_vars => CountInv'
<1> SUFFICES ASSUME TypeInv, TypeInv', Mail, CountInv, [Next]_vars, collective'
             PROVE  \E a \in Nat : CountFrom(a)'
  BY DEF CountInv
<1>1. CASE Crash
  BY <1>1, CrashCount DEF CountInv
<1>2. CASE ~Crash
  <2>1. collective
    <3>1. collective' = collective
      BY <1>2, FileKept
    <3> QED
      BY <3>1
  <2>2. PICK b \in Nat : CountFrom(b)
    BY <2>1 DEF CountInv
  <2>3. ASSUME NEW r \in Ranks, Step(r) PROVE \E a \in Nat : CountFrom(a)'
    BY <2>1, <2>2, <2>3, CreateCount, WriteCount, QuietCount, FileOpenCount, BroadcastCount,
       ReceiveCount, FlushCount DEF Step
  <2>4. ASSUME NEW r \in Ranks, Follow(r) \/ Call(r) PROVE \E a \in Nat : CountFrom(a)'
    BY <2>1, <2>2, <2>4, BeginCount
  <2>5. CASE UNCHANGED vars
    <3>1. CountFrom(b)'
      <4>1. \A s \in Ranks : Counted(s)' = Counted(s)
        BY <2>5 DEF vars, program, Counted
      <4>2. Flushed' /\ \A s \in Ranks \ {Leader} : ~max_oid_dirty'[s]
        BY <2>2, <2>5 DEF vars, storage, handles, program, Flushed, Counted, CountFrom
      <4>3. UNCHANGED <<log, max_oid, sent>>
        BY <2>5 DEF vars, handles, program, network
      <4> QED
        BY <2>2, <4>1, <4>2, <4>3, SameCount
    <3> QED
      BY <3>1
  <2> QED
    BY <1>2, <2>3, <2>4, <2>5 DEF Next
<1> QED
  BY <1>1, <1>2

LEMMA CountsAgree == CountInv => CountersAgree
<1> SUFFICES ASSUME CountInv, collective, NEW r \in Ranks, NEW s \in Ranks, Together(r, s)
             PROVE  max_oid[r] = max_oid[s]
  BY DEF CountersAgree
<1>1. PICK b \in Nat : CountFrom(b)
  BY DEF CountInv
<1>2. Counted(r) = Counted(s)
  BY DEF Together, Counted
<1> QED
  BY <1>1, <1>2 DEF CountFrom

\* In a collective file the ranks' copies of max_oid never drift apart, over any number
\* of creates, flushes, opens and crashes: each counts the same calls from an index that
\* rank 0 found in the storage, and had flushed if it had changed it.
THEOREM CountersKept == Spec => []CountersAgree
<1>1. Init => TypeInv /\ Mail /\ CountInv
  BY InitTypes, InitMail, InitCount
<1>2. TypeInv /\ Mail /\ CountInv /\ [Next]_vars => (TypeInv /\ Mail /\ CountInv)'
  BY NextTypes, NextMail, NextCount
<1> QED
  BY <1>1, <1>2, CountsAgree, PTL DEF Spec

-----------------------------------------------------------------------------
(***************************************************************************)
(* What a collective call leaves a rank with: what it made from its own    *)
(* index, nothing, or what was broadcast of the call.                      *)
(***************************************************************************)
Told(r, i) ==
    \E k \in 1 .. Len(sent) :
        /\ IsPart(k, i, "first")
        /\ obj[r].oid = sent[k].oid
        /\ IF Split(log[i], sent[k].len)
           THEN \E l \in 1 .. Len(sent) : IsPart(l, i, "rest") /\ obj[r].md = sent[l].md
           ELSE obj[r].md = sent[k].md

HasMade(r, c) == obj[r].oid = Oid(Kind(c.path), max_oid[r]) /\ obj[r].md = c.path

Outcome(r) ==
    /\ pc[r] = "idle" /\ at[r] = 0 => obj[r] = NoObj
    /\ pc[r] = "idle" /\ at[r] > 0 =>
          /\ log[at[r]].op \in {"create", "file_create"} => HasMade(r, log[at[r]])
          /\ log[at[r]].op \in {"flush", "close"} => obj[r] = NoObj
          /\ log[at[r]].op \in Opens /\ Cardinality(Ranks) > 1 => Told(r, at[r])
    /\ pc[r] \in {"metadata", "link"} => HasMade(r, call[r])
    /\ pc[r] = "flush" => obj[r] = NoObj

OutcomeInv == collective => \A r \in Ranks : Outcome(r)

\* What other ranks do leaves it.
LEMMA OtherOutcome ==
    ASSUME ControlInv, DataInv, NEW s \in Ranks, Outcome(s),
           pc'[s] = pc[s], at'[s] = at[s], call'[s] = call[s], obj'[s] = obj[s],
           max_oid'[s] = max_oid[s],
           Len(sent) <= Len(sent'), Len(sent') \in Nat,
           \A k \in 1 .. Len(sent) : sent'[k] = sent[k],
           \A i \in 1 .. Len(log) : log'[i] = log[i]
    PROVE  Outcome(s)'
<1>1. at[s] \in 0 .. Len(log) /\ Len(log) \in Nat /\ at[s] \in Nat /\ Len(sent) \in Nat
  BY DoneType, SentType
<1>2. at[s] > 0 => log'[at'[s]] = log[at[s]]
  BY <1>1
<1>3. ASSUME at[s] > 0, Told(s, at[s]) PROVE Told(s, at[s])'
  <2>1. PICK k \in 1 .. Len(sent) :
          /\ IsPart(k, at[s], "first")
          /\ obj[s].oid = sent[k].oid
          /\ IF Split(log[at[s]], sent[k].len)
             THEN \E l \in 1 .. Len(sent) : IsPart(l, at[s], "rest") /\ obj[s].md = sent[l].md
             ELSE obj[s].md = sent[k].md
    BY <1>3 DEF Told
  <2>2. \A l, part : IsPart(l, at[s], part) => IsPart(l, at[s], part)' /\ sent'[l] = sent[l]
    BY <1>1 DEF IsPart
  <2>3. \A l : l \in 1 .. Len(sent) => l \in 1 .. Len(sent')
    BY <1>1
  <2>4. CASE Split(log[at[s]], sent[k].len)
    <3>1. PICK l \in 1 .. Len(sent) : IsPart(l, at[s], "rest") /\ obj[s].md = sent[l].md
      BY <2>1, <2>4
    <3> QED
      BY <1>2, <1>3, <2>1, <2>2, <2>3, <2>4, <3>1 DEF Told
  <2>5. CASE ~Split(log[at[s]], sent[k].len)
    BY <1>2, <1>3, <2>1, <2>2, <2>3, <2>5 DEF Told
  <2> QED
    BY <2>4, <2>5
<1> QED
  BY <1>1, <1>2, <1>3 DEF Outcome, HasMade

\* Rank r is in a call of a collective file and moves on, or comes back.
LEMMA MoveOutcome ==
    ASSUME TypeInv, TypeInv', collective, \A s \in Ranks : Outcome(s), NEW r \in Ranks,
           pc[r] # "idle", NEW l, Goto(r, l), UNCHANGED <<call, log, at>>,
           \A s \in Ranks \ {r} : obj'[s] = obj[s] /\ max_oid'[s] = max_oid[s],
           Len(sent) <= Len(sent'), \A k \in 1 .. Len(sent) : sent'[k] = sent[k],
           l # "flush", l \in {"metadata", "link"} => HasMade(r, call[r])',
           l = "idle" =>
              /\ call[r].op \in {"create", "file_create"} => HasMade(r, call[r])'
              /\ call[r].op \in {"flush", "close"} => obj'[r] = NoObj
              /\ call[r].op \in Opens /\ Cardinality(Ranks) > 1 => Told(r, at[r])'
    PROVE  \A s \in Ranks : Outcome(s)'
<1>0. ControlInv /\ DataInv /\ DataInv' /\ Len(sent') \in Nat
  BY SentType DEF TypeInv, DataInv
<1>1. pc'[r] = l /\ \A s \in Ranks \ {r} : pc'[s] = pc[s]
  BY <1>0 DEF Goto, ControlInv
<1>2. \A s \in Ranks \ {r} : Outcome(s)'
  BY <1>0, <1>1, OtherOutcome
<1>3. at[r] > 0 /\ call[r] = log[at[r]] /\ at[r] \in Nat
  BY <1>0, InCollective
<1>4. HasMade(r, call[r])' => HasMade(r, log[at[r]])'
  BY <1>3 DEF HasMade
<1>5. Outcome(r)'
  BY <1>1, <1>3, <1>4 DEF Outcome
<1> QED
  BY <1>2, <1>5

LEMMA CreateOutcome ==
    ASSUME TypeInv, TypeInv', collective, \A s \in Ranks : Outcome(s), NEW r \in Ranks, Create(r)
    PROVE  \A s \in Ranks : Outcome(s)'
<1>0. ControlInv /\ DataInv /\ IndexInv /\ pc[r] = "create"
  BY DEF TypeInv, Create
<1>1. UNCHANGED <<call, log, at, sent>>
  BY DEF Create, program, network
<1>2. PICK l \in {"idle", "metadata"} : Goto(r, l)
  BY DEF Create, Return
<1>3. /\ \A s \in Ranks \ {r} : obj'[s] = obj[s] /\ max_oid'[s] = max_oid[s]
      /\ max_oid'[r] = BaseIndex(r) + 1
      /\ obj'[r] = NewObj(Oid(Kind(call[r].path), BaseIndex(r) + 1), call[r].path,
                          call[r].len, TargetGroup(r))
  BY <1>0 DEF Create, DataInv, IndexInv
<1>4. HasMade(r, call[r])'
  BY <1>1, <1>3 DEF HasMade, NewObj
<1>5. call[r].op \in {"create", "file_create"}
  BY <1>0 DEF ControlInv, Place
<1>6. Len(sent) \in Nat /\ Len(sent) <= Len(sent')
  BY <1>0, <1>1, SentType
<1> QED
  BY <1>0, <1>1, <1>2, <1>3, <1>4, <1>5, <1>6, MoveOutcome DEF Opens

LEMMA WriteOutcome ==
    ASSUME TypeInv, TypeInv', collective, \A s \in Ranks : Outcome(s), NEW r \in Ranks,
           WriteMetadata(r) \/ link_write(r)
    PROVE  \A s \in Ranks : Outcome(s)'
<1>0. ControlInv /\ DataInv /\ pc[r] \in {"metadata", "link"}
  BY DEF TypeInv, WriteMetadata, link_write
<1>1. UNCHANGED <<call, log, at, sent, obj, max_oid>>
  BY DEF WriteMetadata, link_write, program, network
<1>2. PICK l \in {"idle", "link"} : Goto(r, l)
  BY DEF WriteMetadata, link_write, Return
<1>3. HasMade(r, call[r])'
  BY <1>0, <1>1 DEF Outcome, HasMade
<1>4. call[r].op \in {"create", "file_create"}
  BY <1>0 DEF ControlInv, Place
<1>5. Len(sent) \in Nat /\ Len(sent) <= Len(sent')
  BY <1>0, <1>1, SentType
<1> QED
  BY <1>0, <1>1, <1>2, <1>3, <1>4, <1>5, MoveOutcome DEF Opens

LEMMA FlushOutcome ==
    ASSUME TypeInv, TypeInv', collective, \A s \in Ranks : Outcome(s), NEW r \in Ranks, Flush(r)
    PROVE  \A s \in Ranks : Outcome(s)'
<1>0. ControlInv /\ DataInv /\ pc[r] = "flush"
  BY DEF TypeInv, Flush
<1>1. UNCHANGED <<call, log, at, sent, obj, max_oid>> /\ Goto(r, "idle")
  BY DEF Flush, program, network, Return
<1>2. call[r].op \in {"flush", "close"} /\ obj'[r] = NoObj
  BY <1>0, <1>1 DEF ControlInv, Place, Outcome
<1>3. Len(sent) \in Nat /\ Len(sent) <= Len(sent')
  BY <1>0, <1>1, SentType
<1> QED
  BY <1>0, <1>1, <1>2, <1>3, MoveOutcome DEF Opens

LEMMA OpenOutcome ==
    ASSUME TypeInv, TypeInv', collective, \A s \in Ranks : Outcome(s), NEW r \in Ranks,
           Open(r) \/ ReadMetadata(r) \/ FileOpen(r)
    PROVE  \A s \in Ranks : Outcome(s)'
<1>0. ControlInv /\ DataInv /\ IndexInv /\ pc[r] \in {"open", "read", "file_open"}
  BY DEF TypeInv, Open, ReadMetadata, FileOpen
<1>1. UNCHANGED <<call, log, at, sent>>
  BY DEF Open, ReadMetadata, FileOpen, program, network
<1>2. \A s \in Ranks \ {r} : obj'[s] = obj[s] /\ max_oid'[s] = max_oid[s]
  BY <1>0 DEF Open, ReadMetadata, FileOpen, handles, DataInv, IndexInv
<1>3. PICK l \in {"idle", "aborted", "read", "bcast"} :
        Goto(r, l) /\ (l = "idle" => ~(Cardinality(Ranks) > 1))
  <2>1. call[r].coll
    BY <1>0, InCollective
  <2> QED
    BY <2>1 DEF Open, ReadMetadata, FileOpen, Return, Shares
<1>4. call[r].op \in Opens
  BY <1>0 DEF ControlInv, Place, Opens
<1>5. Len(sent) \in Nat /\ Len(sent) <= Len(sent')
  BY <1>0, <1>1, SentType
<1> QED
  BY <1>0, <1>1, <1>2, <1>3, <1>4, <1>5, MoveOutcome DEF Opens

LEMMA BroadcastOutcome ==
    ASSUME TypeInv, TypeInv', Mail, collective, \A s \in Ranks : Outcome(s), NEW r \in Ranks,
           Broadcast(r) \/ BroadcastRest(r)
    PROVE  \A s \in Ranks : Outcome(s)'
<1>0. ControlInv /\ DataInv /\ SentInv /\ pc[r] \in {"bcast", "bcast_rest"} /\ r = Leader
  BY DEF TypeInv, Mail, Broadcast, BroadcastRest, ControlInv, Place
<1>1. UNCHANGED <<call, log, at, obj, max_oid>>
  BY DEF Broadcast, BroadcastRest, program
<1>2. call[r].op \in Opens /\ call[r] = log[at[r]]
  BY <1>0, InCollective DEF ControlInv, Place, Opens
<1>3. PICK l, md, part :
        /\ l \in {"idle", "bcast_rest"} /\ Goto(r, l) /\ Send(Message(r, part, md))
        /\ \/ /\ pc[r] = "bcast" /\ part = "first"
              /\ l = "idle" => ~SendsRest(r) /\ md = obj[r].md
           \/ pc[r] = "bcast_rest" /\ part = "rest" /\ md = obj[r].md
  BY <1>0 DEF Broadcast, BroadcastRest, Return
<1> DEFINE m == Message(r, part, md)
<1>4. /\ m.at = at[r] /\ m.part = part /\ m.oid = obj[r].oid /\ m.len = obj[r].len
      /\ m.md = md
  BY DEF Message
<1> HIDE DEF m
<1>5. /\ Len(sent') = Len(sent) + 1 /\ sent'[Len(sent) + 1] = m
      /\ \A k \in 1 .. Len(sent) : sent'[k] = sent[k] /\ k \in 1 .. Len(sent')
      /\ Len(sent) \in Nat /\ Len(sent) + 1 \in 1 .. Len(sent') /\ Len(sent) <= Len(sent')
  BY <1>0, <1>3, SentType DEF m, Send, DataInv
<1>6. l = "idle" => Told(r, at[r])'
  <2>1. CASE l = "idle" /\ pc[r] = "bcast" /\ part = "first"
    <3>1. ~Split(call[r], obj[r].len)
      BY <1>3, <2>1 DEF SendsRest, Split, Header, Static
    <3> QED
      BY <1>1, <1>2, <1>3, <1>4, <1>5, <2>1, <3>1 DEF Told, IsPart
  <2>2. CASE pc[r] = "bcast_rest" /\ part = "rest"
    <3>1. PICK k \in 1 .. Len(sent) :
            /\ IsPart(k, at[r], "first") /\ Split(call[r], sent[k].len)
            /\ sent[k].oid = obj[r].oid
      BY <1>0, <2>2 DEF SentInv, Half
    <3> QED
      BY <1>1, <1>2, <1>3, <1>4, <1>5, <2>2, <3>1 DEF Told, IsPart
  <2> QED
    BY <1>3, <2>1, <2>2
<1>7. call[r].op \notin {"create", "file_create", "flush", "close"}
  BY <1>2 DEF Opens
<1> QED
  BY <1>0, <1>1, <1>3, <1>5, <1>6, <1>7, MoveOutcome

LEMMA ReceiveOutcome ==
    ASSUME TypeInv, TypeInv', Mail, collective, \A s \in Ranks : Outcome(s), NEW r \in Ranks,
           Receive(r) \/ ReceiveRest(r)
    PROVE  \A s \in Ranks : Outcome(s)'
<1>0. /\ ControlInv /\ DataInv /\ IndexInv /\ SentInv /\ TakenInv /\ r # Leader
      /\ pc[r] \in {"receive", "receive_rest"} /\ Waiting(r)
  BY DEF TypeInv, Mail, Receive, ReceiveRest, ControlInv, Place
<1>1. UNCHANGED <<call, log, at, sent>>
  BY DEF Receive, ReceiveRest, program
<1>2. call[r].op \in Opens /\ call[r] = log[at[r]]
  BY <1>0, InCollective DEF ControlInv, Place, Opens
<1>3. \A s \in Ranks \ {r} : obj'[s] = obj[s] /\ max_oid'[s] = max_oid[s]
  BY <1>0 DEF Receive, ReceiveRest, DataInv, IndexInv
<1>4. PICK n \in 1 .. Len(sent) : n = taken[r] + 1
  BY <1>0, SentType DEF Waiting
<1>5. Incoming(r) = sent[n]
  BY <1>4 DEF Incoming
<1>6. PICK l \in {"idle", "receive_rest"} :
        /\ Goto(r, l)
        /\ Receive(r) /\ l = "idle" => ~ExpectsRest(r, sent[n].len)
        /\ ReceiveRest(r) => l = "idle"
  BY <1>5 DEF Receive, ReceiveRest, Return
<1>7. l = "idle" => Told(r, at[r])'
  <2>1. CASE Receive(r) /\ l = "idle"
    <3>1. IsPart(n, at[r], "first")
      BY <1>0, <1>4, <2>1, IncomingFirst DEF Mail, Receive
    <3>2. obj'[r].oid = sent[n].oid /\ obj'[r].md = sent[n].md
      BY <1>0, <1>5, <2>1 DEF Receive, NewObj, DataInv
    <3>3. ~Split(log[at[r]], sent[n].len)
      BY <1>2, <1>6, <2>1 DEF ExpectsRest, Split, Header, Static
    <3> QED
      BY <1>1, <3>1, <3>2, <3>3 DEF Told, IsPart
  <2>2. CASE ReceiveRest(r)
    <3>1. IsPart(n, at[r], "rest") /\ pc[r] = "receive_rest"
      BY <1>0, <1>4, <2>2, IncomingRest DEF Mail, ReceiveRest
    <3>2. PICK k \in 1 .. Len(sent) :
            /\ IsPart(k, at[r], "first") /\ Split(call[r], sent[k].len)
            /\ sent[k].oid = obj[r].oid
      BY <1>0, <3>1 DEF TakenInv, Half
    <3>3. obj'[r].oid = obj[r].oid /\ obj'[r].md = sent[n].md
      <4>1. obj[r] \in Objects /\ obj' = [obj EXCEPT ![r].md = sent[n].md]
        BY <1>0, <1>5, <2>2 DEF ReceiveRest, DataInv
      <4>2. obj'[r] = [obj[r] EXCEPT !.md = sent[n].md]
        BY <1>0, <4>1 DEF DataInv
      <4> QED
        BY <4>1, <4>2 DEF Objects
    <3> QED
      BY <1>1, <1>2, <3>1, <3>2, <3>3 DEF Told, IsPart
  <2> QED
    BY <2>1, <2>2
<1>8. call[r].op \notin {"create", "file_create", "flush", "close"}
  BY <1>2 DEF Opens
<1>9. Len(sent) \in Nat /\ Len(sent) <= Len(sent')
  BY <1>0, <1>1, SentType
<1> QED
  BY <1>0, <1>1, <1>3, <1>6, <1>7, <1>8, <1>9, MoveOutcome

LEMMA BeginOutcome ==
    ASSUME TypeInv, TypeInv', collective, \A s \in Ranks : Outcome(s), NEW r \in Ranks,
           Follow(r) \/ Call(r)
    PROVE  \A s \in Ranks : Outcome(s)'
<1>0. ControlInv /\ DataInv
  BY DEF TypeInv
<1>1. Len(log) <= Len(log') /\ \A i \in 1 .. Len(log) : log'[i] = log[i]
  BY BegunCall
<1>2. PICK c \in CallSet : Begin(r, c)
  BY BegunCall
<1>3. /\ UNCHANGED <<max_oid, sent>> /\ obj'[r] = NoObj
      /\ \A s \in Ranks \ {r} : call'[s] = call[s] /\ obj'[s] = obj[s] /\ at'[s] = at[s]
  BY <1>0, <1>2 DEF Begin, handles, network, ControlInv, DataInv
<1>4. PICK l \in {"create", "flush", "receive", "open", "file_open"} : Goto(r, l)
  BY <1>2 DEF Begin
<1>5. pc'[r] = l /\ \A s \in Ranks \ {r} : pc'[s] = pc[s]
  BY <1>0, <1>4 DEF Goto, ControlInv
<1>6. Len(sent) \in Nat /\ Len(sent') \in Nat /\ Len(sent) <= Len(sent')
  BY <1>0, <1>3, SentType
<1>7. \A s \in Ranks \ {r} : Outcome(s)'
  BY <1>0, <1>1, <1>3, <1>5, <1>6, OtherOutcome
<1>8. Outcome(r)'
  BY <1>3, <1>5 DEF Outcome
<1> QED
  BY <1>7, <1>8

LEMMA InitOutcome == Init => OutcomeInv
<1> SUFFICES ASSUME Init, NEW r \in Ranks PROVE Outcome(r)
  BY DEF OutcomeInv
<1>1. pc[r] = "idle" /\ at[r] = 0 /\ obj[r] = NoObj
  BY DEF Init, All
<1> QED
  BY <1>1 DEF Outcome

LEMMA CrashOutcome == Crash => OutcomeInv'
<1> SUFFICES ASSUME Crash, NEW r \in Ranks PROVE Outcome(r)'
  BY DEF OutcomeInv
<1>1. pc'[r] = "idle" /\ at'[r] = 0 /\ obj'[r] = NoObj
  BY DEF Crash, All
<1> QED
  BY <1>1 DEF Outcome

LEMMA NextOutcome == TypeInv /\ TypeInv' /\ Mail /\ OutcomeInv /\ [Next]_vars => OutcomeInv'
<1> SUFFICES ASSUME TypeInv, TypeInv', Mail, OutcomeInv, [Next]_vars, collective'
             PROVE  \A s \in Ranks : Outcome(s)'
  BY DEF OutcomeInv
<1>1. CASE Crash
  BY <1>1, CrashOutcome DEF OutcomeInv
<1>2. CASE ~Crash
  <2>1. collective /\ \A s \in Ranks : Outcome(s)
    BY <1>2, FileKept DEF OutcomeInv
  <2>2. ASSUME NEW r \in Ranks, Step(r) PROVE \A s \in Ranks : Outcome(s)'
    BY <2>1, <2>2, CreateOutcome, WriteOutcome, OpenOutcome, BroadcastOutcome, ReceiveOutcome,
       FlushOutcome DEF Step
  <2>3. ASSUME NEW r \in Ranks, Follow(r) \/ Call(r) PROVE \A s \in Ranks : Outcome(s)'
    BY <2>1, <2>3, BeginOutcome
  <2>4. CASE UNCHANGED vars
    BY <2>1, <2>4 DEF vars, handles, network, program, Outcome, HasMade, Told, IsPart
  <2> QED
    BY <1>2, <2>2, <2>3, <2>4 DEF Next
<1> QED
  BY <1>1, <1>2

LEMMA OutcomesAgree == TypeInv /\ Mail /\ CountInv /\ OutcomeInv => SameObject
<1> SUFFICES ASSUME TypeInv, Mail, CountInv, OutcomeInv, collective,
                    NEW r \in Ranks, NEW s \in Ranks, r # s, Together(r, s)
             PROVE  obj[r].oid = obj[s].oid /\ obj[r].md = obj[s].md
  BY DEF SameObject
<1>0. ControlInv /\ DataInv /\ SentInv /\ Outcome(r) /\ Outcome(s)
  BY DEF TypeInv, Mail, OutcomeInv
<1>1. /\ pc[r] = "idle" /\ pc[s] = "idle" /\ at[r] = at[s] /\ max_oid[r] = max_oid[s]
      /\ Cardinality(Ranks) > 1
  BY CountsAgree, Several DEF Together, CountersAgree
<1>2. CASE at[r] = 0
  BY <1>0, <1>1, <1>2 DEF Outcome
<1>3. CASE at[r] # 0
  <2>1. at[r] \in 1 .. Len(log) /\ at[r] > 0
    BY <1>0, <1>3, DoneType
  <2>2. log[at[r]].op \in {"create", "file_create", "flush", "close"} \union Opens
    BY <1>0, <2>1 DEF ControlInv, Valid, CallSet
  <2>3. CASE log[at[r]].op \in {"create", "file_create"}
    BY <1>0, <1>1, <2>1, <2>3 DEF Outcome, HasMade
  <2>4. CASE log[at[r]].op \in {"flush", "close"}
    BY <1>0, <1>1, <2>1, <2>4 DEF Outcome
  <2>5. CASE log[at[r]].op \in Opens
    <3>1. Told(r, at[r]) /\ Told(s, at[r])
      BY <1>0, <1>1, <2>1, <2>5 DEF Outcome
    <3>2. PICK k \in 1 .. Len(sent) :
            /\ IsPart(k, at[r], "first")
            /\ obj[r].oid = sent[k].oid
            /\ IF Split(log[at[r]], sent[k].len)
               THEN \E l \in 1 .. Len(sent) : IsPart(l, at[r], "rest") /\ obj[r].md = sent[l].md
               ELSE obj[r].md = sent[k].md
      BY <3>1 DEF Told
    <3>3. PICK j \in 1 .. Len(sent) :
            /\ IsPart(j, at[r], "first")
            /\ obj[s].oid = sent[j].oid
            /\ IF Split(log[at[r]], sent[j].len)
               THEN \E l \in 1 .. Len(sent) : IsPart(l, at[r], "rest") /\ obj[s].md = sent[l].md
               ELSE obj[s].md = sent[j].md
      BY <3>1 DEF Told
    <3>4. j = k
      BY <1>0, <3>2, <3>3, PartOnce
    <3>5. CASE Split(log[at[r]], sent[k].len)
      <4>1. PICK l \in 1 .. Len(sent) : IsPart(l, at[r], "rest") /\ obj[r].md = sent[l].md
        BY <3>2, <3>5
      <4>2. PICK m \in 1 .. Len(sent) : IsPart(m, at[r], "rest") /\ obj[s].md = sent[m].md
        BY <3>3, <3>4, <3>5
      <4>3. l = m
        BY <1>0, <4>1, <4>2, PartOnce
      <4> QED
        BY <3>2, <3>3, <3>4, <4>1, <4>2, <4>3
    <3> QED
      BY <3>2, <3>3, <3>4, <3>5
  <2> QED
    BY <2>2, <2>3, <2>4, <2>5
<1> QED
  BY <1>2, <1>3

\* A collective call gives every rank the same object, whether the rank made the oid
\* itself or was told it, in one broadcast or in two, and however far it was behind.
THEOREM ObjectsSame == Spec => []SameObject
<1>1. Init => TypeInv /\ Mail /\ CountInv /\ OutcomeInv
  BY InitTypes, InitMail, InitCount, InitOutcome
<1>2. TypeInv /\ Mail /\ CountInv /\ OutcomeInv /\ [Next]_vars
        => (TypeInv /\ Mail /\ CountInv /\ OutcomeInv)'
  BY NextTypes, NextMail, NextCount, NextOutcome
<1> QED
  BY <1>1, <1>2, OutcomesAgree, PTL DEF Spec

(***************************************************************************)
(* The inductive invariant.  An object is found from the root, its parent  *)
(* is there with it, and its index is one that rank 0 has given out: so    *)
(* the next index is that of no object.  What a crash must not lose has an *)
(* index that is in the storage, and so rank 0 reads one at least as large *)
(* when the program runs again.  A path that is being created is new.      *)
(***************************************************************************)
Idx(p) == group_traverse(p)[2]

\* The object of a path is found under it, with its own metadata.
Found(p) ==
    LET oid == group_traverse(p)
    IN  oid \in DOMAIN meta /\ meta[oid].path = p /\ oid[1] = Kind(p) /\ oid[2] >= 2

\* Rank 0 has an index to give out from.
Loaded == Counted(Leader) > 0

FoundInv ==
    \A p \in made \ {<< >>} :
        /\ Found(p) /\ ParentMade(p)
        /\ p \in kept => Front(p) = << >> \/ Front(p) \in kept

BoundInv ==
    /\ Loaded => max_oid[Leader] >= 1
    /\ Loaded => \A p \in made \ {<< >>} :
          /\ Idx(p) <= max_oid[Leader]
          /\ pc[Leader] \in {"metadata", "link"} => Idx(p) < max_oid[Leader]
    /\ \A p \in kept \ {<< >>} : Idx(p) <= glob
    /\ glob # None => glob >= 1
    /\ kept # {} => glob # None
    /\ Done(Leader) = 0 => made = kept
    /\ Len(log) > 0 /\ log[1].op = "file_create" /\ Done(Leader) = 0 => glob = None

FreshInv ==
    /\ \A i, j \in 1 .. Len(log) :
          log[i].op = "create" /\ log[j].op = "create" /\ log[i].path = log[j].path => i = j
    /\ \A i \in 1 .. Len(log) : log[i].op = "create" /\ i > Done(Leader) => log[i].path \notin made
    /\ pc[Leader] = "link" => /\ obj[Leader].oid \in DOMAIN meta
                              /\ meta[obj[Leader].oid].path = call[Leader].path
    /\ pc[Leader] \in {"metadata", "link"} /\ call[Leader].path # << >> =>
          /\ obj[Leader].grp = group_traverse(Front(call[Leader].path))
          /\ ParentMade(call[Leader].path) /\ max_oid[Leader] >= 2

ObjectInv == collective => FoundInv /\ BoundInv /\ FreshInv

ObjectParts == FoundInv /\ BoundInv /\ FreshInv

-----------------------------------------------------------------------------
\* Where a path leads as long as no link is made, and after one is.
LEMMA TraverseSame ==
    ASSUME UNCHANGED links, NEW p
    PROVE  group_traverse(p)' = group_traverse(p)
<1>1. \A g, n : link_follow(g, n)' = link_follow(g, n)
  BY DEF link_follow, link_read
<1> QED
  BY <1>1 DEF group_traverse

\* The paths of one and of two names, in any state: so in the next one too.
Walks == \A m, n : /\ group_traverse(<<n>>) = link_read(Root, n)
                   /\ group_traverse(<<m, n>>) = link_read(link_read(Root, m), n)
                   /\ group_traverse(<< >>) = Root

LEMMA WalksHere == Walks
  BY TraverseRoot, TraverseOne, TraverseTwo DEF Walks

LEMMA WalksNext == Walks'
  BY WalksHere, PTL

LEMMA FoundOid ==
    ASSUME DataInv, NEW p, Found(p)
    PROVE  /\ group_traverse(p) \in Oids /\ Idx(p) \in Nat /\ Idx(p) >= 2
           /\ group_traverse(p) # Root /\ group_traverse(p) # NoOid
<1> DEFINE oid == group_traverse(p)
<1>1. oid \in DOMAIN meta /\ DOMAIN meta \subseteq Oids /\ oid[2] >= 2 /\ Idx(p) = oid[2]
  BY DEF Found, DataInv, Idx
<1> HIDE DEF oid
<1>2. oid \in Oids /\ oid[2] \in Nat
  BY <1>1 DEF Oids
<1>3. Root[2] = 1 /\ NoOid \notin Oids
  BY RootType DEF Root, Oid
<1>4. oid # Root /\ oid # NoOid
  BY <1>1, <1>2, <1>3
<1> QED
  BY <1>1, <1>2, <1>4 DEF oid

-----------------------------------------------------------------------------
\* As long as nothing is written, a path is found as before.
LEMMA FoundSame ==
    ASSUME UNCHANGED <<meta, links>>, NEW p
    PROVE  Found(p)' = Found(p) /\ Idx(p)' = Idx(p)
<1>1. group_traverse(p)' = group_traverse(p)
  BY TraverseSame
<1> QED
  BY <1>1 DEF Found, Idx

\* A step that leaves the storage and the tree alone, and does not make rank 0 an object.
LEMMA QuietObjects ==
    ASSUME TypeInv, ObjectParts, UNCHANGED <<storage, made, kept, log>>,
           max_oid'[Leader] = max_oid[Leader], Loaded' => Loaded,
           Done(Leader)' \in Nat, Done(Leader)' >= Done(Leader),
           pc'[Leader] \in {"metadata", "link"} =>
              pc'[Leader] = pc[Leader] /\ obj'[Leader] = obj[Leader] /\ call'[Leader] = call[Leader]
    PROVE  ObjectParts'
<1>0. UNCHANGED <<meta, links, glob>> /\ Done(Leader) \in Nat /\ Len(log) \in Nat
  BY LeaderAssumption, DoneType DEF storage, TypeInv
<1>1. \A p : Found(p)' = Found(p) /\ Idx(p)' = Idx(p)
  BY <1>0, FoundSame
<1>2. \A p : ParentMade(p)' = ParentMade(p)
  BY DEF ParentMade
<1>3. FoundInv'
  BY <1>1, <1>2 DEF ObjectParts, FoundInv
<1>4. BoundInv'
  BY <1>0, <1>1 DEF ObjectParts, BoundInv
<1>5. FreshInv'
  <2>2. ASSUME pc'[Leader] \in {"metadata", "link"}, call'[Leader].path # << >>
        PROVE  /\ obj'[Leader].grp = group_traverse(Front(call[Leader].path))'
               /\ ParentMade(call[Leader].path)' /\ max_oid'[Leader] >= 2
    <3>1. /\ obj'[Leader] = obj[Leader] /\ call'[Leader] = call[Leader]
          /\ pc'[Leader] = pc[Leader]
      BY <2>2
    <3>2. group_traverse(Front(call[Leader].path))' = group_traverse(Front(call[Leader].path))
      BY <1>0, <3>1 DEF group_traverse, link_follow, link_read
    <3>3. ParentMade(call[Leader].path)' = ParentMade(call[Leader].path)
      BY <3>1 DEF ParentMade
    <3> QED
      BY <2>2, <3>1, <3>2, <3>3 DEF ObjectParts, FreshInv
  <2>3. \A i \in 1 .. Len(log) : i > Done(Leader)' => i > Done(Leader)
    BY <1>0
  <2> QED
    BY <1>0, <2>2, <2>3 DEF ObjectParts, FreshInv
<1> QED
  BY <1>3, <1>4, <1>5 DEF ObjectParts

\* What rank 0 has come back from, and whether it has an index, when it moves on.
LEMMA LeaderMoves ==
    ASSUME ControlInv, collective, pc[Leader] # "idle", NEW l, Goto(Leader, l),
           UNCHANGED <<call, log, at>>
    PROVE  /\ pc'[Leader] = l /\ at[Leader] \in 1 .. Len(log) /\ Len(log) \in Nat
           /\ Done(Leader) = at[Leader] - 1
           /\ Done(Leader)' = IF l = "idle" THEN at[Leader] ELSE at[Leader] - 1
           /\ call[Leader].coll /\ call[Leader] = log[at[Leader]] /\ Valid(call[Leader])
           /\ pc[Leader] \notin {"create", "file_open", "receive"} => Loaded
           /\ call[Leader].op \notin FileOps => Loaded
           /\ l \notin {"create", "file_open", "receive"} => Loaded'
<1>0. Leader \in Ranks
  BY LeaderAssumption
<1>1. /\ call[Leader].coll /\ at[Leader] \in 1 .. Len(log) /\ call[Leader] = log[at[Leader]]
      /\ Valid(call[Leader]) /\ Len(log) \in Nat
      /\ call[Leader].op \in FileOps \/ at[Leader] > 1
  BY <1>0, InCollective
<1>2. pc'[Leader] = l
  BY <1>0 DEF Goto, ControlInv
<1>3. Done(Leader)' = IF l = "idle" THEN at[Leader] ELSE at[Leader] - 1
  BY <1>1, <1>2 DEF Done
<1> QED
  BY <1>1, <1>2, <1>3 DEF Done, Loaded, Counted

LEMMA CreateObjects ==
    ASSUME TypeInv, collective, ObjectParts, Create(Leader)
    PROVE  ObjectParts'
<1> DEFINE path == call[Leader].path
           idx == BaseIndex(Leader) + 1
<1>0. /\ ControlInv /\ IndexInv /\ TreeInv /\ DataInv /\ Leader \in Ranks /\ pc[Leader] = "create"
      /\ ObjectParts
  BY LeaderAssumption DEF TypeInv, Create
<1>1. /\ UNCHANGED <<storage, call, log, at, made, kept>>
      /\ max_oid'[Leader] = idx
      /\ obj'[Leader] = NewObj(Oid(Kind(path), idx), path, call[Leader].len, TargetGroup(Leader))
  BY <1>0 DEF Create, program, IndexInv, DataInv
<1>2. Acts(Leader) /\ Goto(Leader, "metadata")
  BY DEF Create, Acts
<1>3. /\ pc'[Leader] = "metadata" /\ at[Leader] \in 1 .. Len(log) /\ Len(log) \in Nat
      /\ Done(Leader) = at[Leader] - 1 /\ Done(Leader)' = at[Leader] - 1
      /\ call[Leader].coll /\ call[Leader] = log[at[Leader]] /\ Valid(call[Leader])
      /\ call[Leader].op \notin FileOps => Loaded
  BY <1>0, <1>1, <1>2, LeaderMoves
<1>4. UNCHANGED <<meta, links, glob>> /\ \A p : Found(p)' = Found(p) /\ Idx(p)' = Idx(p)
  BY <1>1, FoundSame DEF storage
<1>5. FoundInv'
  BY <1>0, <1>1, <1>4 DEF ObjectParts, FoundInv, ParentMade
<1>6. call[Leader].op \in {"create", "file_create"}
  BY <1>0 DEF ControlInv, Place
<1>7. CASE call[Leader].op = "file_create"
  <2>1. at[Leader] = 1 /\ path = << >> /\ idx = 1
    BY <1>0, <1>3, <1>7 DEF IndexInv, Valid, BaseIndex
  <2>2. glob = None /\ kept = {} /\ made = {}
    BY <1>0, <1>3, <1>7, <2>1 DEF ObjectParts, BoundInv
  <2>3. BoundInv'
    BY <1>0, <1>1, <1>3, <1>4, <2>1, <2>2 DEF BoundInv
  <2>4. FreshInv'
    BY <1>0, <1>1, <1>3, <2>1, <2>2 DEF ObjectParts, FreshInv
  <2> QED
    BY <1>5, <2>3, <2>4 DEF ObjectParts
<1>8. CASE call[Leader].op = "create"
  <2>1. Loaded /\ idx = max_oid[Leader] + 1 /\ max_oid[Leader] \in Nat /\ max_oid[Leader] >= 1
    BY <1>0, <1>3, <1>8 DEF FileOps, BaseIndex, IndexInv, ObjectParts, BoundInv
  <2>2. \A p \in made \ {<< >>} : Idx(p) \in Nat
    BY <1>0, FoundOid DEF ObjectParts, FoundInv
  <2>3. BoundInv'
    BY <1>0, <1>1, <1>3, <1>4, <2>1, <2>2 DEF ObjectParts, BoundInv
  <2>4. path # << >>
    BY <1>3, <1>8 DEF Valid
  <2>5. ParentMade(path)
    <3>1. \/ ParentMade(path)
          \/ \E j \in 1 .. at[Leader] - 1 : log[j].op = "create" /\ log[j].path = Front(path)
      BY <1>0, <1>3, <1>8 DEF TreeInv
    <3>2. ASSUME NEW j \in 1 .. at[Leader] - 1, log[j].op = "create" PROVE log[j].path \in made
      BY <1>0, <1>3, <3>2 DEF TreeInv
    <3> QED
      BY <3>1, <3>2 DEF ParentMade
  <2>6. obj'[Leader].grp = group_traverse(Front(path))
    BY <1>1, <1>2, <2>4 DEF NewObj, TargetGroup
  <2>7. group_traverse(Front(path))' = group_traverse(Front(path)) /\ ParentMade(path)'
    BY <1>1, <1>4, <2>5 DEF group_traverse, link_follow, link_read, ParentMade
  <2>8. FreshInv'
    BY <1>0, <1>1, <1>3, <2>1, <2>6, <2>7 DEF ObjectParts, FreshInv
  <2> QED
    BY <1>5, <2>3, <2>8 DEF ObjectParts
<1> QED
  BY <1>6, <1>7, <1>8

\* What is put, and what else is there.
LEMMA PutKeeps ==
    ASSUME NEW f, NEW k, NEW v
    PROVE  /\ k \in DOMAIN Put(f, k, v) /\ Put(f, k, v)[k] = v
           /\ \A x \in DOMAIN f : x # k => x \in DOMAIN Put(f, k, v) /\ Put(f, k, v)[x] = f[x]
           /\ \A x : x \notin DOMAIN f /\ x # k => x \notin DOMAIN Put(f, k, v)
  BY DEF Put

\* The metadata goes to an index above those of all objects, and so overwrites none.
LEMMA WriteObjects ==
    ASSUME TypeInv, collective, ObjectParts, Outcome(Leader), WriteMetadata(Leader)
    PROVE  ObjectParts'
<1> DEFINE path == call[Leader].path
           oid == obj[Leader].oid
           md == [path |-> path, len |-> call[Leader].len]
<1>0. /\ ControlInv /\ IndexInv /\ TreeInv /\ DataInv /\ Leader \in Ranks
      /\ pc[Leader] = "metadata" /\ FoundInv /\ BoundInv /\ FreshInv
  BY LeaderAssumption DEF TypeInv, WriteMetadata, ObjectParts
<1>1. /\ UNCHANGED <<links, glob, call, log, at, max_oid, obj, kept>>
      /\ meta' = Put(meta, oid, md)
      /\ made' = made \/ made' = made \union {<< >>}
      /\ path = << >> => Goto(Leader, "idle")
      /\ path # << >> => Goto(Leader, "link") /\ made' = made
  BY DEF WriteMetadata, program, Return
<1> HIDE DEF md
<1>2. /\ at[Leader] \in 1 .. Len(log) /\ Len(log) \in Nat /\ Done(Leader) = at[Leader] - 1
      /\ Done(Leader)' = IF path = << >> THEN at[Leader] ELSE at[Leader] - 1
      /\ pc'[Leader] = IF path = << >> THEN "idle" ELSE "link"
      /\ call[Leader] = log[at[Leader]] /\ Valid(call[Leader]) /\ Loaded /\ Loaded'
  BY <1>0, <1>1, LeaderMoves
<1>3. oid = Oid(Kind(path), max_oid[Leader]) /\ max_oid[Leader] \in Nat /\ max_oid[Leader] >= 1
  BY <1>0, <1>2 DEF Outcome, HasMade, IndexInv, BoundInv
<1>4. \A p : group_traverse(p)' = group_traverse(p) /\ Idx(p)' = Idx(p)
  BY <1>1, TraverseSame DEF Idx
<1>5. ASSUME NEW p \in made \ {<< >>}
      PROVE  Found(p)' /\ Idx(p) \in Nat
  <2>1. Found(p) /\ Idx(p) \in Nat /\ Idx(p) < max_oid[Leader]
    BY <1>0, <1>2, FoundOid DEF FoundInv, BoundInv
  <2>2. group_traverse(p) # oid
    BY <1>3, <2>1 DEF Idx, Oid
  <2>3. /\ group_traverse(p) \in DOMAIN meta'
        /\ meta'[group_traverse(p)] = meta[group_traverse(p)]
    <3>1. group_traverse(p) \in DOMAIN meta
      BY <2>1 DEF Found
    <3> QED
      BY <1>1, <2>2, <3>1, PutKeeps
  <2> QED
    BY <1>4, <2>1, <2>3 DEF Found
<1>6. FoundInv'
  BY <1>0, <1>1, <1>5 DEF FoundInv, ParentMade
<1>7. BoundInv'
  <2>1. \A p \in kept : p \in made
    BY <1>0 DEF TreeInv
  <2>2. Done(Leader)' = 0 => Done(Leader) = 0 /\ made' = made
    BY <1>1, <1>2
  <2> QED
    BY <1>0, <1>1, <1>2, <1>3, <1>4, <1>5, <2>1, <2>2 DEF BoundInv
<1>8. FreshInv'
  <2>1. \A i \in 1 .. Len(log) : log[i].op = "create" => log[i].path # << >>
    BY <1>0 DEF ControlInv, Valid
  <2>2. oid \in DOMAIN meta' /\ meta'[oid].path = path
    <3>1. oid \in DOMAIN meta' /\ meta'[oid] = md
      BY <1>1, PutKeeps
    <3> QED
      BY <3>1 DEF md
  <2>3. group_traverse(Front(path))' = group_traverse(Front(path))
    BY <1>1 DEF group_traverse, link_follow, link_read
  <2>4. path # << >> => ParentMade(path)' = ParentMade(path)
    BY <1>1 DEF ParentMade
  <2>5. \A i \in 1 .. Len(log) : log[i].op = "create" /\ i > Done(Leader)' => log[i].path \notin made'
    BY <1>0, <1>1, <1>2, <2>1 DEF FreshInv
  <2> QED
    BY <1>0, <1>1, <1>2, <2>2, <2>3, <2>4, <2>5 DEF FreshInv
<1> QED
  BY <1>6, <1>7, <1>8 DEF ObjectParts

\* A new link is not on the way of a path that has been made: what is there is another
\* name of its group, or the group is another.
LEMMA LinkAside ==
    ASSUME TypeInv, FoundInv, NEW path \in Paths \ ({<< >>} \union made), ParentMade(path),
           NEW oid, links' = Put(links, <<group_traverse(Front(path)), Last(path)>>, oid)
    PROVE  /\ \A p \in made : group_traverse(p)' = group_traverse(p)
           /\ group_traverse(path)' = oid
<1> DEFINE grp == group_traverse(Front(path))
           key == <<grp, Last(path)>>
<1>0. TreeInv /\ DataInv /\ made \subseteq Paths
  BY DEF TypeInv, TreeInv
<1>1. ASSUME NEW p \in made \ {<< >>}
      PROVE  Found(p) /\ group_traverse(p) # Root /\ meta[group_traverse(p)].path = p
  BY <1>0, <1>1, FoundOid DEF FoundInv, Found
<1>2. \A g, n : <<g, n>> # key => link_read(g, n)' = link_read(g, n)
  BY PutKeeps DEF link_read
<1>3. \A x, n : <<x, n>> = key => link_read(x, n)' = oid
  BY PutKeeps DEF link_read
<1>4. CASE Front(path) = << >>
  <2>1. PICK n \in Names : path = <<n>>
    BY <1>4, PathCases, TwoNames
  <2>2. grp = Root /\ Last(path) = n
    BY <1>4, <2>1, OneName, TraverseRoot
  <2>3. ASSUME NEW m, <<m>> \in made PROVE link_read(Root, m)' = link_read(Root, m)
    BY <1>2, <2>1, <2>2, <2>3
  <2>4. ASSUME NEW p \in made PROVE group_traverse(p)' = group_traverse(p)
    <3>1. CASE p = << >>
      BY <3>1, WalksHere, WalksNext DEF Walks
    <3>2. CASE \E m \in Names : p = <<m>>
      BY <2>3, <2>4, <3>2, WalksHere, WalksNext DEF Walks
    <3>3. CASE \E g \in Groups, m \in Names : p = <<g, m>>
      <4>1. PICK g \in Groups, m \in Names : p = <<g, m>>
        BY <3>3
      <4>2. <<g>> \in made /\ <<g>> # << >>
        BY <2>4, <4>1, TwoNames, OneName DEF FoundInv, ParentMade
      <4>3. link_read(Root, g)' = link_read(Root, g) /\ link_read(Root, g) # Root
        BY <1>1, <2>3, <4>2, WalksHere DEF Walks
      <4>4. link_read(link_read(Root, g), m)' = link_read(link_read(Root, g), m)
        <5>1. PICK x : x = link_read(Root, g)
          OBVIOUS
        <5>2. link_read(link_read(Root, g), m)' = link_read(x, m)'
          BY <4>3, <5>1 DEF link_read
        <5> QED
          BY <1>2, <2>2, <4>3, <5>1, <5>2
      <4> QED
        BY <4>1, <4>4, WalksHere, WalksNext DEF Walks
    <3> QED
      BY <1>0, <3>1, <3>2, <3>3, PathCases
  <2>5. group_traverse(path)' = oid
    <3>1. link_read(Root, n)' = oid
      BY <1>3, <2>2
    <3> QED
      BY <2>1, <3>1, WalksNext DEF Walks
  <2> QED
    BY <2>4, <2>5
<1>5. CASE Front(path) # << >>
  <2>1. PICK h \in Groups, n \in Names : path = <<h, n>>
    BY <1>5, PathCases, OneName
  <2>2. Front(path) = <<h>> /\ Last(path) = n /\ <<h>> \in made /\ <<h>> # << >>
    BY <1>5, <2>1, TwoNames, OneName DEF ParentMade
  <2>3. grp = link_read(Root, h) /\ grp # Root /\ meta[grp].path = <<h>>
    BY <1>1, <2>2, WalksHere DEF Walks
  <2>4. \A m : link_read(Root, m)' = link_read(Root, m)
    BY <1>2, <2>3
  <2>5. ASSUME NEW p \in made PROVE group_traverse(p)' = group_traverse(p)
    <3>1. CASE p = << >>
      BY <3>1, WalksHere, WalksNext DEF Walks
    <3>2. CASE \E m \in Names : p = <<m>>
      BY <2>4, <3>2, WalksHere, WalksNext DEF Walks
    <3>3. CASE \E g \in Groups, m \in Names : p = <<g, m>>
      <4>1. PICK g \in Groups, m \in Names : p = <<g, m>>
        BY <3>3
      <4>2. <<g>> \in made /\ <<g>> # << >>
        BY <2>5, <4>1, TwoNames, OneName DEF FoundInv, ParentMade
      <4>3. PICK x : x = link_read(Root, g)
        OBVIOUS
      <4>4. meta[x].path = <<g>>
        BY <1>1, <4>2, <4>3, WalksHere DEF Walks
      <4>5. <<x, m>> # key
        <5>1. <<g>> = <<h>> => g = h
          OBVIOUS
        <5> QED
          BY <2>1, <2>2, <2>3, <2>5, <4>1, <4>4, <5>1
      <4>6. link_read(link_read(Root, g), m)' = link_read(x, m)'
        BY <2>4, <4>3 DEF link_read
      <4>7. link_read(link_read(Root, g), m)' = link_read(link_read(Root, g), m)
        BY <1>2, <4>3, <4>5, <4>6
      <4> QED
        BY <4>1, <4>7, WalksHere, WalksNext DEF Walks
    <3> QED
      BY <1>0, <3>1, <3>2, <3>3, PathCases
  <2>6. group_traverse(path)' = oid
    <3>1. PICK x : x = grp
      OBVIOUS
    <3>2. link_read(link_read(Root, h), n)' = link_read(x, n)'
      BY <2>3, <2>4, <3>1 DEF link_read
    <3>3. group_traverse(path)' = link_read(x, n)'
      BY <2>1, <3>2, WalksNext DEF Walks
    <3>4. link_read(x, n)' = oid
      BY <1>3, <2>2, <3>1
    <3> QED
      BY <3>3, <3>4
  <2> QED
    BY <2>5, <2>6
<1> QED
  BY <1>4, <1>5

LEMMA LinkObjects ==
    ASSUME TypeInv, collective, ObjectParts, Outcome(Leader), link_write(Leader)
    PROVE  ObjectParts'
<1> DEFINE path == call[Leader].path
           oid == obj[Leader].oid
<1>0. /\ ControlInv /\ IndexInv /\ TreeInv /\ DataInv /\ Leader \in Ranks
      /\ pc[Leader] = "link" /\ FoundInv /\ BoundInv /\ FreshInv
  BY LeaderAssumption DEF TypeInv, link_write, ObjectParts
<1>1. /\ UNCHANGED <<meta, glob, call, log, at, max_oid, obj, kept>>
      /\ links' = Put(links, <<obj[Leader].grp, Last(path)>>, oid)
      /\ made' = made \union {path} /\ Goto(Leader, "idle")
  BY DEF link_write, program, Return
<1>2. /\ at[Leader] \in 1 .. Len(log) /\ Len(log) \in Nat /\ Done(Leader) = at[Leader] - 1
      /\ Done(Leader)' = at[Leader] /\ pc'[Leader] = "idle"
      /\ call[Leader] = log[at[Leader]] /\ Valid(call[Leader]) /\ Loaded /\ Loaded'
  BY <1>0, <1>1, LeaderMoves
<1>3. call[Leader].op = "create" /\ path # << >> /\ path \in Paths
  BY <1>0, <1>2, CallKnown DEF ControlInv, Place, Valid
<1>4. path \notin made
  BY <1>0, <1>2, <1>3 DEF FreshInv
<1>5. /\ obj[Leader].grp = group_traverse(Front(path)) /\ ParentMade(path)
      /\ max_oid[Leader] >= 2 /\ max_oid[Leader] \in Nat
      /\ oid = Oid(Kind(path), max_oid[Leader])
      /\ oid \in DOMAIN meta /\ meta[oid].path = path
  BY <1>0, <1>3 DEF FreshInv, Outcome, HasMade, IndexInv
<1>6. (\A p \in made : group_traverse(p)' = group_traverse(p)) /\ group_traverse(path)' = oid
  BY <1>0, <1>1, <1>3, <1>4, <1>5, LinkAside DEF ObjectParts
<1>7. \A p \in made \ {<< >>} : Found(p)' /\ Idx(p)' = Idx(p)
  BY <1>0, <1>1, <1>6 DEF FoundInv, Found, Idx
<1>8. Found(path)' /\ Idx(path)' = max_oid[Leader]
  BY <1>1, <1>5, <1>6 DEF Found, Idx, Oid
<1>9. kept \subseteq made /\ path \notin kept
  BY <1>0, <1>4 DEF TreeInv
<1>10. FoundInv'
  <2>1. \A p : ParentMade(p) => ParentMade(p)'
    BY <1>1 DEF ParentMade
  <2> QED
    BY <1>0, <1>1, <1>5, <1>7, <1>8, <1>9, <2>1 DEF FoundInv
<1>11. BoundInv'
  <2>1. \A p \in made' \ {<< >>} : Idx(p)' <= max_oid[Leader]
    BY <1>0, <1>1, <1>2, <1>5, <1>7, <1>8 DEF BoundInv
  <2>2. \A p \in kept \ {<< >>} : Idx(p)' <= glob
    BY <1>0, <1>7, <1>9 DEF BoundInv
  <2> QED
    BY <1>0, <1>1, <1>2, <1>5, <2>1, <2>2 DEF BoundInv
<1>12. FreshInv'
  <2>1. \A i \in 1 .. Len(log) :
          log[i].op = "create" /\ i > Done(Leader)' => log[i].path \notin made'
    BY <1>0, <1>1, <1>2, <1>3 DEF FreshInv
  <2> QED
    BY <1>0, <1>1, <1>2, <2>1 DEF FreshInv
<1> QED
  BY <1>10, <1>11, <1>12 DEF ObjectParts

\* After a flush by rank 0 the storage has the index of every object.
LEMMA FlushObjects ==
    ASSUME TypeInv, collective, CountInv, ObjectParts, Flush(Leader)
    PROVE  ObjectParts'
<1>0. /\ ControlInv /\ IndexInv /\ TreeInv /\ DataInv /\ Leader \in Ranks
      /\ pc[Leader] = "flush" /\ FoundInv /\ BoundInv /\ FreshInv
  BY LeaderAssumption DEF TypeInv, Flush, ObjectParts
<1>1. /\ UNCHANGED <<meta, links, call, log, at, max_oid, obj, made>>
      /\ kept' = made /\ Goto(Leader, "idle")
  BY DEF Flush, program, Return
<1>2. /\ at[Leader] \in 1 .. Len(log) /\ Len(log) \in Nat /\ Done(Leader) = at[Leader] - 1
      /\ Done(Leader)' = at[Leader] /\ pc'[Leader] = "idle" /\ Loaded /\ Loaded'
  BY <1>0, <1>1, LeaderMoves
<1>3. glob' = max_oid[Leader]
  <2>1. PICK b \in Nat : CountFrom(b)
    BY DEF CountInv
  <2>2. ~max_oid_dirty[Leader] => glob = max_oid[Leader]
    BY <1>0, <1>2, <2>1 DEF CountFrom, Flushed, Loaded
  <2> QED
    BY <2>2 DEF Flush
<1>4. \A p : Found(p)' = Found(p) /\ Idx(p)' = Idx(p)
  BY <1>1, FoundSame
<1>5. max_oid[Leader] \in Nat /\ max_oid[Leader] >= 1 /\ max_oid[Leader] # None
  BY <1>0, <1>2, NoneAssumption DEF BoundInv, IndexInv
<1>6. FoundInv'
  BY <1>0, <1>1, <1>4 DEF FoundInv, ParentMade
<1>7. BoundInv'
  BY <1>0, <1>1, <1>2, <1>3, <1>4, <1>5 DEF BoundInv
<1>8. FreshInv'
  BY <1>0, <1>1, <1>2 DEF FreshInv
<1> QED
  BY <1>6, <1>7, <1>8 DEF ObjectParts

\* The index that rank 0 reads is at least that of every object that is there: of those
\* it has made, since it flushed when it closed the file, or of those a crash has left.
LEMMA FileOpenObjects ==
    ASSUME TypeInv, collective, CountInv, ObjectParts, FileOpen(Leader)
    PROVE  ObjectParts'
<1>0. /\ ControlInv /\ IndexInv /\ TreeInv /\ DataInv /\ Leader \in Ranks
      /\ pc[Leader] = "file_open" /\ FoundInv /\ BoundInv /\ FreshInv
      /\ call[Leader].op = "file_open"
  BY LeaderAssumption DEF TypeInv, FileOpen, ObjectParts, ControlInv, Place
<1>1. /\ UNCHANGED <<storage, meta, links, glob, call, log, at, made, kept>>
      /\ max_oid'[Leader] = glob
  BY <1>0 DEF FileOpen, program, storage, IndexInv
<1>2. PICK l \in {"idle", "bcast", "aborted"} : Goto(Leader, l)
  BY DEF FileOpen, Return
<1>3. /\ at[Leader] \in 1 .. Len(log) /\ Len(log) \in Nat /\ Done(Leader) = at[Leader] - 1
      /\ Done(Leader)' = IF l = "idle" THEN at[Leader] ELSE at[Leader] - 1
      /\ pc'[Leader] = l /\ Loaded'
  BY <1>0, <1>1, <1>2, LeaderMoves
<1>4. glob \in Nat /\ glob # None
  BY <1>0, IndexThere, NoneAssumption
<1>5. \A p \in made \ {<< >>} : Idx(p) <= glob
  <2>1. CASE at[Leader] = 1
    BY <1>0, <1>3, <2>1 DEF BoundInv
  <2>2. CASE at[Leader] # 1
    <3>1. Loaded
      BY <1>0, <1>3, <2>2 DEF Loaded, Counted
    <3>2. ~max_oid_dirty[Leader]
      BY <1>0, CallKnown DEF IndexInv, FileOps
    <3>3. PICK b \in Nat : CountFrom(b)
      BY DEF CountInv
    <3>4. glob = max_oid[Leader]
      BY <1>0, <3>1, <3>2, <3>3 DEF CountFrom, Flushed, Loaded
    <3> QED
      BY <1>0, <3>1, <3>4 DEF BoundInv
  <2> QED
    BY <2>1, <2>2
<1>6. \A p : Found(p)' = Found(p) /\ Idx(p)' = Idx(p)
  BY <1>1, FoundSame
<1>7. FoundInv'
  BY <1>0, <1>1, <1>6 DEF FoundInv, ParentMade
<1>8. BoundInv'
  BY <1>0, <1>1, <1>2, <1>3, <1>4, <1>5, <1>6 DEF BoundInv
<1>9. FreshInv'
  BY <1>0, <1>1, <1>2, <1>3 DEF FreshInv
<1> QED
  BY <1>7, <1>8, <1>9 DEF ObjectParts

\* The program creates an object once, and a file only when there is none.
LEMMA MayCreate ==
    ASSUME TypeInv, NEW r \in Ranks, NEW c \in MayCall(r)
    PROVE  /\ c.op = "create" => c.path \notin Created
           /\ c.op = "file_create" => glob = None
<1>1. c.op = "file_create" => glob = None
  BY MayCallValid DEF FileExists
<1>2. ASSUME NEW coll, c \in ObjectCalls(coll), c.op = "create" PROVE c.path \notin Created
  <2> DEFINE there == IF coll THEN Created ELSE made
  <2>1. CASE c \in {NewCall("create", p, len, coll) :
               p \in {q \in Paths \ ({<< >>} \union Taken) : Front(q) \in there \union {<< >>}},
               len \in Sizes}
    <3>1. PICK p \in {q \in Paths \ ({<< >>} \union Taken) : Front(q) \in there \union {<< >>}},
               len \in Sizes : c = NewCall("create", p, len, coll)
      BY <2>1
    <3>2. c.path = p /\ p \notin Taken
      BY <3>1 DEF NewCall
    <3> QED
      BY <3>2 DEF Taken
  <2>2. c \in {NewCall("open", p, 0, coll) : p \in there \ {<< >>}} => c.op = "open"
    BY DEF NewCall
  <2>3. c = NewCall("flush", << >>, 0, coll) => c.op = "flush"
    BY DEF NewCall
  <2> QED
    BY <1>2, <2>1, <2>2, <2>3 DEF ObjectCalls
<1>3. ASSUME c.op = "create" PROVE c.path \notin Created
  <2>1. open[r]
    <3>1. \A x \in FileCalls : x.op \in FileOps
      BY DEF FileCalls, NewCall, FileOps
    <3> QED
      BY <1>3, <3>1 DEF MayCall, FileOps
  <2>2. c # NewCall("close", << >>, 0, TRUE)
    BY <1>3 DEF NewCall
  <2> QED
    BY <1>2, <1>3, <2>1, <2>2 DEF MayCall
<1> QED
  BY <1>1, <1>3

LEMMA BeginObjects ==
    ASSUME TypeInv, TypeInv', collective, ObjectParts, NEW r \in Ranks, Follow(r) \/ Call(r)
    PROVE  ObjectParts'
<1>0. /\ ControlInv /\ ControlInv' /\ Leader \in Ranks /\ log \in Seq(CallSet) /\ Len(log) \in Nat
      /\ FoundInv /\ BoundInv /\ FreshInv
  BY LeaderAssumption DEF TypeInv, ControlInv, ObjectParts
<1>1. PICK c \in CallSet : /\ Begin(r, c) /\ Valid(c)
                           /\ c.coll => at[r] + 1 \in 1 .. Len(log') /\ log'[at[r] + 1] = c
                           /\ ~c.coll => ~collective
  BY BegunCall
<1>2. /\ UNCHANGED <<meta, links, glob, max_oid, made, kept>> /\ pc[r] = "idle"
      /\ at' = [at EXCEPT ![r] = @ + 1] /\ call' = [call EXCEPT ![r] = c]
      /\ obj' = [obj EXCEPT ![r] = NoObj]
  BY <1>1 DEF Begin, storage, handles
<1>3. PICK l \in {"create", "flush", "receive", "open", "file_open"} :
        Goto(r, l) /\ (l \in {"flush", "open"} => c.op \notin FileOps)
  BY <1>1 DEF Begin, Valid, CallSet, Opens, FileOps
<1>4. /\ pc'[r] = l /\ at'[r] = at[r] + 1 /\ call'[r] = c /\ c.coll /\ at[r] \in Nat
      /\ \A s \in Ranks \ {r} : pc'[s] = pc[s] /\ at'[s] = at[s] /\ call'[s] = call[s]
                                /\ obj'[s] = obj[s]
  BY <1>0, <1>1, <1>2, <1>3, DoneType DEF Goto, ControlInv, TypeInv, DataInv
<1>5. Done(Leader)' = Done(Leader) /\ Done(Leader) \in 0 .. Len(log)
  BY <1>0, <1>2, <1>4, DoneType DEF Done
<1>6. Loaded' => Loaded
  <2>1. CASE r # Leader
    BY <1>0, <1>4, <2>1 DEF Loaded, Counted
  <2>2. CASE r = Leader /\ l \in {"create", "receive", "file_open"}
    BY <1>2, <1>4, <2>2 DEF Loaded, Counted
  <2>3. CASE r = Leader /\ l \in {"flush", "open"}
    <3>1. at[r] # 0
      <4> SUFFICES ASSUME at[r] = 0 PROVE FALSE
        OBVIOUS
      <4>1. c = log'[1] /\ 1 \in 1 .. Len(log') /\ 1 - 1 = 0
        BY <1>1, <1>4
      <4>2. ~OpenAfter(1 - 1)'
        BY <4>1 DEF OpenAfter
      <4> QED
        BY <1>0, <1>3, <2>3, <4>1, <4>2 DEF ControlInv
    <3> QED
      BY <1>2, <1>4, <2>3, <3>1 DEF Loaded, Counted
  <2> QED
    BY <2>1, <2>2, <2>3
<1>7. pc'[Leader] \in {"metadata", "link"} =>
         /\ pc'[Leader] = pc[Leader] /\ obj'[Leader] = obj[Leader]
         /\ call'[Leader] = call[Leader]
  BY <1>0, <1>4
<1>8. /\ Len(log) <= Len(log') /\ Len(log') \in Nat
      /\ \A i \in 1 .. Len(log) : log'[i] = log[i]
      /\ \A i \in 1 .. Len(log') : i > Len(log) =>
            /\ i = Len(log) + 1
            /\ log'[i].op = "create" => log'[i].path \notin Created
            /\ log'[i].op = "file_create" => glob = None
  <2>1. CASE Follow(r)
    BY <1>0, <2>1 DEF Follow
  <2>2. CASE Call(r)
    <3>1. PICK d \in MayCall(r) : log' = log \/ log' = Append(log, d)
      BY <2>2 DEF Call
    <3>2. /\ d.op = "create" => d.path \notin Created
          /\ d.op = "file_create" => glob = None
      BY MayCreate
    <3>3. d \in CallSet
      BY MayCallValid DEF Valid
    <3>4. CASE log' = Append(log, d)
      <4>1. /\ Len(log') = Len(log) + 1 /\ log'[Len(log) + 1] = d
            /\ \A i \in 1 .. Len(log) : log'[i] = log[i]
        BY <1>0, <3>3, <3>4
      <4> QED
        BY <1>0, <3>2, <4>1
    <3>5. CASE log' = log
      BY <1>0, <3>5
    <3> QED
      BY <3>1, <3>4, <3>5
  <2> QED
    BY <2>1, <2>2
<1>9. \A i \in 1 .. Len(log) : log[i].op = "create" => log[i].path \in Created
  BY <1>0 DEF Created
<1>10. made \subseteq Created
  BY DEF Created
<1>11. \A p : Found(p)' = Found(p) /\ Idx(p)' = Idx(p)
  BY <1>2, FoundSame
<1>12. FoundInv'
  BY <1>0, <1>2, <1>11 DEF FoundInv, ParentMade
<1>13. BoundInv'
  <2>1. /\ Len(log') > 0 /\ log'[1].op = "file_create" /\ Done(Leader)' = 0 => glob = None
    <3>1. CASE Len(log) = 0
      BY <1>8, <3>1
    <3>2. CASE Len(log) > 0
      <4>1. log'[1] = log[1]
        BY <1>0, <1>8, <3>2
      <4> QED
        BY <1>0, <1>5, <3>2, <4>1 DEF BoundInv
    <3> QED
      BY <1>0, <3>1, <3>2
  <2>2. /\ Loaded' => max_oid[Leader] >= 1
        /\ Loaded' => \A p \in made \ {<< >>} :
              /\ Idx(p) <= max_oid[Leader]
              /\ pc'[Leader] \in {"metadata", "link"} => Idx(p) < max_oid[Leader]
    BY <1>0, <1>6, <1>7 DEF BoundInv
  <2> QED
    BY <1>0, <1>2, <1>5, <1>11, <2>1, <2>2 DEF BoundInv
<1>14. FreshInv'
  <2>1. ASSUME NEW i \in 1 .. Len(log'), NEW j \in 1 .. Len(log'),
               log'[i].op = "create", log'[j].op = "create", log'[i].path = log'[j].path
        PROVE  i = j
    BY <1>0, <1>8, <1>9, <2>1 DEF FreshInv
  <2>2. ASSUME NEW i \in 1 .. Len(log'), log'[i].op = "create", i > Done(Leader)
        PROVE  log'[i].path \notin made
    BY <1>0, <1>8, <1>10, <2>2 DEF FreshInv
  <2>3. ASSUME pc'[Leader] \in {"metadata", "link"}, call'[Leader].path # << >>
        PROVE  /\ obj'[Leader].grp = group_traverse(Front(call[Leader].path))'
               /\ ParentMade(call[Leader].path)' /\ max_oid'[Leader] >= 2
    <3>1. group_traverse(Front(call[Leader].path))' = group_traverse(Front(call[Leader].path))
      <4>1. call'[Leader] = call[Leader] /\ links' = links
        BY <1>2, <1>7, <2>3
      <4> QED
        BY <4>1 DEF group_traverse, link_follow, link_read
    <3>2. ParentMade(call[Leader].path)' = ParentMade(call[Leader].path)
      BY <1>2, <1>7, <2>3 DEF ParentMade
    <3> QED
      BY <1>0, <1>2, <1>7, <2>3, <3>1, <3>2 DEF FreshInv
  <2>4. pc'[Leader] = "link" => /\ obj'[Leader].oid \in DOMAIN meta'
                                /\ meta'[obj'[Leader].oid].path = call'[Leader].path
    BY <1>0, <1>2, <1>7 DEF FreshInv
  <2> QED
    BY <1>2, <1>5, <2>1, <2>2, <2>3, <2>4 DEF FreshInv
<1> QED
  BY <1>12, <1>13, <1>14 DEF ObjectParts

\* The other ranks write nothing, and rank 0 nothing when it opens and broadcasts.
LEMMA OtherObjects ==
    ASSUME TypeInv, TypeInv', collective, CountInv, ObjectParts, NEW r \in Ranks,
           r # Leader \/ Open(r) \/ ReadMetadata(r) \/ Broadcast(r) \/ BroadcastRest(r)
              \/ Receive(r) \/ ReceiveRest(r),
           Step(r)
    PROVE  ObjectParts'
<1>0. /\ ControlInv /\ IndexInv /\ DataInv /\ Leader \in Ranks /\ pc[r] # "idle"
      /\ \A s \in Ranks \ {Leader} : ~max_oid_dirty[s]
  BY LeaderAssumption DEF TypeInv, Step, CountInv, CountFrom, Create, WriteMetadata, link_write,
     Open, ReadMetadata, FileOpen, Broadcast, BroadcastRest, Receive, ReceiveRest, Flush
<1>1. ~WriteMetadata(r) /\ ~link_write(r) /\ ~FileOpen(r)
  <2>1. pc[r] \in {"metadata", "link", "file_open"} => r = Leader
    BY <1>0, InCollective DEF ControlInv, Place
  <2> QED
    BY <2>1 DEF Open, ReadMetadata, Broadcast, BroadcastRest, Receive, ReceiveRest,
       WriteMetadata, link_write, FileOpen
<1>2. PICK l \in {"idle", "metadata", "aborted", "read", "bcast", "bcast_rest", "receive_rest"} :
        Goto(r, l) /\ (r = Leader => l # "metadata")
  BY <1>1 DEF Step, Create, Open, ReadMetadata, Broadcast, BroadcastRest, Receive, ReceiveRest,
     Flush, Return
<1>3. UNCHANGED <<meta, links, glob, made, kept, log, at, call>>
  <2>1. Flush(r) => r # Leader
    BY DEF Open, ReadMetadata, Broadcast, BroadcastRest, Receive, ReceiveRest, Flush
  <2> QED
    BY <1>0, <1>1, <2>1 DEF Step, Create, Open, ReadMetadata, Broadcast, BroadcastRest, Receive,
       ReceiveRest, Flush, storage, program
<1>4. /\ max_oid'[Leader] = max_oid[Leader]
      /\ r # Leader => obj'[Leader] = obj[Leader]
  <2>1. Receive(r) => r # Leader
    BY <1>0 DEF Receive, ControlInv, Place
  <2>2. Create(r) => r # Leader
    BY DEF Open, ReadMetadata, Broadcast, BroadcastRest, Receive, ReceiveRest, Create
  <2> QED
    BY <1>0, <1>1, <2>1, <2>2 DEF Step, Create, Open, ReadMetadata, Broadcast, BroadcastRest,
       Receive, ReceiveRest, Flush, handles, IndexInv, DataInv
<1>5. pc'[r] = l /\ \A s \in Ranks \ {r} : pc'[s] = pc[s]
  BY <1>0, <1>2 DEF Goto, ControlInv
<1>6. Done(Leader)' \in Nat /\ Done(Leader)' >= Done(Leader) /\ (Loaded' => Loaded)
  <2>1. CASE r = Leader
    <3>1. pc[r] \notin {"create", "file_open", "receive"}
      BY <1>0, <2>1 DEF Open, ReadMetadata, Broadcast, BroadcastRest, Receive, ReceiveRest,
         ControlInv, Place
    <3> QED
      BY <1>0, <1>2, <1>3, <2>1, <3>1, LeaderMoves
  <2>2. CASE r # Leader
    BY <1>0, <1>3, <1>5, <2>2, DoneType DEF Done, Loaded, Counted
  <2> QED
    BY <2>1, <2>2
<1> QED
  BY <1>0, <1>2, <1>3, <1>4, <1>5, <1>6, QuietObjects DEF storage

-----------------------------------------------------------------------------
\* After a crash the objects that were flushed are there, with their parents, and the
\* index that is stored is none of a smaller number than theirs.
LEMMA CrashObjects ==
    ASSUME TypeInv, collective, ObjectParts, Crash
    PROVE  ObjectParts'
<1>0. kept \subseteq made /\ Leader \in Ranks /\ FoundInv /\ BoundInv /\ FreshInv
  BY LeaderAssumption DEF TypeInv, TreeInv, ObjectParts
<1>1. /\ UNCHANGED <<meta, links, glob, kept>> /\ made' = kept
      /\ pc'[Leader] = "idle" /\ at'[Leader] = 0 /\ Len(log') = 0
  BY <1>0 DEF Crash, storage, All
<1>2. Done(Leader)' = 0 /\ ~Loaded'
  BY <1>1 DEF Done, Loaded, Counted
<1>3. \A p : Found(p)' = Found(p) /\ Idx(p)' = Idx(p)
  BY <1>1, FoundSame
<1>4. FoundInv'
  BY <1>0, <1>1, <1>3 DEF FoundInv, ParentMade
<1>5. BoundInv'
  BY <1>0, <1>1, <1>2, <1>3 DEF BoundInv
<1>6. FreshInv'
  BY <1>1 DEF FreshInv
<1> QED
  BY <1>4, <1>5, <1>6 DEF ObjectParts

LEMMA InitObjects == Init => ObjectInv
<1> SUFFICES ASSUME Init PROVE FoundInv /\ BoundInv /\ FreshInv
  BY DEF ObjectInv
<1>1. /\ made = {} /\ kept = {} /\ glob = None /\ Len(log) = 0
      /\ pc[Leader] = "idle" /\ at[Leader] = 0
  BY LeaderAssumption DEF Init, All
<1>2. ~Loaded
  BY <1>1 DEF Loaded, Counted
<1> QED
  BY <1>1, <1>2 DEF FoundInv, BoundInv, FreshInv

LEMMA NextObjects ==
    TypeInv /\ TypeInv' /\ CountInv /\ OutcomeInv /\ ObjectInv /\ [Next]_vars => ObjectInv'
<1> SUFFICES ASSUME TypeInv, TypeInv', CountInv, OutcomeInv, ObjectInv, [Next]_vars, collective'
             PROVE  ObjectParts'
  BY DEF ObjectInv, ObjectParts
<1>1. collective
  BY FileKept DEF Crash
<1>2. ObjectParts /\ Leader \in Ranks /\ Outcome(Leader)
  BY <1>1, LeaderAssumption DEF ObjectInv, ObjectParts, OutcomeInv
<1>3. CASE Crash
  BY <1>1, <1>2, <1>3, CrashObjects
<1>4. ASSUME NEW r \in Ranks, Step(r) PROVE ObjectParts'
  <2>1. CASE r # Leader
    BY <1>1, <1>2, <1>4, <2>1, OtherObjects
  <2>2. CASE r = Leader
    <3>1. CASE Open(r) \/ ReadMetadata(r) \/ Broadcast(r) \/ BroadcastRest(r)
               \/ Receive(r) \/ ReceiveRest(r)
      BY <1>1, <1>2, <1>4, <3>1, OtherObjects
    <3>2. CASE Create(r) \/ WriteMetadata(r) \/ link_write(r) \/ FileOpen(r) \/ Flush(r)
      BY <1>1, <1>2, <2>2, <3>2, CreateObjects, WriteObjects, LinkObjects, FileOpenObjects,
         FlushObjects
    <3> QED
      BY <1>4, <3>1, <3>2 DEF Step
  <2> QED
    BY <2>1, <2>2
<1>5. ASSUME NEW r \in Ranks, Follow(r) \/ Call(r) PROVE ObjectParts'
  BY <1>1, <1>2, <1>5, BeginObjects
<1>6. CASE UNCHANGED vars
  <2>1. /\ UNCHANGED <<storage, made, kept, log, max_oid, pc, obj, call>>
        /\ Done(Leader)' = Done(Leader) /\ Loaded' = Loaded
    BY <1>6 DEF vars, handles, program, Done, Loaded, Counted
  <2>2. Done(Leader) \in Nat
    BY <1>2, DoneType DEF TypeInv
  <2> QED
    BY <1>2, <2>1, <2>2, QuietObjects
<1> QED
  BY <1>3, <1>4, <1>5, <1>6 DEF Next

\* In a collective file no object is lost: whatever the ranks create, flush, close and
\* open again, and whenever the job dies, each object created since the last crash or
\* flushed before it is found under its path with its own metadata and type.
THEOREM ObjectsKept == Spec => []ObjectsIntact
<1>1. ObjectInv => ObjectsIntact
  BY DEF ObjectInv, FoundInv, Found, ObjectsIntact
<1>2. Init => TypeInv /\ Mail /\ CountInv /\ OutcomeInv /\ ObjectInv
  BY InitTypes, InitMail, InitCount, InitOutcome, InitObjects
<1>3. TypeInv /\ Mail /\ CountInv /\ OutcomeInv /\ ObjectInv /\ [Next]_vars
        => (TypeInv /\ Mail /\ CountInv /\ OutcomeInv /\ ObjectInv)'
  BY NextTypes, NextMail, NextCount, NextOutcome, NextObjects
<1> QED
  BY <1>1, <1>2, <1>3, PTL DEF Spec
==============================================================================
