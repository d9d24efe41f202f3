---------------------------- MODULE DeliveryProofs ----------------------------
(***************************************************************************)
(* The two ways a credential takes: from the watcher to the service        *)
(* (UpdatePipeline), and between its file and the remote copy of the store *)
(* (TokenMirror).                                                          *)
(*                                                                         *)
(* For any set of credentials, any capacity of the channel and any number  *)
(* of updates: the pipeline implements LatestVersion's safety, and the     *)
(* last update of a credential is never lost between its stages.  The      *)
(* stages are ordered by age: what the manager holds is older than what    *)
(* the consumer has drained, that is older than what is in the channel,    *)
(* that than the batch, and that than the pending map.                     *)
(*                                                                         *)
(* For any number of changes, saves, failures and crashes: what was saved  *)
(* survives, and the remote copy follows the file.                         *)
(***************************************************************************)
EXTENDS UpdatePipeline, TokenMirror, FiniteSetTheorems, TLAPS

-----------------------------------------------------------------------------
(* The pipeline: what belongs together, and the order of age.              *)

\* The two structures of a stage belong together: a credential is listed in
\* the order exactly once and exactly when the map has an update of it.
Listed(s, m) == \A i \in Ids : m[i] # 0 <=> \E k \in DOMAIN s : s[k] = i
Once(s) == \A j, k \in DOMAIN s : s[j] = s[k] => j = k

StagesMatch ==
    /\ Listed(pendingOrder, pendingUpdates) /\ Once(pendingOrder)
    /\ Listed(order, byID) /\ Once(order)

\* The consumer's loop over the order ends with its last element.
ApplyingSome == applying => order # <<>>

\* Where an update is newer than all that the later stages have of it.
Behind(u, n) == applied[u] < n /\ byID[u] < n /\ n <= issued[u]

Drained == \A i \in Ids : applied[i] <= issued[i] /\ (byID[i] # 0 => applied[i] < byID[i])
                            /\ byID[i] <= issued[i]

Queued ==
    /\ \A k \in DOMAIN queue : Behind(queue[k].id, queue[k].no)
    /\ \A j, k \in DOMAIN queue :
          j < k /\ queue[j].id = queue[k].id => queue[j].no < queue[k].no

Batched ==
    /\ \A k \in DOMAIN batch : Behind(batch[k].id, batch[k].no)
    /\ \A j, k \in DOMAIN batch : j < k => batch[j].id # batch[k].id
    /\ \A k \in DOMAIN batch, j \in DOMAIN queue :
          queue[j].id = batch[k].id => queue[j].no < batch[k].no

Pending ==
    \A i \in Ids : pendingUpdates[i] # 0 =>
        /\ Behind(i, pendingUpdates[i])
        /\ \A k \in DOMAIN batch : batch[k].id = i => batch[k].no < pendingUpdates[i]
        /\ \A k \in DOMAIN queue : queue[k].id = i => queue[k].no < pendingUpdates[i]

ByAge == Drained /\ Queued /\ Batched /\ Pending

IInv == TypeOK /\ StagesMatch /\ ApplyingSome /\ ByAge

-----------------------------------------------------------------------------
(* A listing of a finite set meets every member of it, and each once.      *)

LEMMA ListingIsOnto ==
    ASSUME NEW T, IsFiniteSet(T), NEW s \in Listings(T)
    PROVE  /\ s \in Seq(T) /\ DOMAIN s = 1 .. Cardinality(T)
           /\ \A j, k \in DOMAIN s : s[j] = s[k] => j = k
           /\ \A t \in T : \E k \in DOMAIN s : s[k] = t
<1> DEFINE D == 1 .. Cardinality(T)
<1>1. Cardinality(T) \in Nat
  BY FS_CardinalityType
<1>2. s \in [D -> T] /\ \A j, k \in D : j # k => s[j] # s[k]
  BY DEF Listings
<1>3. IsFiniteSet(D) /\ Cardinality(D) = Cardinality(T)
  BY <1>1, FS_Interval
<1>4. s \in Injection(D, T)
  BY <1>2 DEF Injection, IsInjective
<1>5. s \in Surjection(D, T)
  BY <1>3, <1>4, FS_Injection
<1>6. \A t \in T : \E k \in D : s[k] = t
  BY <1>5 DEF Surjection
<1>7. s \in Seq(T)
  BY <1>1, <1>2
<1> QED BY <1>2, <1>6, <1>7

-----------------------------------------------------------------------------
(* Sequences.                                                              *)

LEMMA TailFacts ==
    ASSUME NEW S, NEW s \in Seq(S), s # <<>>
    PROVE  /\ Head(s) = s[1] /\ 1 \in DOMAIN s /\ Head(s) \in S
           /\ Tail(s) \in Seq(S) /\ Len(Tail(s)) = Len(s) - 1
           /\ \A k \in DOMAIN Tail(s) : k \in Nat /\ k + 1 \in DOMAIN s /\ Tail(s)[k] = s[k + 1]
           /\ \A k \in DOMAIN s : k \in Nat /\ (k = 1 \/ k - 1 \in DOMAIN Tail(s))
OBVIOUS

LEMMA AppendFacts ==
    ASSUME NEW S, NEW s \in Seq(S), NEW e \in S
    PROVE  /\ Append(s, e) \in Seq(S) /\ Len(Append(s, e)) = Len(s) + 1
           /\ \A k \in DOMAIN s : k \in DOMAIN Append(s, e) /\ k < Len(s) + 1
                                    /\ Append(s, e)[k] = s[k]
           /\ Len(s) + 1 \in DOMAIN Append(s, e) /\ Append(s, e)[Len(s) + 1] = e
           /\ \A k \in DOMAIN Append(s, e) :
                 k \in Nat /\ (k \in DOMAIN s \/ k = Len(s) + 1)
OBVIOUS

LEMMA ConcatFacts ==
    ASSUME NEW S, NEW s \in Seq(S), NEW t \in Seq(S)
    PROVE  /\ s \o t \in Seq(S)
           /\ \A k \in DOMAIN s : k \in DOMAIN (s \o t) /\ (s \o t)[k] = s[k]
           /\ \A k \in DOMAIN t : Len(s) + k \in DOMAIN (s \o t) /\ (s \o t)[Len(s) + k] = t[k]
           /\ \A k \in DOMAIN (s \o t) :
                 \/ k \in DOMAIN s
                 \/ k - Len(s) \in DOMAIN t /\ (s \o t)[k] = t[k - Len(s)]
OBVIOUS

-----------------------------------------------------------------------------
\* The inductive invariant holds at the start ...
LEMMA InitIInv == Init => IInv
<1> SUFFICES ASSUME Init PROVE IInv
  OBVIOUS
<1> USE PipelineAssumption DEF Init, Nothing
<1>1. <<>> \in Seq(Ids) /\ <<>> \in Seq(Update) /\ Len(<<>>) = 0 /\ DOMAIN <<>> = {}
  OBVIOUS
<1>2. TypeOK
  <2>1. issued \in [Ids -> Nat] /\ pendingUpdates \in [Ids -> Nat] /\ byID \in [Ids -> Nat]
          /\ applied \in [Ids -> Nat]
    OBVIOUS
  <2>2. pendingOrder \in Seq(Ids) /\ order \in Seq(Ids) /\ batch \in Seq(Update)
          /\ queue \in Seq(Update) /\ applying \in BOOLEAN
    BY <1>1
  <2>3. Len(queue) <= Capacity
    BY <1>1
  <2> QED BY <2>1, <2>2, <2>3 DEF TypeOK
<1>3. StagesMatch /\ ApplyingSome
  BY <1>1 DEF StagesMatch, Listed, Once, ApplyingSome
<1>4. ByAge
  BY <1>1 DEF ByAge, Drained, Queued, Batched, Pending
<1> QED BY <1>2, <1>3, <1>4 DEF IInv

-----------------------------------------------------------------------------
(* One lemma for each action.                                              *)

LEMMA DispatchStep ==
    ASSUME IInv, NEW S \in SUBSET Ids, DispatchAuthUpdates(S)
    PROVE  IInv'
<1> DEFINE T == {i \in S : pendingUpdates[i] = 0}
<1> USE DEF IInv, DispatchAuthUpdates
<1>1. PICK s \in Listings(T) : pendingOrder' = pendingOrder \o s
  OBVIOUS
<1>2. IsFiniteSet(T)
  BY PipelineAssumption, FS_Subset
<1>3. /\ s \in Seq(T)
      /\ \A j, k \in DOMAIN s : s[j] = s[k] => j = k
      /\ \A i \in T : \E k \in DOMAIN s : s[k] = i
  BY <1>2, ListingIsOnto
<1>4. s \in Seq(Ids) /\ pendingOrder \in Seq(Ids) /\ \A k \in DOMAIN s : s[k] \in T
  BY <1>3 DEF TypeOK
<1>5. \A i \in Ids :
        /\ issued[i] \in Nat /\ issued'[i] \in Nat
        /\ pendingUpdates[i] \in Nat /\ pendingUpdates'[i] \in Nat
        /\ i \in S => issued'[i] = issued[i] + 1 /\ pendingUpdates'[i] = issued[i] + 1
        /\ i \notin S => issued'[i] = issued[i] /\ pendingUpdates'[i] = pendingUpdates[i]
  BY DEF TypeOK, Merged
<1>6. pendingOrder' \in Seq(Ids)
  BY <1>1, <1>4, ConcatFacts
<1>7. TypeOK'
  BY <1>5, <1>6 DEF TypeOK, Merged
<1>8. Listed(pendingOrder', pendingUpdates')
  <2> SUFFICES ASSUME NEW i \in Ids
               PROVE  pendingUpdates'[i] # 0 <=> \E k \in DOMAIN pendingOrder' : pendingOrder'[k] = i
    BY DEF Listed
  <2>1. pendingUpdates[i] # 0 <=> \E k \in DOMAIN pendingOrder : pendingOrder[k] = i
    BY DEF StagesMatch, Listed
  <2>2. pendingUpdates'[i] # 0 <=> pendingUpdates[i] # 0 \/ i \in T
    BY <1>5
  <2>3. (\E k \in DOMAIN pendingOrder' : pendingOrder'[k] = i)
          <=> (\E k \in DOMAIN pendingOrder : pendingOrder[k] = i) \/ (\E k \in DOMAIN s : s[k] = i)
    <3>1. /\ \A k \in DOMAIN pendingOrder :
                k \in DOMAIN pendingOrder' /\ pendingOrder'[k] = pendingOrder[k]
          /\ \A k \in DOMAIN s : /\ Len(pendingOrder) + k \in DOMAIN pendingOrder'
                                 /\ pendingOrder'[Len(pendingOrder) + k] = s[k]
          /\ \A k \in DOMAIN pendingOrder' :
                \/ k \in DOMAIN pendingOrder
                \/ /\ k - Len(pendingOrder) \in DOMAIN s
                   /\ pendingOrder'[k] = s[k - Len(pendingOrder)]
      BY <1>1, <1>4, ConcatFacts
    <3> QED BY <3>1
  <2>4. i \in T <=> \E k \in DOMAIN s : s[k] = i
    BY <1>3, <1>4
  <2> QED BY <2>1, <2>2, <2>3, <2>4
<1>9. Once(pendingOrder')
  <2>1. \A k \in DOMAIN pendingOrder : pendingUpdates[pendingOrder[k]] # 0
    BY <1>4 DEF StagesMatch, Listed
  <2>2. \A k \in DOMAIN pendingOrder, j \in DOMAIN s : pendingOrder[k] # s[j]
    BY <1>4, <2>1
  <2> QED BY <1>1, <1>3, <1>4, <2>2, ConcatFacts DEF StagesMatch, Once
<1>10. StagesMatch' /\ ApplyingSome'
  BY <1>8, <1>9 DEF StagesMatch, ApplyingSome
<1>11. ByAge'
  <2>1. \A u \in Ids, n \in Nat : Behind(u, n) => Behind(u, n)' /\ n < issued[u] + 1
    BY <1>5 DEF Behind
  <2>2. (\A k \in DOMAIN batch : batch[k] \in Update)
      /\ \A k \in DOMAIN queue : queue[k] \in Update
    BY DEF TypeOK
  <2>3. Drained'
    BY <1>5 DEF ByAge, Drained, TypeOK
  <2>4. Queued' /\ Batched'
    BY <2>1, <2>2 DEF ByAge, Queued, Batched, Update
  <2>5. Pending'
    <3> SUFFICES ASSUME NEW i \in Ids, pendingUpdates'[i] # 0
                 PROVE  /\ Behind(i, pendingUpdates[i])'
                        /\ \A k \in DOMAIN batch : batch[k].id = i => batch[k].no < pendingUpdates'[i]
                        /\ \A k \in DOMAIN queue : queue[k].id = i => queue[k].no < pendingUpdates'[i]
      BY DEF Pending
    <3>1. CASE i \in S
      <4>1. Behind(i, pendingUpdates[i])'
        BY <1>5, <3>1 DEF ByAge, Drained, Behind, TypeOK
      <4> QED BY <1>5, <2>1, <2>2, <3>1, <4>1 DEF ByAge, Queued, Batched, Update
    <3>2. CASE i \notin S
      BY <1>5, <2>1, <3>2 DEF ByAge, Pending
    <3> QED BY <3>1, <3>2
  <2> QED BY <2>3, <2>4, <2>5 DEF ByAge
<1> QED BY <1>7, <1>10, <1>11

LEMMA NextPendingBatchStep == ASSUME IInv, NextPendingBatch PROVE IInv'
<1> USE DEF IInv, NextPendingBatch
<1>1. pendingOrder \in Seq(Ids) /\ pendingUpdates \in [Ids -> Nat]
  BY DEF TypeOK
<1>2. DOMAIN batch' = DOMAIN pendingOrder
      /\ \A k \in DOMAIN pendingOrder :
            pendingOrder[k] \in Ids
              /\ batch'[k] = [id |-> pendingOrder[k], no |-> pendingUpdates[pendingOrder[k]]]
  BY <1>1
<1>3. batch' \in Seq(Update)
  BY <1>1, <1>2 DEF Update
<1>4. TypeOK'
  BY <1>3 DEF TypeOK, Nothing
<1>5. StagesMatch' /\ ApplyingSome'
  BY DEF StagesMatch, Listed, Once, ApplyingSome, Nothing
<1>6. \A k \in DOMAIN pendingOrder : pendingUpdates[pendingOrder[k]] # 0
  BY <1>2 DEF StagesMatch, Listed
<1>7. Batched'
  <2>1. \A k \in DOMAIN batch' : Behind(batch[k].id, batch[k].no)'
    BY <1>2, <1>6 DEF ByAge, Pending, Behind
  <2>2. \A j, k \in DOMAIN batch' : j < k => batch'[j].id # batch'[k].id
    BY <1>1, <1>2 DEF StagesMatch, Once
  <2>3. \A k \in DOMAIN batch', j \in DOMAIN queue :
          queue[j].id = batch'[k].id => queue[j].no < batch'[k].no
    BY <1>2, <1>6 DEF ByAge, Pending
  <2> QED BY <2>1, <2>2, <2>3 DEF Batched
<1>8. Drained' /\ Queued' /\ Pending'
  BY DEF ByAge, Drained, Queued, Pending, Behind, Nothing
<1> QED BY <1>4, <1>5, <1>7, <1>8 DEF ByAge

LEMMA SendStep == ASSUME IInv, Send PROVE IInv'
<1> USE DEF IInv, Send, HasRoom, Enqueued
<1> DEFINE u == Head(batch)
<1>1. batch \in Seq(Update) /\ queue \in Seq(Update) /\ batch # <<>>
  BY DEF TypeOK
<1>2. /\ u = batch[1] /\ 1 \in DOMAIN batch /\ u \in Update /\ batch' \in Seq(Update)
      /\ \A k \in DOMAIN batch' : k \in Nat /\ k + 1 \in DOMAIN batch /\ batch'[k] = batch[k + 1]
  BY <1>1, TailFacts
<1>3. /\ queue' \in Seq(Update) /\ Len(queue') = Len(queue) + 1
      /\ \A k \in DOMAIN queue : k \in DOMAIN queue' /\ k < Len(queue) + 1 /\ queue'[k] = queue[k]
      /\ Len(queue) + 1 \in DOMAIN queue' /\ queue'[Len(queue) + 1] = u
      /\ \A k \in DOMAIN queue' : k \in Nat /\ (k \in DOMAIN queue \/ k = Len(queue) + 1)
  BY <1>1, <1>2, AppendFacts
<1> HIDE DEF u
<1>4. TypeOK'
  <2>1. Len(queue) \in Nat /\ Len(queue) < Capacity
    BY <1>1
  <2> QED BY <1>2, <1>3, <2>1, PipelineAssumption DEF TypeOK
<1>5. StagesMatch' /\ ApplyingSome'
  BY DEF StagesMatch, ApplyingSome
<1>6. Queued'
  <2>1. \A k \in DOMAIN queue' : Behind(queue[k].id, queue[k].no)'
    BY <1>2, <1>3 DEF ByAge, Queued, Batched, Behind
  <2>2. ASSUME NEW j \in DOMAIN queue', NEW k \in DOMAIN queue', j < k,
               queue'[j].id = queue'[k].id
        PROVE  queue'[j].no < queue'[k].no
    <3>1. Len(queue) \in Nat
      BY <1>1
    <3>2. j \in DOMAIN queue
      BY <1>3, <2>2, <3>1
    <3>3. CASE k \in DOMAIN queue
      BY <1>3, <2>2, <3>2, <3>3 DEF ByAge, Queued
    <3>4. CASE k = Len(queue) + 1
      BY <1>2, <1>3, <2>2, <3>2, <3>4 DEF ByAge, Batched
    <3> QED BY <1>3, <3>3, <3>4
  <2> QED BY <2>1, <2>2 DEF Queued
<1>7. Batched'
  <2>1. \A k \in DOMAIN batch' : batch'[k].id # u.id
    BY <1>2 DEF ByAge, Batched
  <2>2. \A k \in DOMAIN batch' : Behind(batch[k].id, batch[k].no)'
    BY <1>2 DEF ByAge, Batched, Behind
  <2>3. \A j, k \in DOMAIN batch' : j < k => batch'[j].id # batch'[k].id
    BY <1>2 DEF ByAge, Batched
  <2>4. \A k \in DOMAIN batch', j \in DOMAIN queue' :
          queue'[j].id = batch'[k].id => queue'[j].no < batch'[k].no
    <3> SUFFICES ASSUME NEW k \in DOMAIN batch', NEW j \in DOMAIN queue',
                        queue'[j].id = batch'[k].id
                 PROVE  queue'[j].no < batch'[k].no
      OBVIOUS
    <3>1. k + 1 \in DOMAIN batch /\ batch'[k] = batch[k + 1]
      BY <1>2
    <3>2. j \in DOMAIN queue /\ queue'[j] = queue[j]
      BY <1>3, <2>1
    <3> QED BY <3>1, <3>2 DEF ByAge, Batched
  <2> QED BY <2>2, <2>3, <2>4 DEF Batched
<1>8. Drained' /\ Pending'
  <2>1. Drained'
    BY DEF ByAge, Drained
  <2>2. Pending'
    BY <1>2, <1>3 DEF ByAge, Pending, Behind
  <2> QED BY <2>1, <2>2
<1> QED BY <1>4, <1>5, <1>6, <1>7, <1>8 DEF ByAge

LEMMA ReceiveStep == ASSUME IInv, Receive PROVE IInv'
<1> USE DEF IInv, Receive
<1> DEFINE u == Head(queue)
<1>1. queue \in Seq(Update) /\ queue # <<>> /\ order \in Seq(Ids)
  BY DEF TypeOK
<1>2. /\ u = queue[1] /\ 1 \in DOMAIN queue /\ u \in Update
      /\ queue' \in Seq(Update) /\ Len(queue') = Len(queue) - 1
      /\ \A k \in DOMAIN queue' : k \in Nat /\ k + 1 \in DOMAIN queue /\ queue'[k] = queue[k + 1]
  BY <1>1, TailFacts
<1>3. u.id \in Ids /\ u.no \in Nat
  BY <1>2 DEF Update
<1>4. /\ order' = IF byID[u.id] = 0 THEN Append(order, u.id) ELSE order
      /\ byID' = [byID EXCEPT ![u.id] = u.no]
  OBVIOUS
<1>5. Behind(u.id, u.no)
  BY <1>2 DEF ByAge, Queued
<1>6. order' \in Seq(Ids)
  BY <1>1, <1>3, <1>4, AppendFacts
<1> HIDE DEF u
<1>7. TypeOK'
  <2>1. Len(queue) \in Nat /\ Len(queue) <= Capacity
    BY <1>1 DEF TypeOK
  <2> QED BY <1>2, <1>3, <1>4, <1>6, <2>1, PipelineAssumption DEF TypeOK
<1>8. /\ \A i \in Ids : applied[i] \in Nat /\ issued[i] \in Nat /\ byID[i] \in Nat
      /\ \A i \in Ids : byID'[i] = IF i = u.id THEN u.no ELSE byID[i]
      /\ u.no # 0 /\ byID[u.id] < u.no
  BY <1>3, <1>4, <1>5 DEF TypeOK, Behind
<1>9. Listed(order', byID') /\ Once(order')
  <2>1. Listed(order, byID) /\ Once(order)
    BY DEF StagesMatch
  <2>2. CASE byID[u.id] # 0
    BY <1>4, <1>8, <2>1, <2>2 DEF Listed, Once
  <2>3. CASE byID[u.id] = 0
    <3>1. order' = Append(order, u.id)
      BY <1>4, <2>3
    <3>2. \A k \in DOMAIN order : order[k] # u.id
      BY <1>3, <2>1, <2>3 DEF Listed
    <3>3. /\ \A k \in DOMAIN order : k \in DOMAIN order' /\ order'[k] = order[k]
          /\ Len(order) + 1 \in DOMAIN order' /\ order'[Len(order) + 1] = u.id
          /\ \A k \in DOMAIN order' : k \in DOMAIN order \/ k = Len(order) + 1
      BY <1>1, <1>3, <3>1, AppendFacts
    <3>4. Listed(order', byID')
      BY <1>8, <2>1, <3>2, <3>3 DEF Listed
    <3>5. Once(order')
      BY <2>1, <3>2, <3>3 DEF Once
    <3> QED BY <3>4, <3>5
  <2> QED BY <2>2, <2>3
<1>10. StagesMatch' /\ ApplyingSome'
  BY <1>9 DEF StagesMatch, ApplyingSome
<1>11. \A i \in Ids, n \in Nat : Behind(i, n) /\ (i = u.id => u.no < n) => Behind(i, n)'
  BY <1>8 DEF Behind
<1>12. Drained'
  BY <1>5, <1>8 DEF ByAge, Drained, Behind
<1>13. Queued'
  <2>1. \A k \in DOMAIN queue' : queue'[k] \in Update
    BY <1>2
  <2>2. \A k \in DOMAIN queue' :
          Behind(queue'[k].id, queue'[k].no) /\ (queue'[k].id = u.id => u.no < queue'[k].no)
    BY <1>2 DEF ByAge, Queued
  <2>3. \A k \in DOMAIN queue' : Behind(queue[k].id, queue[k].no)'
    BY <1>11, <2>1, <2>2 DEF Update
  <2> QED BY <1>2, <2>3 DEF ByAge, Queued
<1>14. Batched'
  <2>1. \A k \in DOMAIN batch : batch[k] \in Update
    BY DEF TypeOK
  <2>2. \A k \in DOMAIN batch : Behind(batch[k].id, batch[k].no)'
    BY <1>2, <1>11, <2>1 DEF ByAge, Batched, Update
  <2> QED BY <1>2, <2>2 DEF ByAge, Batched
<1>15. Pending'
  <2>1. \A i \in Ids : pendingUpdates[i] \in Nat
    BY DEF TypeOK
  <2> QED BY <1>2, <1>11, <2>1 DEF ByAge, Pending
<1> QED BY <1>7, <1>10, <1>12, <1>13, <1>14, <1>15 DEF ByAge

LEMMA HandleStep == ASSUME IInv, HandleAuthUpdates PROVE IInv'
BY DEF HandleAuthUpdates, IInv, TypeOK, StagesMatch, ApplyingSome, ByAge, Drained, Queued,
       Batched, Pending, Behind

LEMMA ApplyStep ==
    ASSUME IInv, Apply
    PROVE  IInv' /\ Latest!Take(Head(order)) /\ Head(order) \in Ids
<1> USE DEF IInv, Apply, LeftToApply
<1> DEFINE i == Head(order)
<1>1. order \in Seq(Ids) /\ order # <<>>
  BY DEF TypeOK, ApplyingSome
<1>2. /\ i = order[1] /\ 1 \in DOMAIN order /\ i \in Ids /\ order' \in Seq(Ids)
      /\ \A k \in DOMAIN order' : k \in Nat /\ k + 1 \in DOMAIN order /\ order'[k] = order[k + 1]
      /\ \A k \in DOMAIN order : k \in Nat /\ (k = 1 \/ k - 1 \in DOMAIN order')
  BY <1>1, TailFacts
<1>3. applied' = [applied EXCEPT ![i] = byID[i]] /\ byID' = [byID EXCEPT ![i] = 0]
  OBVIOUS
<1>4. applying' = (order' # <<>>) /\ UNCHANGED <<issued, pendingUpdates, pendingOrder, batch,
    queue>>
  OBVIOUS
<1>5. byID[i] # 0
  BY <1>2 DEF StagesMatch, Listed
<1> HIDE DEF i
<1>6. \A j \in Ids : /\ applied[j] \in Nat /\ issued[j] \in Nat /\ byID[j] \in Nat
                     /\ pendingUpdates[j] \in Nat
                     /\ applied'[j] = IF j = i THEN byID[i] ELSE applied[j]
                     /\ byID'[j] = IF j = i THEN 0 ELSE byID[j]
  BY <1>2, <1>3 DEF TypeOK
<1>7. TypeOK'
  BY <1>2, <1>3, <1>4, <1>6 DEF TypeOK
<1>8. \A j \in Ids, n \in Nat : Behind(j, n) => Behind(j, n)'
  BY <1>4, <1>6 DEF Behind
<1>9. (\A k \in DOMAIN batch : batch[k] \in Update) /\ \A k \in DOMAIN queue : queue[k] \in Update
  BY DEF TypeOK
<1>10. StagesMatch' /\ ApplyingSome'
  <2>1. Once(order')
    BY <1>2 DEF StagesMatch, Once
  <2>2. Listed(order', byID')
    <3> SUFFICES ASSUME NEW j \in Ids
                 PROVE  byID'[j] # 0 <=> \E k \in DOMAIN order' : order'[k] = j
      BY DEF Listed
    <3>1. CASE j = i
      <4>1. \A k \in DOMAIN order' : order'[k] # i
        BY <1>2 DEF StagesMatch, Once
      <4> QED BY <1>6, <3>1, <4>1
    <3>2. CASE j # i
      <4>1. byID[j] # 0 <=> \E k \in DOMAIN order : order[k] = j
        BY DEF StagesMatch, Listed
      <4>2. (\E k \in DOMAIN order : order[k] = j) => \E k \in DOMAIN order' : order'[k] = j
        <5> SUFFICES ASSUME NEW k \in DOMAIN order, order[k] = j
                     PROVE  \E l \in DOMAIN order' : order'[l] = j
          OBVIOUS
        <5>1. k - 1 \in DOMAIN order' /\ k \in Nat
          BY <1>2, <3>2
        <5> QED BY <1>2, <5>1
      <4> QED BY <1>2, <1>6, <3>2, <4>1, <4>2
    <3> QED BY <3>1, <3>2
  <2> QED BY <1>4, <2>1, <2>2 DEF StagesMatch, ApplyingSome
<1>11. ByAge'
  <2>1. Drained'
    BY <1>4, <1>6 DEF ByAge, Drained
  <2>2. Queued' /\ Batched'
    BY <1>4, <1>8, <1>9 DEF ByAge, Queued, Batched, Update
  <2>3. Pending'
    BY <1>4, <1>6, <1>8 DEF ByAge, Pending
  <2> QED BY <2>1, <2>2, <2>3 DEF ByAge
<1>12. Latest!Take(i)
  <2>1. byID[i] \in applied[i] + 1 .. issued[i]
    BY <1>2, <1>5, <1>6 DEF ByAge, Drained
  <2> QED BY <1>3, <1>4, <2>1 DEF Latest!Take
<1> QED BY <1>2, <1>7, <1>10, <1>11, <1>12 DEF i

-----------------------------------------------------------------------------
(* What the pipeline promises.                                             *)

LEMMA NextStep == IInv /\ [Next]_vars => IInv'
<1> SUFFICES ASSUME IInv, [Next]_vars PROVE IInv'
  OBVIOUS
<1>1. CASE UNCHANGED vars
  BY <1>1 DEF vars, IInv, TypeOK, StagesMatch, ApplyingSome, ByAge, Drained, Queued, Batched,
              Pending, Behind
<1> QED BY <1>1, DispatchStep, NextPendingBatchStep, SendStep, ReceiveStep, HandleStep,
           ApplyStep DEF Next

\* ... and in every reachable state.
LEMMA IInvHolds == Spec => []IInv
<1> QED BY InitIInv, NextStep, PTL DEF Spec, SafeSpec

\* Every stage of the pipeline keeps its types, and the channel its capacity.
THEOREM TypeCorrect == Spec => []TypeOK
<1>1. IInv => TypeOK
  BY DEF IInv
<1> QED BY <1>1, IInvHolds, PTL

\* Every step of the pipeline maps to a step of LatestVersion or to none: the
\* watcher hands over, the manager goes on to a later update, and what happens
\* between them cannot be seen.
LEMMA RefinesStep == IInv /\ [Next]_vars => [Latest!Next]_<<issued, applied>>
<1> SUFFICES ASSUME IInv, [Next]_vars PROVE [Latest!Next]_<<issued, applied>>
  OBVIOUS
<1>1. CASE UNCHANGED vars
  BY <1>1 DEF vars
<1>2. ASSUME NEW S \in SUBSET Ids, DispatchAuthUpdates(S) PROVE Latest!Next
  BY <1>2 DEF DispatchAuthUpdates, Latest!Next, Latest!Ask
<1>3. CASE Apply
  BY <1>3, ApplyStep DEF Latest!Next
<1>4. CASE NextPendingBatch \/ Send \/ Receive \/ HandleAuthUpdates
  BY <1>4 DEF NextPendingBatch, Send, Receive, HandleAuthUpdates
<1> QED BY <1>1, <1>2, <1>3, <1>4 DEF Next

\* The pipeline implements the safety of LatestVersion: whatever is merged,
\* waits or is drained, the manager never goes back to an older update.
THEOREM PipelineNeverGoesBack == Spec => NeverGoesBack
<1>1. Init => Latest!Init
  BY DEF Init, Latest!Init, Nothing
<1>2. IInv /\ [Next]_vars => [Latest!Next]_Latest!vars
  BY RefinesStep DEF Latest!vars
<1> QED BY <1>1, <1>2, IInvHolds, PTL DEF Spec, SafeSpec, NeverGoesBack, Latest!SafeSpec

\* Where the last update of i is.
Somewhere(i) ==
    \/ applied[i] = issued[i]
    \/ byID[i] = issued[i]
    \/ pendingUpdates[i] = issued[i]
    \/ \E k \in DOMAIN batch : batch[k] = [id |-> i, no |-> issued[i]]
    \/ \E k \in DOMAIN queue : queue[k] = [id |-> i, no |-> issued[i]]

LEMMA SomewhereStep ==
    ASSUME IInv, [Next]_vars, NEW i \in Ids, Somewhere(i)
    PROVE  Somewhere(i)'
<1> USE DEF IInv, Somewhere
<1>1. CASE UNCHANGED vars
  BY <1>1 DEF vars
<1>2. ASSUME NEW S \in SUBSET Ids, DispatchAuthUpdates(S) PROVE Somewhere(i)'
  BY <1>2 DEF DispatchAuthUpdates, Merged
<1>3. CASE NextPendingBatch
  <2>1. CASE issued[i] = 0
    BY <1>3, <2>1 DEF NextPendingBatch, ByAge, Drained, TypeOK
  <2>2. CASE pendingUpdates[i] = issued[i] /\ issued[i] # 0
    <3>1. PICK k \in DOMAIN pendingOrder : pendingOrder[k] = i
      BY <2>2 DEF StagesMatch, Listed
    <3>2. k \in DOMAIN batch' /\ batch'[k] = [id |-> i, no |-> issued[i]]
      BY <1>3, <2>2, <3>1 DEF NextPendingBatch, TypeOK
    <3> QED BY <1>3, <3>2 DEF NextPendingBatch
  <2> QED BY <1>3, <2>1, <2>2 DEF NextPendingBatch
<1>4. CASE Send
  <2>1. batch \in Seq(Update) /\ queue \in Seq(Update) /\ batch # <<>>
          /\ batch' = Tail(batch) /\ queue' = Append(queue, Head(batch))
          /\ UNCHANGED <<issued, applied, byID, pendingUpdates>>
    BY <1>4 DEF Send, Enqueued, TypeOK
  <2>2. /\ Head(batch) = batch[1] /\ Head(batch) \in Update
        /\ \A k \in DOMAIN batch' : batch'[k] = batch[k + 1]
        /\ \A k \in DOMAIN batch : k \in Nat /\ (k = 1 \/ k - 1 \in DOMAIN batch')
    BY <2>1, TailFacts
  <2>3. /\ \A k \in DOMAIN queue : k \in DOMAIN queue' /\ queue'[k] = queue[k]
        /\ Len(queue) + 1 \in DOMAIN queue' /\ queue'[Len(queue) + 1] = batch[1]
    BY <2>1, <2>2, AppendFacts
  <2>4. ASSUME NEW k \in DOMAIN batch, batch[k] = [id |-> i, no |-> issued[i]]
        PROVE  Somewhere(i)'
    <3>1. CASE k = 1
      BY <2>1, <2>3, <2>4, <3>1
    <3>2. CASE k - 1 \in DOMAIN batch'
      <4>1. batch'[k - 1] = batch[k]
        BY <2>2, <3>2
      <4> QED BY <2>1, <2>4, <3>2, <4>1
    <3> QED BY <2>2, <3>1, <3>2
  <2> QED BY <2>1, <2>3, <2>4
<1>5. CASE Receive
  <2> DEFINE u == Head(queue)
  <2>1. queue \in Seq(Update) /\ queue # <<>> /\ queue' = Tail(queue)
          /\ byID' = [byID EXCEPT ![u.id] = u.no]
          /\ UNCHANGED <<issued, applied, batch, pendingUpdates>>
    BY <1>5 DEF Receive, TypeOK
  <2>2. /\ u = queue[1] /\ 1 \in DOMAIN queue /\ u \in Update
        /\ \A k \in DOMAIN queue' : queue'[k] = queue[k + 1]
        /\ \A k \in DOMAIN queue : k \in Nat /\ (k = 1 \/ k - 1 \in DOMAIN queue')
    BY <2>1, TailFacts
  <2> HIDE DEF u
  <2>3. byID'[i] = IF i = u.id THEN u.no ELSE byID[i]
    BY <2>1 DEF TypeOK
  <2>4. CASE byID[i] = issued[i]
    <3>1. Behind(u.id, u.no) /\ u.no \in Nat
      BY <2>2 DEF ByAge, Queued, Update
    <3>2. i # u.id
      BY <2>4, <3>1 DEF Behind, TypeOK
    <3> QED BY <2>1, <2>3, <2>4, <3>2
  <2>5. ASSUME NEW k \in DOMAIN queue, queue[k] = [id |-> i, no |-> issued[i]]
        PROVE  Somewhere(i)'
    <3>1. CASE k = 1
      BY <2>1, <2>2, <2>3, <2>5, <3>1
    <3>2. CASE k - 1 \in DOMAIN queue'
      <4>1. queue'[k - 1] = queue[k]
        BY <2>2, <3>2
      <4> QED BY <2>1, <2>5, <3>2, <4>1
    <3> QED BY <2>2, <3>1, <3>2
  <2> QED BY <2>1, <2>4, <2>5
<1>6. CASE HandleAuthUpdates
  BY <1>6 DEF HandleAuthUpdates
<1>7. CASE Apply
  <2>1. Head(order) \in Ids /\ Latest!Take(Head(order))
    BY <1>7, ApplyStep
  <2>2. /\ applied' = [applied EXCEPT ![Head(order)] = byID[Head(order)]]
        /\ byID' = [byID EXCEPT ![Head(order)] = 0]
        /\ UNCHANGED <<issued, batch, queue, pendingUpdates>>
    BY <1>7 DEF Apply
  <2>3. CASE Head(order) = i
    <3>1. applied'[i] = byID[i] /\ applied'[i] \in applied[i] + 1 .. issued[i]
      BY <2>1, <2>2, <2>3 DEF Latest!Take, TypeOK
    <3>2. applied[i] # issued[i]
      BY <3>1 DEF TypeOK
    <3> QED BY <2>2, <3>1, <3>2
  <2>4. CASE Head(order) # i
    BY <2>1, <2>2, <2>4 DEF TypeOK
  <2> QED BY <2>3, <2>4
<1> QED BY <1>1, <1>2, <1>3, <1>4, <1>5, <1>6, <1>7 DEF Next

\* No stage loses the last update of a credential.
THEOREM LastUpdateIsSomewhere == Spec => []LastIsSomewhere
<1>1. Init => LastIsSomewhere
  BY DEF Init, LastIsSomewhere
<1>2. IInv /\ LastIsSomewhere /\ [Next]_vars => LastIsSomewhere'
  <2> SUFFICES ASSUME IInv, LastIsSomewhere, [Next]_vars PROVE LastIsSomewhere'
    OBVIOUS
  <2>1. \A i \in Ids : Somewhere(i)
    BY DEF LastIsSomewhere, Somewhere
  <2>2. \A i \in Ids : Somewhere(i)'
    BY <2>1, SomewhereStep
  <2> QED BY <2>2 DEF LastIsSomewhere, Somewhere
<1> QED BY <1>1, <1>2, IInvHolds, PTL DEF Spec, SafeSpec

-----------------------------------------------------------------------------
(* The mirror: contents and types.                                          *)

Contents == Nat \cup {None}
Holders == [op : {"free", "save", "sync", "delete"},
            at : {"-", "write", "read", "put"}, data : Contents \cup {Lost}]

\* What each step of the holder of the mutex carries.
HolderOK ==
  /\ holder \in Holders
  /\ holder.at = "-" => holder = Free
  /\ holder.at = "write" => holder.op = "save" /\ holder.data \in Nat \cup {Lost}
  /\ holder.at = "read" => holder.op \in {"save", "sync"}
  /\ holder.at = "put" => holder.op # "free" /\ holder.data \in Contents

MirrorTypes ==
  /\ kind \in Kinds
  /\ phase \in {"down", "serving", "watching"}
  /\ file \in Contents \cup {Empty}
  /\ remote \in Contents
  /\ HolderOK
  /\ upload \in Contents \cup {Lost}
  /\ removed \in Nat /\ syncs \in Nat /\ newest \in Nat
  /\ event \in BOOLEAN /\ missed \in BOOLEAN
  /\ known \in Contents
  /\ left \in [{"changes", "saves", "failures", "crashes"} -> Nat]

-----------------------------------------------------------------------------
(* Types                                                                    *)

LEMMA InitMirrorTypes == MirrorInit => MirrorTypes
<1> SUFFICES ASSUME MirrorInit PROVE MirrorTypes
  OBVIOUS
<1>1. HolderOK
  BY DEF MirrorInit, HolderOK, Holders, Contents, Free
<1>2. left \in [{"changes", "saves", "failures", "crashes"} -> Nat]
  BY MirrorAssumption DEF MirrorInit
<1>3. event \in BOOLEAN /\ missed \in BOOLEAN
  BY DEF MirrorInit
<1> QED
  BY <1>1, <1>2, <1>3 DEF MirrorInit, MirrorTypes, Contents

LEMMA NextMirrorTypes == MirrorTypes /\ [MirrorNext]_mirrorVars => MirrorTypes'
<1> SUFFICES ASSUME MirrorTypes, [MirrorNext]_mirrorVars PROVE MirrorTypes'
  OBVIOUS
<1> USE MirrorAssumption DEF Contents, Holders, HolderOK, Free, Lock, Up, Spend, disk,
        volatile
<1>1. ASSUME NEW v \in 1..(newest + 1), SaveMetadata(v) PROVE MirrorTypes'
  BY <1>1 DEF MirrorTypes, SaveMetadata, Saved, Relink, Becomes, Unlinked
<1>2. ASSUME NEW v \in 1..(newest + 1), SaveStorage(v) PROVE MirrorTypes'
  BY <1>2 DEF MirrorTypes, SaveStorage, Saved, Becomes
<1>3. CASE StorageWritten
  BY <1>3 DEF MirrorTypes, StorageWritten, Becomes
<1>4. CASE SyncLock
  BY <1>4 DEF MirrorTypes, SyncLock
<1>5. CASE DeleteLock
  <2>1. HolderOK'
    BY <1>5 DEF MirrorTypes, DeleteLock
  <2>2. CASE file = None
    BY <1>5, <2>1, <2>2 DEF MirrorTypes, DeleteLock
  <2>3. CASE file # None
    BY <1>5, <2>1, <2>3 DEF MirrorTypes, DeleteLock, Relink, Becomes, Unlinked
  <2> QED
    BY <2>2, <2>3
<1>6. CASE ReadFile
  BY <1>6 DEF MirrorTypes, ReadFile, Content
<1>7. CASE PutSucceeds
  BY <1>7 DEF MirrorTypes, PutSucceeds
<1>8. CASE PutFails
  BY <1>8 DEF MirrorTypes, PutFails
<1>9. CASE UploadBegins
  BY <1>9 DEF MirrorTypes, UploadBegins, Becomes
<1>10. CASE UploadEnds
  BY <1>10 DEF MirrorTypes, UploadEnds, Becomes
<1>11. CASE RemoveFile
  BY <1>11 DEF MirrorTypes, RemoveFile, Relink, Becomes, Unlinked
<1>12. CASE StartWatcher
  BY <1>12 DEF MirrorTypes, StartWatcher, Content
<1>13. CASE FileChanged
  <2>1. event' \in BOOLEAN
    BY <1>13 DEF FileChanged, Handled
  <2>2. HolderOK'
    BY <1>13 DEF MirrorTypes, FileChanged
  <2> QED
    BY <1>13, <2>1, <2>2 DEF MirrorTypes, FileChanged
<1>14. CASE FileIgnored
  BY <1>14 DEF MirrorTypes, FileIgnored, Handled
<1>15. CASE Crash
  <2>1. event' \in BOOLEAN /\ missed' \in BOOLEAN
    BY <1>15 DEF MirrorTypes, Crash
  <2>2. HolderOK'
    BY <1>15 DEF Crash
  <2>3. remote' \in Contents /\ file' \in Contents \cup {Empty}
    BY <1>15 DEF MirrorTypes, Crash
  <2>4. left' \in [{"changes", "saves", "failures", "crashes"} -> Nat]
    BY <1>15 DEF MirrorTypes, Crash
  <2> QED
    BY <1>15, <2>1, <2>2, <2>3, <2>4 DEF MirrorTypes, Crash
<1>16. CASE Bootstrap
  BY <1>16 DEF MirrorTypes, Bootstrap, Loaded
<1>17. CASE UNCHANGED mirrorVars
  BY <1>17 DEF MirrorTypes, mirrorVars
<1> QED
  BY <1>1, <1>2, <1>3, <1>4, <1>5, <1>6, <1>7, <1>8, <1>9, <1>10, <1>11, <1>12,
     <1>13, <1>14, <1>15, <1>16, <1>17 DEF MirrorNext

\* The file, its copy and everybody who works on them keep their types.
THEOREM MirrorTypesHold == MirrorSpec => []MirrorTypes
  BY InitMirrorTypes, NextMirrorTypes, PTL DEF MirrorSpec
-----------------------------------------------------------------------------
(* What was saved survives                                                  *)

\* The copy is one of the contents since the last Save or Delete that made it,
\* and so is whatever a call under way may make it; the holder of the mutex
\* brings a content that is not older than its own write.
SinceOK ==
  /\ remote \in since /\ tried \subseteq since
  /\ Up => Content(file) \in since
  /\ ~Up => holder = Free /\ (file = None \/ Content(file) \in since)
  /\ holder.at = "write" /\ holder.data = Lost => Content(file) \in tried
  /\ holder.at = "read" /\ holder.op = "save" => Content(file) \in tried
  /\ holder.at = "put" => holder.data \in since
  /\ holder.at = "put" /\ holder.op # "sync" =>
       holder.data \in tried /\ Content(file) \in tried

LEMMA NextSince == MirrorTypes /\ SinceOK /\ [MirrorNext]_mirrorVars => SinceOK'
<1> SUFFICES ASSUME MirrorTypes, SinceOK, [MirrorNext]_mirrorVars PROVE SinceOK'
  OBVIOUS
<1> USE MirrorAssumption DEF MirrorTypes, Contents, Holders, HolderOK, Free, Lock, Up,
        Spend, disk, volatile, Content
<1>1. ASSUME NEW v \in 1..(newest + 1), SaveMetadata(v) PROVE SinceOK'
  BY <1>1 DEF SinceOK, SaveMetadata, Saved, Relink, Becomes, Unlinked
<1>2. ASSUME NEW v \in 1..(newest + 1), SaveStorage(v) PROVE SinceOK'
  BY <1>2 DEF SinceOK, SaveStorage, Saved, Becomes
<1>3. CASE StorageWritten
  BY <1>3 DEF SinceOK, StorageWritten, Becomes
<1>4. CASE SyncLock
  BY <1>4 DEF SinceOK, SyncLock
<1>5. CASE DeleteLock
  BY <1>5 DEF SinceOK, DeleteLock, Relink, Becomes, Unlinked
<1>6. CASE ReadFile
  BY <1>6 DEF SinceOK, ReadFile
<1>7. CASE PutSucceeds
  BY <1>7 DEF SinceOK, PutSucceeds
<1>8. CASE PutFails
  BY <1>8 DEF SinceOK, PutFails
<1>9. CASE UploadBegins
  BY <1>9 DEF SinceOK, UploadBegins, Becomes, Meanwhile
<1>10. CASE UploadEnds
  <2>1. CASE upload = Lost
    <3>1. UNCHANGED <<phase, file, remote, since, tried, holder>>
      BY <1>10, <2>1 DEF UploadEnds
    <3> QED
      BY <3>1 DEF SinceOK
  <2>2. CASE upload # Lost
    <3>1. file' = upload /\ since' = since \cup {Content(upload)} /\ tried' \subseteq since'
      BY <1>10, <2>2 DEF SinceOK, UploadEnds, Becomes, Meanwhile
    <3>2. holder.op \in {"save", "delete"} => tried' = tried \cup {Content(upload)}
      BY <1>10, <2>2 DEF UploadEnds, Meanwhile
    <3>3. UNCHANGED <<phase, remote, holder>>
      BY <1>10 DEF UploadEnds
    <3> QED
      BY <1>10, <3>1, <3>2, <3>3 DEF SinceOK, UploadEnds
  <2> QED
    BY <2>1, <2>2
<1>11. CASE RemoveFile
  BY <1>11 DEF SinceOK, RemoveFile, Relink, Becomes, Unlinked, Meanwhile
<1>12. CASE StartWatcher
  BY <1>12 DEF SinceOK, StartWatcher
<1>13. CASE FileChanged
  BY <1>13 DEF SinceOK, FileChanged, Handled
<1>14. CASE FileIgnored
  BY <1>14 DEF SinceOK, FileIgnored, Handled
<1>15. CASE Crash
  BY <1>15 DEF SinceOK, Crash
<1>16. CASE Bootstrap
  BY <1>16 DEF SinceOK, Bootstrap, Loaded
<1>17. CASE UNCHANGED mirrorVars
  BY <1>17 DEF SinceOK, mirrorVars
<1> QED
  BY <1>1, <1>2, <1>3, <1>4, <1>5, <1>6, <1>7, <1>8, <1>9,
     <1>10, <1>11, <1>12, <1>13, <1>14, <1>15, <1>16, <1>17 DEF MirrorNext

\* Whatever a start finds is not older than what the last successful Save or
\* Delete brought to the store.
THEOREM SavedContentsSurvive == MirrorSpec => SavedSurvives
<1>1. MirrorInit => SinceOK
  BY MirrorAssumption DEF MirrorInit, SinceOK, Free, Up, Content
<1>2. MirrorTypes /\ SinceOK /\ [MirrorNext]_mirrorVars
      => [phase = "down" /\ phase' = "serving" => Content(file') \in since]_mirrorVars
  <2> SUFFICES ASSUME MirrorTypes, SinceOK, MirrorNext, phase = "down", phase' = "serving"
               PROVE Content(file') \in since
    BY DEF mirrorVars
  <2>1. Bootstrap
    BY DEF MirrorNext, SaveMetadata, SaveStorage, StorageWritten, SyncLock, DeleteLock,
           ReadFile, PutSucceeds, PutFails, UploadBegins, UploadEnds, RemoveFile,
           StartWatcher, FileChanged, FileIgnored, Handled, Crash, Lock, Up
  <2> QED
    BY <2>1, MirrorAssumption DEF Bootstrap, Loaded, SinceOK, MirrorTypes, Content, Up,
       Contents
<1> QED
  BY <1>1, <1>2, InitMirrorTypes, NextMirrorTypes, NextSince, PTL DEF MirrorSpec, SavedSurvives

-----------------------------------------------------------------------------
(* The remote copy follows                                                  *)

\* Contents are numbered in the order they came up, and the one an upload is
\* about to write is newer than the one the watcher knows.
NumberedOK ==
  /\ file \in Nat => file <= newest
  /\ remote \in Nat => remote <= newest
  /\ known \in Nat => known <= newest
  /\ upload \in Nat => upload <= newest /\ file = Empty /\ known # upload
  /\ holder.data \in Nat => holder.data <= newest
  /\ holder.at = "write" => upload \notin Nat
  /\ ~Up => upload = None /\ holder = Free

LEMMA NextNumbered == MirrorTypes /\ NumberedOK /\ [MirrorNext]_mirrorVars => NumberedOK'
<1> SUFFICES ASSUME MirrorTypes, NumberedOK, [MirrorNext]_mirrorVars PROVE NumberedOK'
  OBVIOUS
<1> USE MirrorAssumption DEF MirrorTypes, Contents, Holders, HolderOK, Free, Lock, Up,
        Spend, disk, volatile, Content
<1>1. ASSUME NEW v \in 1..(newest + 1), SaveMetadata(v) PROVE NumberedOK'
  BY <1>1 DEF NumberedOK, SaveMetadata, Saved, Relink, Becomes, Unlinked
<1>2. ASSUME NEW v \in 1..(newest + 1), SaveStorage(v) PROVE NumberedOK'
  BY <1>2 DEF NumberedOK, SaveStorage, Saved, Becomes
<1>3. CASE StorageWritten
  BY <1>3 DEF NumberedOK, StorageWritten, Becomes
<1>4. CASE SyncLock
  BY <1>4 DEF NumberedOK, SyncLock
<1>5. CASE DeleteLock
  BY <1>5 DEF NumberedOK, DeleteLock, Relink, Becomes, Unlinked
<1>6. CASE ReadFile
  BY <1>6 DEF NumberedOK, ReadFile
<1>7. CASE PutSucceeds
  BY <1>7 DEF NumberedOK, PutSucceeds
<1>8. CASE PutFails
  BY <1>8 DEF NumberedOK, PutFails
<1>9. CASE UploadBegins
  BY <1>9 DEF NumberedOK, UploadBegins, Becomes
<1>10. CASE UploadEnds
  BY <1>10 DEF NumberedOK, UploadEnds, Becomes
<1>11. CASE RemoveFile
  BY <1>11 DEF NumberedOK, RemoveFile, Relink, Becomes, Unlinked
<1>12. CASE StartWatcher
  BY <1>12 DEF NumberedOK, StartWatcher
<1>13. CASE FileChanged
  BY <1>13 DEF NumberedOK, FileChanged, Handled
<1>14. CASE FileIgnored
  BY <1>14 DEF NumberedOK, FileIgnored, Handled
<1>15. CASE Crash
  BY <1>15 DEF NumberedOK, Crash
<1>16. CASE Bootstrap
  BY <1>16 DEF NumberedOK, Bootstrap, Loaded
<1>17. CASE UNCHANGED mirrorVars
  BY <1>17 DEF NumberedOK, mirrorVars
<1> QED
  BY <1>1, <1>2, <1>3, <1>4, <1>5, <1>6, <1>7, <1>8, <1>9,
     <1>10, <1>11, <1>12, <1>13, <1>14, <1>15, <1>16, <1>17 DEF MirrorNext

\* What the copy will be once the call under way has succeeded.
Target == IF holder.at = "put" THEN holder.data ELSE remote

\* Whenever the file differs from that, somebody is going to tell the store: the
\* holder of the mutex, a waiting upload or Delete, a handler that is still
\* writing, or the watcher when it handles the event.
AnsweredOK ==
  /\ Up /\ ~missed /\ Content(file) # Target =>
       \/ holder.at \in {"write", "read"} \/ syncs > 0 \/ removed > 0
       \/ upload \in Nat
       \/ event /\ (phase = "serving" \/ file \notin {known, Empty, None})
  /\ holder.op = "save" /\ holder.at \in {"write", "read"} /\ file = None
       => removed > 0
  /\ ~Up => holder = Free

LEMMA NextAnswered == MirrorTypes /\ NumberedOK /\ AnsweredOK /\ [MirrorNext]_mirrorVars => AnsweredOK'
<1> SUFFICES ASSUME MirrorTypes, NumberedOK, AnsweredOK, [MirrorNext]_mirrorVars PROVE AnsweredOK'
  OBVIOUS
<1> USE MirrorAssumption DEF MirrorTypes, Contents, Holders, HolderOK, Free, Lock, Up,
        Spend, disk, volatile, Content, Target
<1>1. ASSUME NEW v \in 1..(newest + 1), SaveMetadata(v) PROVE AnsweredOK'
  BY <1>1 DEF AnsweredOK, SaveMetadata, Saved, Relink, Becomes, Unlinked
<1>2. ASSUME NEW v \in 1..(newest + 1), SaveStorage(v) PROVE AnsweredOK'
  BY <1>2 DEF AnsweredOK, SaveStorage, Saved, Becomes
<1>3. CASE StorageWritten
  BY <1>3 DEF AnsweredOK, StorageWritten, Becomes
<1>4. CASE SyncLock
  BY <1>4 DEF AnsweredOK, SyncLock
<1>5. CASE DeleteLock
  BY <1>5 DEF AnsweredOK, DeleteLock, Relink, Becomes, Unlinked
<1>6. CASE ReadFile
  BY <1>6 DEF AnsweredOK, ReadFile
<1>7. CASE PutSucceeds
  BY <1>7 DEF AnsweredOK, PutSucceeds
<1>8. CASE PutFails
  BY <1>8 DEF AnsweredOK, PutFails
<1>9. CASE UploadBegins
  BY <1>9 DEF AnsweredOK, UploadBegins, Becomes
<1>10. CASE UploadEnds
  <2>1. UNCHANGED <<phase, remote, holder, removed, known, syncs, missed>>
    BY <1>10 DEF UploadEnds
  <2>2. CASE upload = Lost
    <3>1. UNCHANGED <<file, event>> /\ upload \notin Nat
      BY <1>10, <2>2 DEF UploadEnds
    <3> QED
      BY <2>1, <3>1 DEF AnsweredOK
  <2>3. CASE upload # Lost
    <3>1. file' = upload /\ event' = TRUE /\ upload \in Nat /\ upload # known
      BY <1>10, <2>3 DEF UploadEnds, Becomes, NumberedOK
    <3>2. event' /\ file' \notin {known', Empty, None}
      BY <2>1, <3>1
    <3> QED
      BY <2>1, <3>1, <3>2 DEF AnsweredOK
  <2> QED
    BY <2>2, <2>3
<1>11. CASE RemoveFile
  BY <1>11 DEF AnsweredOK, RemoveFile, Relink, Becomes, Unlinked
<1>12. CASE StartWatcher
  BY <1>12 DEF AnsweredOK, StartWatcher
<1>13. CASE FileChanged
  BY <1>13 DEF AnsweredOK, FileChanged, Handled
<1>14. CASE FileIgnored
  BY <1>14 DEF AnsweredOK, FileIgnored, Handled
<1>15. CASE Crash
  BY <1>15 DEF AnsweredOK, Crash
<1>16. CASE Bootstrap
  <2>1. holder' = Free /\ remote' = remote
    BY <1>16 DEF AnsweredOK, Bootstrap
  <2>2. missed' = (Content(file') # remote)
    BY <1>16 DEF Bootstrap
  <2>3. ~missed' => Content(file') = Target'
    BY <2>1, <2>2
  <2> QED
    BY <2>1, <2>3 DEF AnsweredOK
<1>17. CASE UNCHANGED mirrorVars
  BY <1>17 DEF AnsweredOK, mirrorVars
<1> QED
  BY <1>1, <1>2, <1>3, <1>4, <1>5, <1>6, <1>7, <1>8, <1>9,
     <1>10, <1>11, <1>12, <1>13, <1>14, <1>15, <1>16, <1>17 DEF MirrorNext

\* Once nothing is under way the file and its copy agree, unless the last call
\* that would have told the store failed or came before the watcher.
THEOREM RemoteFollowsFile == MirrorSpec => []RemoteFollows
<1>1. MirrorInit => NumberedOK /\ AnsweredOK
  BY MirrorAssumption DEF MirrorInit, NumberedOK, AnsweredOK, Free, Up, Content
<1>2. MirrorTypes /\ AnsweredOK => RemoteFollows
  BY MirrorAssumption DEF MirrorTypes, AnsweredOK, RemoteFollows, Quiet, Free, Up, Target
<1> QED
  BY <1>1, <1>2, InitMirrorTypes, NextMirrorTypes, NextNumbered, NextAnswered, PTL DEF MirrorSpec
=============================================================================
