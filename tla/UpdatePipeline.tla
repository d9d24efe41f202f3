---- MODULE UpdatePipeline ----
(***************************************************************************)
(* The way of the updates of credentials from the watcher to the manager:  *)
(* the map of pending updates and its order under dispatchMu, the dispatch *)
(* loop with the batch it took, the channel of the service, and the        *)
(* consumer, which drains the channel, merges what it got and applies it.  *)
(* What an update says is abstracted to its number among those of its      *)
(* credential, in the order in which dispatchAuthUpdates took them.        *)
(***************************************************************************)
EXTENDS Naturals, Sequences, FiniteSets

CONSTANTS
    Ids,          \* credentials
    Capacity,     \* places of Service.authUpdates (256 in the code)
    MaxUpdates    \* bound on the updates of one credential

ASSUME PipelineAssumption ==
    /\ IsFiniteSet(Ids)
    /\ Capacity \in Nat \ {0}
    /\ MaxUpdates \in Nat

VARIABLES
    issued,          \* updates handed to dispatchAuthUpdates, per credential
    pendingUpdates,  \* w.pendingUpdates: a number, 0 where the map has no key
    pendingOrder,    \* w.pendingOrder
    batch,           \* what dispatchLoop took and has not sent yet
    queue,           \* the channel
    byID,            \* the consumer: the last update drained, 0 for none
    order,           \* the consumer: credentials in the order of their first
    applying,        \* the consumer is in handleAuthUpdates
    applied          \* the update the manager holds

vars == <<issued, pendingUpdates, pendingOrder, batch, queue, byID, order,
          applying, applied>>

Nothing == [i \in Ids |-> 0]

Update == [id : Ids, no : Nat]

TypeOK ==
    /\ issued \in [Ids -> Nat]
    /\ pendingUpdates \in [Ids -> Nat]
    /\ pendingOrder \in Seq(Ids)
    /\ batch \in Seq(Update)
    /\ queue \in Seq(Update) /\ Len(queue) <= Capacity
    /\ byID \in [Ids -> Nat]
    /\ order \in Seq(Ids)
    /\ applying \in BOOLEAN
    /\ applied \in [Ids -> Nat]

Init ==
    /\ issued = Nothing
    /\ pendingUpdates = Nothing
    /\ pendingOrder = <<>>
    /\ batch = <<>>
    /\ queue = <<>>
    /\ byID = Nothing
    /\ order = <<>>
    /\ applying = FALSE
    /\ applied = Nothing

\* Every order in which the members of a set can be listed.
Listings(S) ==
    {s \in [1 .. Cardinality(S) -> S] :
        \A j, k \in DOMAIN s : j # k => s[j] # s[k]}

\* The pending map with one more update of the members of S: the last wins.
\* Mutant: an update that is pending stays.
MergedFirst(S) ==
    [i \in Ids |-> IF i \in S /\ pendingUpdates[i] = 0 THEN issued[i] + 1
                  ELSE pendingUpdates[i]]

Merged(S) == [i \in Ids |-> IF i \in S THEN issued[i] + 1 ELSE pendingUpdates[i]]

\* The updates of one change of the watcher's view enter the pending map under
\* dispatchMu. The order is that of a loop over a map: any.
DispatchAuthUpdates(S) ==
    /\ S # {}
    /\ \A i \in S : issued[i] < MaxUpdates
    /\ issued' = [i \in Ids |-> IF i \in S THEN issued[i] + 1 ELSE issued[i]]
    /\ pendingUpdates' = Merged(S)
    /\ \E s \in Listings({i \in S : pendingUpdates[i] = 0}) :
           pendingOrder' = pendingOrder \o s
    /\ UNCHANGED <<batch, queue, byID, order, applying, applied>>

\* The dispatch loop takes all that is pending, in order.
NextPendingBatch ==
    /\ batch = <<>>
    /\ pendingOrder # <<>>
    /\ batch' = [k \in 1 .. Len(pendingOrder) |->
                    [id |-> pendingOrder[k],
                     no |-> pendingUpdates[pendingOrder[k]]]]
    /\ pendingUpdates' = Nothing
    /\ pendingOrder' = <<>>
    /\ UNCHANGED <<issued, queue, byID, order, applying, applied>>

\* A channel of Capacity places, first in first out.
\* Mutant: one place too many.
HasRoomAndOne == Len(queue) <= Capacity

HasRoom == Len(queue) < Capacity

Enqueued(u) == Append(queue, u)

\* Mutant of Send: while the channel is full the update is applied inline.
SendOrApply ==
    /\ batch # <<>>
    /\ LET u == Head(batch)
       IN  \/ /\ HasRoom
              /\ queue' = Enqueued(u)
              /\ UNCHANGED applied
           \/ /\ ~HasRoom
              /\ applied' = [applied EXCEPT ![u.id] = u.no]
              /\ UNCHANGED queue
    /\ batch' = Tail(batch)
    /\ UNCHANGED <<issued, pendingUpdates, pendingOrder, byID, order, applying>>

\* queue <- update in dispatchLoop, which waits while the channel is full.
Send ==
    /\ batch # <<>>
    /\ HasRoom
    /\ queue' = Enqueued(Head(batch))
    /\ batch' = Tail(batch)
    /\ UNCHANGED <<issued, pendingUpdates, pendingOrder, byID, order, applying,
                   applied>>

\* The consumer takes an update; merging by coalesceAuthUpdates keeps the last
\* update of a credential at the place of its first one.
Receive ==
    /\ ~applying
    /\ queue # <<>>
    /\ LET u == Head(queue)
       IN  /\ order' = IF byID[u.id] = 0 THEN Append(order, u.id) ELSE order
           /\ byID' = [byID EXCEPT ![u.id] = u.no]
    /\ queue' = Tail(queue)
    /\ UNCHANGED <<issued, pendingUpdates, pendingOrder, batch, applying, applied>>

\* Nothing more to drain: handleAuthUpdates begins.
HandleAuthUpdates ==
    /\ ~applying
    /\ order # <<>>
    /\ queue = <<>>
    /\ applying' = TRUE
    /\ UNCHANGED <<issued, pendingUpdates, pendingOrder, batch, queue, byID,
                   order, applied>>

\* What is left to do after the first update of the loop.
\* Mutant: the loop returns after it.
LeftByReturn == <<>>

LeftToApply == Tail(order)

\* One turn of its loop: Register, Update or Remove of the manager.
Apply ==
    /\ applying
    /\ LET i == Head(order)
       IN  /\ applied' = [applied EXCEPT ![i] = byID[i]]
           /\ byID' = [byID EXCEPT ![i] = 0]
    /\ order' = LeftToApply
    /\ applying' = (LeftToApply # <<>>)
    /\ UNCHANGED <<issued, pendingUpdates, pendingOrder, batch, queue>>

Dispatcher == NextPendingBatch \/ Send
Consumer == Receive \/ HandleAuthUpdates \/ Apply

Next ==
    \/ \E S \in SUBSET Ids : DispatchAuthUpdates(S)
    \/ NextPendingBatch
    \/ Send
    \/ Receive
    \/ HandleAuthUpdates
    \/ Apply

SafeSpec == Init /\ [][Next]_vars

\* dispatchLoop and consumeAuthUpdates are goroutines of their own that run
\* until the service stops.
Spec == SafeSpec /\ WF_vars(Dispatcher) /\ WF_vars(Consumer)

----
(* Properties *)

Latest == INSTANCE LatestVersion WITH asked <- issued, held <- applied

\* The pipeline keeps the promise of LatestVersion: whatever is merged in the
\* pending map, waits in the batch of the dispatch loop or is drained by the
\* consumer, an older update never overtakes a newer one of its credential.
NeverGoesBack == Latest!SafeSpec

\* ... and the last update gets there, with the two loops running.
GetsThere == Latest!Spec

\* An update is never lost between the stages: what was handed over last is
\* still in one of them, or is what the manager holds. Merging, taking a batch
\* and draining each forget other updates, never this one.
LastIsSomewhere ==
    \A i \in Ids :
        \/ applied[i] = issued[i]
        \/ byID[i] = issued[i]
        \/ pendingUpdates[i] = issued[i]
        \/ \E k \in DOMAIN batch : batch[k] = [id |-> i, no |-> issued[i]]
        \/ \E k \in DOMAIN queue : queue[k] = [id |-> i, no |-> issued[i]]

====
