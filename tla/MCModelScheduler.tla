--------------------------- MODULE MCModelScheduler ---------------------------
(* Instances of ModelScheduler for TLC. *)
EXTENDS ModelScheduler

Meta(p, k, g, ws, s) ==
  [provider |-> p, priority |-> k, parent |-> g, ws |-> ws, supported |-> s]
BlockOf(off, retry, recover, exceeded) ==
  [off |-> off, retry |-> retry, recover |-> recover, exceeded |-> exceeded]

Free == BlockOf(FALSE, NoTime, NoTime, FALSE)
\* Blocked for one unit for another reason than the quota; or for its quota,
\* which recovers later than the retry time, or because it is disabled.
SomeBlocks == {Free, BlockOf(FALSE, 1, NoTime, FALSE)}
QuotaBlocks == {Free, BlockOf(FALSE, 1, 2, TRUE), BlockOf(TRUE, NoTime, NoTime, FALSE)}

\* A request that has tried nothing, and one that is pinned: together they
\* bring every cursor to every position.
MCEligible == {Auths} \cup {{a} : a \in Auths}

\* One provider: 1 and 2 have a common parent and 1 may get websockets; 3
\* changes its priority, its parent and whether it supports the model.
TierMetas ==
  [a \in Auths |->
     CASE a = 1 -> {Meta(1, 0, 1, ws, TRUE) : ws \in BOOLEAN}
       [] a = 2 -> {Meta(1, 0, 1, FALSE, TRUE)}
       [] a = 3 -> {Meta(1, k, 2, FALSE, TRUE) : k \in 0..1}
                   \cup {Meta(1, 0, NoParent, FALSE, s) : s \in BOOLEAN}]
\* Two providers: 2 may move from one to the other, 3 has two priorities.
MixedMetas ==
  [a \in Auths |->
     CASE a = 1 -> {Meta(1, 0, NoParent, FALSE, TRUE)}
       [] a = 2 -> {Meta(p, 0, NoParent, FALSE, TRUE) : p \in 1..2}
       [] a = 3 -> {Meta(2, k, NoParent, FALSE, TRUE) : k \in 0..1}]
\* One provider with everything that can change in it; two with a credential
\* that moves.
MCSetups ==
  {[providers |-> {1}, metas |-> TierMetas, blocks |-> QuotaBlocks],
   [providers |-> {1, 2}, metas |-> MixedMetas, blocks |-> SomeBlocks]}
=============================================================================
