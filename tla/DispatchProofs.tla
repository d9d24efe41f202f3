---------------------------- MODULE DispatchProofs ----------------------------
(***************************************************************************)
(* The way of a request to a credential and to a client, for any number of *)
(* credentials, providers, requests, messages and chunks:                  *)
(*   - the scheduler: the indexes of every shard are those of its entries, *)
(*     whatever has happened before, the next pick is right, and the       *)
(*     rotation is even;                                                   *)
(*   - the relay: the session keeps its types, and a caller that waits does *)
(*     so on a channel that is closed or can be found.                     *)
(***************************************************************************)
EXTENDS ModelScheduler, RelaySession, SetLemmas

-----------------------------------------------------------------------------
(* The scheduler: definitions and lists.                                   *)

Times == Nat \cup {NoTime}
Blocks == [off : BOOLEAN, retry : Times, recover : Times, exceeded : BOOLEAN]
Entries == [state : {"ready", "cooldown", "blocked", "disabled"}, retry : Times]
ShardFields == {"entries", "ready", "waiting"}

ViewFields == {"flat", "cursor", "parents", "parentCursor", "items", "itemCursor"}
Parents == Nat \cup {NoParent}

Shaped(sh) ==
    /\ DOMAIN sh = ShardFields /\ DOMAIN sh.entries \subseteq Auths
    /\ sh.entries \in [DOMAIN sh.entries -> Entries]
Placed(sh, M) == \A a \in DOMAIN sh.entries : M[a].priority \in Nat /\ M[a].parent \in Parents

\* The entries that may be picked, and those of one priority.
ReadyIn(sh) == InState(sh, {"ready"})
Tier(sh, M, k) == {a \in ReadyIn(sh) : M[a].priority = k}
TierWs(sh, M, k) == {a \in Tier(sh, M, k) : M[a].ws}

\* The view shows the credentials of S and its cursors count.
Rolling(v) ==
    /\ DOMAIN v = ViewFields /\ v.cursor \in Nat /\ v.parentCursor \in Nat
    /\ v.itemCursor \in [DOMAIN v.items -> Nat]
Shows(v, S, M) == Members(v) = Members(BuildView(S, M)) /\ Rolling(v)

\* The indexes of a shard are those of its entries, but for the cursors.
Indexed(sh, M) ==
    /\ sh.waiting = InState(sh, {"cooldown", "blocked"})
    /\ DOMAIN sh.ready = {M[a].priority : a \in ReadyIn(sh)}
    /\ \A k \in DOMAIN sh.ready :
          /\ DOMAIN sh.ready[k] = {"all", "ws"}
          /\ Shows(sh.ready[k].all, Tier(sh, M, k), M)
          /\ Shows(sh.ready[k].ws, TierWs(sh, M, k), M)
\* What a rebuild relies on: the cursors it restores count.
Rolls(sh) == \A k \in DOMAIN sh.ready : Rolling(sh.ready[k].all) /\ Rolling(sh.ready[k].ws)

Tidy(sh, M) == Shaped(sh) /\ Placed(sh, M) /\ Indexed(sh, M)

LEMMA InOrderLists ==
    ASSUME NEW S \in SUBSET Nat, IsFiniteSet(S)
    PROVE  InOrder(S) \in Seq(S) /\ Len(InOrder(S)) = Cardinality(S) /\ Range(InOrder(S)) = S
<1> DEFINE n == Cardinality(S)
           below(a) == {b \in S : b <= a}
           rank == [a \in S |-> Cardinality(below(a))]
           pick(i) == CHOOSE a \in S : Cardinality(below(a)) = i
<1>1. n \in Nat
  BY FS_CardinalityType
<1>2. ASSUME NEW a \in S
      PROVE  rank[a] \in 1..n
  <2>1. IsFiniteSet(below(a)) /\ Cardinality(below(a)) <= n
    BY FS_Subset
  <2>2. a \in below(a)
    OBVIOUS
  <2> HIDE DEF below
  <2>3. Cardinality(below(a)) \in Nat /\ Cardinality(below(a)) # 0
    BY <2>1, <2>2, FS_CardinalityType, FS_EmptySet
  <2> QED BY <1>1, <2>1, <2>3
<1>3. ASSUME NEW a \in S, NEW b \in S, a < b PROVE rank[a] # rank[b]
  <2>0. below(a) \in SUBSET below(b) /\ below(b) \in SUBSET S
    <3>1. a \in Nat /\ b \in Nat /\ \A x \in S : x \in Nat
      OBVIOUS
    <3>2. \A x \in S : x <= a => x <= b
      BY <1>3, <3>1
    <3>3. below(a) \subseteq below(b) /\ below(b) \subseteq S
      BY <3>2
    <3> HIDE DEF below
    <3> QED BY <3>3
  <2>1. IsFiniteSet(below(b))
    BY <2>0, FS_Subset
  <2>2. b \in below(b) /\ b \notin below(a)
    BY <1>3
  <2> HIDE DEF below
  <2>3. Cardinality(below(a)) # Cardinality(below(b))
    BY <2>0, <2>1, <2>2, FS_Subset
  <2> QED BY <2>3
<1>4. rank \in Injection(S, 1..n)
  <2>1. \A a, b \in S : rank[a] = rank[b] => a = b
    BY <1>3
  <2>2. rank \in [S -> 1..n]
    BY <1>2
  <2> HIDE DEF rank
  <2> QED BY <2>1, <2>2 DEF Injection, IsInjective
<1>5. rank \in Surjection(S, 1..n)
  <2>1. IsFiniteSet(1..n) /\ Cardinality(1..n) = n
    BY <1>1, FS_Interval
  <2> HIDE DEF rank
  <2> QED BY <1>4, <2>1, FS_Injection
<1>6. \A i \in 1..n : \E a \in S : rank[a] = i
  BY <1>5 DEF Surjection
<1>7. \A i \in 1..n : pick(i) \in S /\ rank[pick(i)] = i
  BY <1>6
<1>8. \A a \in S : pick(rank[a]) = a
  <2> TAKE a \in S
  <2>1. pick(rank[a]) \in S /\ rank[pick(rank[a])] = rank[a]
    BY <1>2, <1>7
  <2> HIDE DEF pick, rank
  <2> QED BY <1>4, <2>1 DEF Injection, IsInjective
<1>9. InOrder(S) = [i \in 1..n |-> pick(i)]
  BY DEF InOrder
<1> HIDE DEF n, pick, rank
<1>10. InOrder(S) \in [1..n -> S]
  BY <1>7, <1>9
<1>11. InOrder(S) \in Seq(S) /\ Len(InOrder(S)) = n
  BY <1>1, <1>10
<1>12. Range(InOrder(S)) = S
  <2>1. \A a \in S : InOrder(S)[rank[a]] = a
    BY <1>2, <1>8, <1>9
  <2>2. DOMAIN InOrder(S) = 1..n
    BY <1>9
  <2>3. \A a \in S : a \in Range(InOrder(S))
    BY <1>2, <2>1, <2>2 DEF Range
  <2>4. Range(InOrder(S)) \subseteq S
    BY <1>10, <2>2 DEF Range
  <2> QED BY <2>3, <2>4
<1> QED BY <1>11, <1>12 DEF n

LEMMA PositionFits ==
    ASSUME NEW T, NEW s \in Seq(T), NEW cursor \in Nat, NEW E, Range(s) \cap E # {}
    PROVE  Position(s, cursor, E) \in 1..Len(s) /\ s[Position(s, cursor, E)] \in E
<1> DEFINE n == Len(s)
           c == cursor % n
           Index(k) == (((c + k) % n) + 1)
           K == {k \in 0..(n - 1) : s[Index(k)] \in E}
<1>1. PICK i \in 1..n : s[i] \in E
  BY DEF Range
<1>2. n \in Nat \ {0}
  BY <1>1
<1> HIDE DEF n
<1>3. c \in 0..(n - 1)
  BY <1>2
<1> HIDE DEF c
<1>4. \A k \in 0..(n - 1) : Index(k) = IF c + k < n THEN c + k + 1 ELSE c + k - n + 1
  BY <1>2, <1>3
<1> HIDE DEF Index
<1>5. K # {}
  <2>1. CASE i > c
    <3>1. i - 1 - c \in 0..(n - 1) /\ Index(i - 1 - c) = i
      BY <1>2, <1>3, <1>4, <2>1
    <3> QED BY <1>1, <3>1
  <2>2. CASE i <= c
    <3>1. i - 1 - c + n \in 0..(n - 1) /\ Index(i - 1 - c + n) = i
      BY <1>2, <1>3, <1>4, <2>2
    <3> QED BY <1>1, <3>1
  <2> QED BY <1>3, <2>1, <2>2
<1>6. Min(K) \in K
  <2>1. K \in SUBSET Nat
    BY <1>2
  <2> HIDE DEF K
  <2> QED BY <1>5, <2>1, MinOfNats
<1>7. Position(s, cursor, E) = Index(Min(K))
  BY Zenon DEF Position, Index, K, c, n
<1>8. Index(Min(K)) \in 1..n
  BY <1>2, <1>3, <1>4, <1>6
<1> QED BY <1>6, <1>7, <1>8 DEF n

LEMMA MaxOfPriorities ==
    ASSUME NEW T \in SUBSET (Nat \cup {NoPriority}), T # {}, IsFiniteSet(T)
    PROVE  Max(T) \in T /\ \A y \in T : y <= Max(T)
<1>1. \E x \in T : \A y \in T : x >= y
  <2>1. CASE T \cap Nat = {}
    <3>1. T = {NoPriority}
      BY <2>1
    <3> QED BY <3>1 DEF NoPriority
  <2>2. CASE T \cap Nat # {}
    <3>1. IsFiniteSet(T \cap Nat)
      BY FS_Subset
    <3>2. PICK x \in T \cap Nat : \A y \in T \cap Nat : x >= y
      BY <2>2, <3>1, GreatestExists
    <3>3. \A y \in T : x >= y
      BY <3>2 DEF NoPriority
    <3> QED BY <3>3
  <2> QED BY <2>1, <2>2
<1>2. Max(T) \in T /\ \A y \in T : Max(T) >= y
  BY <1>1 DEF Max
<1> DEFINE m == Max(T)
<1>3. m \in T /\ \A y \in T : m >= y
  BY <1>2
<1> HIDE DEF m
<1>4. NoPriority \in Int
  BY DEF NoPriority
<1>5. m \in Int /\ \A y \in T : y \in Int
  BY <1>3, <1>4
<1>6. \A y \in T : y <= m
  BY <1>3, <1>5
<1> QED BY <1>3, <1>6 DEF m
-----------------------------------------------------------------------------
(* The indexes of one shard.                                               *)

LEMMA EvaluatedIsEntry == ASSUME NEW b \in Blocks PROVE Evaluated(b) \in Entries
BY DEF Blocks, Entries, Times, Evaluated, After

\* A view shows exactly the credentials it is built from; with groups, each
\* credential is in the group of its parent.
LEMMA ViewLists ==
    ASSUME NEW S \in SUBSET Nat, IsFiniteSet(S), NEW M, \A a \in S : M[a].parent \in Parents,
           NEW v, Members(v) = Members(BuildView(S, M))
    PROVE  /\ v.flat \in Seq(S) /\ Range(v.flat) = S
           /\ v.parents \in Seq(DOMAIN v.items) /\ Range(v.parents) = DOMAIN v.items
           /\ \A g \in DOMAIN v.items : /\ v.items[g] \in Seq(S)
                                       /\ Range(v.items[g]) = {a \in S : M[a].parent = g}
           /\ v.parents # <<>> => \A a \in S : M[a].parent \in DOMAIN v.items
<1> DEFINE parents == {M[a].parent : a \in S}
           groups == IF NoParent \notin parents /\ Cardinality(parents) > 1
                     THEN parents ELSE {}
           group(g) == {a \in S : M[a].parent = g}
           items == [g \in groups |-> InOrder(group(g))]
<1>1. BuildView(S, M) = [flat |-> InOrder(S), cursor |-> 0,
                         parents |-> InOrder(groups), parentCursor |-> 0, items |-> items,
                         itemCursor |-> [g \in groups |-> 0]]
  BY DEF BuildView
<1>2. IsFiniteSet(parents)
  <2> DEFINE f == [a \in S |-> M[a].parent]
  <2>1. f \in Surjection(S, parents)
    BY DEF Surjection
  <2> HIDE DEF f, parents
  <2> QED BY <2>1, FS_Surjection
<1>3. groups \in SUBSET Nat /\ IsFiniteSet(groups)
  BY <1>2, FS_EmptySet DEF Parents
<1>4. \A g : group(g) \in SUBSET S
  OBVIOUS
<1> HIDE DEF group
<1>5. \A g : group(g) \in SUBSET Nat /\ IsFiniteSet(group(g))
  BY <1>4, FS_Subset
<1>6. groups # {} => \A a \in S : M[a].parent \in groups
  OBVIOUS
<1>7. items = [g \in groups |-> InOrder(group(g))]
  OBVIOUS
<1> HIDE DEF groups, items, parents
<1>8. v.flat = InOrder(S) /\ v.parents = InOrder(groups) /\ v.items = items
  BY <1>1 DEF Members
<1>9. v.flat \in Seq(S) /\ Range(v.flat) = S
  BY <1>8, InOrderLists
<1>10. InOrder(groups) \in Seq(groups) /\ Range(InOrder(groups)) = groups
  BY <1>3, InOrderLists
<1>11. v.parents \in Seq(DOMAIN v.items) /\ Range(v.parents) = DOMAIN v.items
  BY <1>7, <1>8, <1>10
<1>12. ASSUME NEW g \in DOMAIN v.items
       PROVE  v.items[g] \in Seq(S) /\ Range(v.items[g]) = group(g)
  <2>1. v.items[g] = InOrder(group(g))
    BY <1>7, <1>8
  <2>2. InOrder(group(g)) \in Seq(group(g)) /\ Range(InOrder(group(g))) = group(g)
    BY <1>5, InOrderLists
  <2> QED BY <1>4, <2>1, <2>2
<1>13. ASSUME v.parents # <<>> PROVE \A a \in S : M[a].parent \in DOMAIN v.items
  <2>1. groups # {}
    BY <1>8, <1>10, <1>13 DEF Range
  <2> QED BY <1>6, <1>7, <1>8, <2>1
<1> QED BY <1>9, <1>11, <1>12, <1>13 DEF group

LEMMA BuiltRolls == ASSUME NEW S, NEW M PROVE Rolling(BuildView(S, M))
<1> DEFINE parents == {M[a].parent : a \in S}
           groups == IF NoParent \notin parents /\ Cardinality(parents) > 1
                     THEN parents ELSE {}
           items == [g \in groups |-> InOrder({a \in S : M[a].parent = g})]
<1>1. BuildView(S, M) = [flat |-> InOrder(S), cursor |-> 0,
                         parents |-> InOrder(groups), parentCursor |-> 0, items |-> items,
                         itemCursor |-> [g \in groups |-> 0]]
  BY DEF BuildView
<1>2. DOMAIN items = groups
  OBVIOUS
<1> HIDE DEF items, groups
<1> QED BY <1>1, <1>2 DEF Rolling, ViewFields

\* Restoring cursors changes nothing of what a view shows.
LEMMA RestoredShows ==
    ASSUME NEW S \in SUBSET Nat, IsFiniteSet(S), NEW M, \A a \in S : M[a].parent \in Parents,
           NEW v, Shows(v, S, M), NEW old, Rolling(old)
    PROVE  Shows(Restored(v, old), S, M)
<1> DEFINE z == [g \in DOMAIN v.items |->
                    IF g \in DOMAIN old.items
                    THEN Normal(old.itemCursor[g], Len(v.items[g])) ELSE 0]
           x == Normal(old.cursor, Len(v.flat))
           y == Normal(old.parentCursor, Len(v.parents))
           r == [v EXCEPT !.cursor = x, !.parentCursor = y, !.itemCursor = z]
<1>1. Restored(v, old) = r
  BY DEF Restored
<1>2. \A c \in Nat, n \in Nat : Normal(c, n) \in Nat
  BY DEF Normal
<1>3. /\ v.flat \in Seq(S) /\ v.parents \in Seq(DOMAIN v.items)
      /\ \A g \in DOMAIN v.items : v.items[g] \in Seq(S)
  BY ViewLists DEF Shows
<1>4. x \in Nat /\ y \in Nat
  <2>1. Len(v.flat) \in Nat /\ Len(v.parents) \in Nat
    BY <1>3
  <2> QED BY <1>2, <2>1 DEF Rolling
<1>5. z \in [DOMAIN v.items -> Nat]
  <2>1. ASSUME NEW g \in DOMAIN v.items
        PROVE  (IF g \in DOMAIN old.items
                THEN Normal(old.itemCursor[g], Len(v.items[g])) ELSE 0) \in Nat
    <3>1. Len(v.items[g]) \in Nat
      BY <1>3
    <3>2. g \in DOMAIN old.items => old.itemCursor[g] \in Nat
      BY DEF Rolling
    <3> QED BY <1>2, <3>1, <3>2
  <2> QED BY <2>1
<1> HIDE DEF x, y, z
<1>6. /\ r.flat = v.flat /\ r.parents = v.parents /\ r.items = v.items
      /\ DOMAIN r = ViewFields /\ r.cursor = x /\ r.parentCursor = y /\ r.itemCursor = z
  BY DEF Shows, Rolling, ViewFields
<1> HIDE DEF r
<1> QED BY <1>1, <1>4, <1>5, <1>6 DEF Shows, Rolling, Members

LEMMA RebuildTidy ==
    ASSUME NEW sh, Shaped(sh), Rolls(sh), NEW M, Placed(sh, M)
    PROVE  /\ Tidy(RebuildIndexes(sh, M), M)
           /\ RebuildIndexes(sh, M).entries = sh.entries
<1> DEFINE new == RebuildIndexes(sh, M)
           free == InState(sh, {"ready"})
           Built(k) == BuildBucket({a \in free : M[a].priority = k}, M)
           Bucket(k) == IF k \in DOMAIN sh.ready
                        THEN [all |-> Restored(Built(k).all, sh.ready[k].all),
                              ws |-> Restored(Built(k).ws, sh.ready[k].ws)]
                        ELSE Built(k)
           P == {M[a].priority : a \in free}
           W == InState(sh, {"cooldown", "blocked"})
<1>1. new = [sh EXCEPT !.ready = [k \in P |-> Bucket(k)], !.waiting = W]
  BY Zenon DEF RebuildIndexes
<1>2. /\ DOMAIN new = ShardFields /\ new.entries = sh.entries /\ new.waiting = W
      /\ new.ready = [k \in P |-> Bucket(k)]
  <2> DEFINE R == [k \in P |-> Bucket(k)]
  <2> HIDE DEF R, P, W, new
  <2> QED BY <1>1 DEF Shaped, ShardFields, R
<1>3. \A S : InState(new, S) = InState(sh, S)
  BY <1>2 DEF InState
<1>4. ASSUME NEW k \in P
      PROVE  /\ DOMAIN new.ready[k] = {"all", "ws"}
             /\ Shows(new.ready[k].all, Tier(new, M, k), M)
             /\ Shows(new.ready[k].ws, TierWs(new, M, k), M)
  <2> DEFINE T == {a \in free : M[a].priority = k}
             Tw == {a \in T : M[a].ws}
  <2>1. Tier(new, M, k) = T /\ TierWs(new, M, k) = Tw
    BY <1>3 DEF Tier, TierWs, ReadyIn
  <2>2. Built(k) = [all |-> BuildView(T, M), ws |-> BuildView(Tw, M)]
    BY DEF BuildBucket
  <2>3. new.ready[k] = Bucket(k)
    BY <1>2
  <2>9. T \in SUBSET Auths /\ Tw \in SUBSET T /\ \A a \in T : M[a].parent \in Parents
    BY DEF InState, Shaped, Placed
  <2> HIDE DEF T, Tw, Built, new
  <2>10. T \in SUBSET Nat /\ Tw \in SUBSET Nat /\ \A a \in Tw : M[a].parent \in Parents
    BY <2>9, NamesAssumption
  <2>11. IsFiniteSet(T)
    BY <2>9, NamesAssumption, FS_Subset
  <2>12. IsFiniteSet(Tw)
    BY <2>9, <2>11, FS_Subset
  <2>13. Shows(BuildView(T, M), T, M) /\ Shows(BuildView(Tw, M), Tw, M)
    BY BuiltRolls DEF Shows
  <2>4. Bucket(k).all = BuildView(T, M)
          \/ /\ Bucket(k).all = Restored(BuildView(T, M), sh.ready[k].all)
             /\ Rolling(sh.ready[k].all)
    BY <2>2 DEF Rolls
  <2>5. Bucket(k).ws = BuildView(Tw, M)
          \/ /\ Bucket(k).ws = Restored(BuildView(Tw, M), sh.ready[k].ws)
             /\ Rolling(sh.ready[k].ws)
    BY <2>2 DEF Rolls
  <2>6. DOMAIN Bucket(k) = {"all", "ws"}
    BY <2>2
  <2> HIDE DEF Bucket
  <2>7. Shows(Bucket(k).all, T, M)
    BY <2>4, <2>9, <2>10, <2>11, <2>13, RestoredShows
  <2>8. Shows(Bucket(k).ws, Tw, M)
    BY <2>5, <2>10, <2>12, <2>13, RestoredShows
  <2> QED BY <2>1, <2>3, <2>6, <2>7, <2>8
<1>5. DOMAIN new.ready = P
  BY <1>2
<1>6. Indexed(new, M)
  BY <1>2, <1>3, <1>4, <1>5 DEF Indexed, ReadyIn
<1>7. Shaped(new) /\ Placed(new, M)
  BY <1>2 DEF Shaped, Placed
<1> QED BY <1>2, <1>6, <1>7 DEF Tidy

\* What the views show of a credential: its priority, parent and websockets.
LEMMA SameViews ==
    ASSUME NEW S, NEW M, NEW N, \A a \in S : M[a].parent = N[a].parent
    PROVE  BuildView(S, M) = BuildView(S, N)
<1> DEFINE parents(K) == {K[a].parent : a \in S}
           groups(K) == IF NoParent \notin parents(K) /\ Cardinality(parents(K)) > 1
                        THEN parents(K) ELSE {}
           group(K, g) == {a \in S : K[a].parent = g}
<1>1. parents(M) = parents(N)
  OBVIOUS
<1>2. \A g : group(M, g) = group(N, g)
  OBVIOUS
<1>3. groups(M) = groups(N)
  BY <1>1
<1>4. \A K : BuildView(S, K) =
         [flat |-> InOrder(S), cursor |-> 0, parents |-> InOrder(groups(K)),
          parentCursor |-> 0, items |-> [g \in groups(K) |-> InOrder(group(K, g))],
          itemCursor |-> [g \in groups(K) |-> 0]]
  BY DEF BuildView
<1> HIDE DEF parents, groups, group
<1>5. [g \in groups(M) |-> InOrder(group(M, g))] = [g \in groups(N) |-> InOrder(group(N, g))]
  BY <1>2, <1>3
<1> QED BY <1>3, <1>4, <1>5

LEMMA SamePlaces ==
    ASSUME NEW sh, NEW M, NEW N, Tidy(sh, M),
           \A a \in DOMAIN sh.entries :
              /\ M[a].priority = N[a].priority /\ M[a].parent = N[a].parent
              /\ M[a].ws = N[a].ws
    PROVE  Tidy(sh, N)
<1>1. ReadyIn(sh) \subseteq DOMAIN sh.entries
  BY DEF ReadyIn, InState
<1>2. {M[a].priority : a \in ReadyIn(sh)} = {N[a].priority : a \in ReadyIn(sh)}
  BY <1>1
<1>3. \A k : Tier(sh, M, k) = Tier(sh, N, k) /\ TierWs(sh, M, k) = TierWs(sh, N, k)
  BY <1>1 DEF Tier, TierWs
<1>4. ASSUME NEW k
      PROVE  /\ BuildView(Tier(sh, N, k), N) = BuildView(Tier(sh, M, k), M)
             /\ BuildView(TierWs(sh, N, k), N) = BuildView(TierWs(sh, M, k), M)
  <2>1. \A a \in Tier(sh, M, k) : M[a].parent = N[a].parent
    BY <1>1 DEF Tier
  <2>2. \A a \in TierWs(sh, M, k) : M[a].parent = N[a].parent
    BY <2>1 DEF TierWs
  <2>3. BuildView(Tier(sh, M, k), M) = BuildView(Tier(sh, M, k), N)
    BY <2>1, SameViews
  <2>4. BuildView(TierWs(sh, M, k), M) = BuildView(TierWs(sh, M, k), N)
    BY <2>2, SameViews
  <2> QED BY <1>3, <2>3, <2>4
<1>5. \A k, v : /\ Shows(v, Tier(sh, M, k), M) <=> Shows(v, Tier(sh, N, k), N)
                /\ Shows(v, TierWs(sh, M, k), M) <=> Shows(v, TierWs(sh, N, k), N)
  BY <1>4 DEF Shows
<1>6. Indexed(sh, N)
  BY <1>2, <1>5, Zenon DEF Indexed, Tidy
<1>7. Placed(sh, N)
  BY DEF Tidy, Placed
<1> QED BY <1>6, <1>7 DEF Tidy

LEMMA TidyRolls == ASSUME NEW sh, NEW M, Tidy(sh, M) PROVE Rolls(sh)
BY DEF Tidy, Indexed, Shows, Rolls

\* Tidiness is about the fields.
LEMMA SameFields ==
    ASSUME NEW sh, NEW M, Tidy(sh, M), NEW new, DOMAIN new = ShardFields,
           new.entries = sh.entries, new.ready = sh.ready, new.waiting = sh.waiting
    PROVE  Tidy(new, M)
<1>1. \A S : InState(new, S) = InState(sh, S)
  BY DEF InState
<1>2. ReadyIn(new) = ReadyIn(sh)
  BY <1>1 DEF ReadyIn
<1>3. \A k : Tier(new, M, k) = Tier(sh, M, k) /\ TierWs(new, M, k) = TierWs(sh, M, k)
  BY <1>2 DEF Tier, TierWs
<1>4. Shaped(new)
  BY DEF Tidy, Shaped
<1>5. Placed(new, M)
  BY DEF Tidy, Placed
<1>6. Indexed(new, M)
  <2>1. \A k \in DOMAIN new.ready :
           /\ DOMAIN new.ready[k] = {"all", "ws"}
           /\ Shows(new.ready[k].all, Tier(new, M, k), M)
           /\ Shows(new.ready[k].ws, TierWs(new, M, k), M)
    BY <1>3, Zenon DEF Tidy, Indexed
  <2> QED BY <1>1, <1>2, <2>1 DEF Tidy, Indexed
<1> QED BY <1>4, <1>5, <1>6 DEF Tidy

LEMMA UpsertTidy ==
    ASSUME NEW sh, Tidy(sh, meta), NEW a \in Auths, NEW M, NEW b \in Blocks,
           M[a].priority \in Nat, M[a].parent \in Parents,
           \A x \in DOMAIN sh.entries \ {a} : M[x] = meta[x]
    PROVE  /\ Tidy(UpsertEntry(sh, a, M, b), M)
           /\ DOMAIN UpsertEntry(sh, a, M, b).entries = DOMAIN sh.entries \cup {a}
           /\ \A x \in DOMAIN sh.entries \cup {a} :
                 UpsertEntry(sh, a, M, b).entries[x]
                   = IF x = a THEN Evaluated(b) ELSE sh.entries[x]
<1> DEFINE e == Evaluated(b)
           new == With(sh.entries, a, e)
           put == [sh EXCEPT !.entries = new]
           D == DOMAIN sh.entries
<1>1. /\ sh.entries \in [D -> Entries] /\ e \in Entries
      /\ DOMAIN sh = ShardFields /\ D \subseteq Auths
  BY EvaluatedIsEntry DEF Tidy, Shaped
<1>2. new = [x \in D \cup {a} |-> IF x = a THEN e ELSE sh.entries[x]]
  BY DEF With
<1>3. new \in [D \cup {a} -> Entries] /\ DOMAIN new = D \cup {a}
  <2> HIDE DEF e, new
  <2> QED BY <1>1, <1>2
<1>9. Rolls(sh)
  BY TidyRolls
<1>10. \A x \in D : meta[x].priority \in Nat /\ meta[x].parent \in Parents
  BY DEF Tidy, Placed
<1>4. UpsertEntry(sh, a, M, b)
        = IF a \in D /\ sh.entries[a] = e /\ SamePlace(meta[a], M[a])
          THEN put ELSE RebuildIndexes(put, M)
  BY DEF UpsertEntry
<1> HIDE DEF new, e, D
<1>5. /\ put.entries = new /\ put.ready = sh.ready /\ put.waiting = sh.waiting
      /\ DOMAIN put = ShardFields
  BY <1>1 DEF ShardFields
<1>6. Shaped(put) /\ Rolls(put) /\ Placed(put, M)
  <2>1. Shaped(put)
    BY <1>1, <1>3, <1>5 DEF Shaped
  <2>2. Rolls(put)
    BY <1>5, <1>9 DEF Rolls
  <2>3. Placed(put, M)
    BY <1>3, <1>5, <1>10 DEF Placed, D
  <2> QED BY <2>1, <2>2, <2>3
<1> HIDE DEF put
<1>7. CASE a \in D /\ sh.entries[a] = e /\ SamePlace(meta[a], M[a])
  <2>1. new = sh.entries
    <3>1. D \cup {a} = D
      BY <1>7
    <3>2. new = [x \in D |-> sh.entries[x]]
      BY <1>2, <1>7, <3>1
    <3> QED BY <1>1, <3>2
  <2>2. Tidy(put, meta)
    BY <1>5, <2>1, SameFields
  <2>3. \A x \in DOMAIN put.entries :
           /\ meta[x].priority = M[x].priority /\ meta[x].parent = M[x].parent
           /\ meta[x].ws = M[x].ws
    BY <1>5, <1>7, <2>1 DEF SamePlace, D
  <2>4. Tidy(put, M)
    BY <2>2, <2>3, SamePlaces
  <2> QED BY <1>2, <1>4, <1>5, <1>7, <2>4 DEF e, D
<1>8. CASE ~(a \in D /\ sh.entries[a] = e /\ SamePlace(meta[a], M[a]))
  <2>1. Tidy(RebuildIndexes(put, M), M) /\ RebuildIndexes(put, M).entries = put.entries
    BY <1>6, RebuildTidy
  <2> QED BY <1>2, <1>4, <1>5, <1>8, <2>1 DEF e, D
<1> QED BY <1>7, <1>8

LEMMA RemoveTidy ==
    ASSUME NEW sh, NEW M, NEW X, NEW N, Tidy(sh, M), NEW a,
           \A x \in DOMAIN sh.entries \ {a} : M[x] = N[x] /\ X[x] = N[x]
    PROVE  /\ Tidy(RemoveEntry(sh, a, X), N)
           /\ DOMAIN RemoveEntry(sh, a, X).entries = DOMAIN sh.entries \ {a}
           /\ \A x \in DOMAIN sh.entries \ {a} :
                 RemoveEntry(sh, a, X).entries[x] = sh.entries[x]
<1> DEFINE new == Without(sh.entries, a)
           put == [sh EXCEPT !.entries = new]
           D == DOMAIN sh.entries
<1>1. sh.entries \in [D -> Entries] /\ DOMAIN sh = ShardFields /\ D \subseteq Auths
  BY DEF Tidy, Shaped
<1>2. new = [x \in D \ {a} |-> sh.entries[x]]
  BY DEF Without, Restrict
<1>3. new \in [D \ {a} -> Entries] /\ DOMAIN new = D \ {a}
  <2> HIDE DEF new
  <2> QED BY <1>1, <1>2
<1>9. Rolls(sh)
  BY TidyRolls
<1>10. \A x \in D : M[x].priority \in Nat /\ M[x].parent \in Parents
  BY DEF Tidy, Placed
<1>4. RemoveEntry(sh, a, X) = IF a \in D THEN RebuildIndexes(put, X) ELSE sh
  BY DEF RemoveEntry
<1> HIDE DEF new, D
<1>5. put.entries = new /\ DOMAIN put = ShardFields /\ put.ready = sh.ready
  BY <1>1 DEF ShardFields
<1>6. Shaped(put) /\ Rolls(put) /\ Placed(put, X)
  <2>1. Shaped(put)
    BY <1>1, <1>3, <1>5 DEF Shaped
  <2>2. Rolls(put)
    BY <1>5, <1>9 DEF Rolls
  <2>3. Placed(put, X)
    BY <1>3, <1>5, <1>10 DEF Placed, D
  <2> QED BY <2>1, <2>2, <2>3
<1> HIDE DEF put
<1>7. CASE a \in D
  <2> DEFINE r == RebuildIndexes(put, X)
  <2>1. Tidy(r, X) /\ r.entries = new
    BY <1>5, <1>6, RebuildTidy
  <2> HIDE DEF r
  <2>2. \A x \in DOMAIN r.entries :
           X[x].priority = N[x].priority /\ X[x].parent = N[x].parent /\ X[x].ws = N[x].ws
    BY <1>3, <2>1 DEF D
  <2>3. Tidy(r, N)
    BY <2>1, <2>2, SamePlaces
  <2> QED BY <1>2, <1>4, <1>7, <2>1, <2>3 DEF r, D
<1>8. CASE a \notin D
  <2>1. \A x \in DOMAIN sh.entries :
           M[x].priority = N[x].priority /\ M[x].parent = N[x].parent /\ M[x].ws = N[x].ws
    BY <1>8 DEF D
  <2>2. Tidy(sh, N)
    BY <2>1, SamePlaces
  <2>3. D \ {a} = D /\ sh.entries = [x \in D |-> sh.entries[x]]
    BY <1>1, <1>8
  <2> QED BY <1>4, <1>8, <2>2, <2>3 DEF D
<1> QED BY <1>7, <1>8

LEMMA PromoteTidy ==
    ASSUME NEW sh, Tidy(sh, meta), \A a \in DOMAIN sh.entries : block[a] \in Blocks
    PROVE  /\ Tidy(PromoteExpired(sh), meta)
           /\ PromoteExpired(sh).entries
                = [a \in DOMAIN sh.entries |->
                      IF a \in Due(sh) THEN Evaluated(block[a]) ELSE sh.entries[a]]
<1> DEFINE D == DOMAIN sh.entries
           new == [a \in D |-> IF a \in Due(sh) THEN Evaluated(block[a]) ELSE sh.entries[a]]
           put == [sh EXCEPT !.entries = new]
<1>1. sh.entries \in [D -> Entries] /\ DOMAIN sh = ShardFields /\ D \subseteq Auths
  BY DEF Tidy, Shaped
<1>2. new \in [D -> Entries] /\ DOMAIN new = D
  <2>1. \A a \in D : Evaluated(block[a]) \in Entries
    BY EvaluatedIsEntry
  <2> QED BY <1>1, <2>1
<1>3. PromoteExpired(sh) = IF Due(sh) = {} THEN sh ELSE RebuildIndexes(put, meta)
  BY DEF PromoteExpired
<1>4. Due(sh) = {} => new = sh.entries
  BY <1>1
<1> HIDE DEF new
<1>5. put.entries = new /\ DOMAIN put = ShardFields /\ put.ready = sh.ready
  BY <1>1 DEF ShardFields
<1>6. Shaped(put) /\ Rolls(put) /\ Placed(put, meta)
  <2>1. Shaped(put)
    BY <1>1, <1>2, <1>5 DEF Shaped
  <2>2. Rolls(put)
    BY <1>5, TidyRolls DEF Rolls
  <2>3. Placed(put, meta)
    BY <1>2, <1>5 DEF Placed, Tidy
  <2> QED BY <2>1, <2>2, <2>3
<1> HIDE DEF put
<1>7. Tidy(RebuildIndexes(put, meta), meta) /\ RebuildIndexes(put, meta).entries = new
  BY <1>5, <1>6, RebuildTidy
<1> QED BY <1>3, <1>4, <1>7 DEF new

\* The shard of a provider: as tidy as it was, or new.
LEMMA EnsureTidy ==
    ASSUME NEW p, DOMAIN meta \subseteq Auths,
           \A a \in DOMAIN meta : /\ block[a] \in Blocks /\ meta[a].priority \in Nat
                                 /\ meta[a].parent \in Parents,
           p \in DOMAIN shard =>
              Tidy(shard[p], meta) /\ DOMAIN shard[p].entries = MembersOf(p)
    PROVE  /\ Tidy(EnsureModel(p), meta)
           /\ EnsureModel(p).entries
                = [a \in MembersOf(p) |->
                      IF p \in DOMAIN shard /\ a \notin Due(shard[p])
                      THEN shard[p].entries[a] ELSE Evaluated(block[a])]
<1>1. CASE p \in DOMAIN shard
  <2>1. \A a \in DOMAIN shard[p].entries : block[a] \in Blocks
    BY <1>1 DEF MembersOf
  <2>2. /\ Tidy(PromoteExpired(shard[p]), meta)
        /\ PromoteExpired(shard[p]).entries
             = [a \in MembersOf(p) |-> IF a \in Due(shard[p]) THEN Evaluated(block[a])
                                       ELSE shard[p].entries[a]]
    BY <1>1, <2>1, PromoteTidy
  <2> QED BY <1>1, <2>2 DEF EnsureModel
<1>2. CASE p \notin DOMAIN shard
  <2> DEFINE new == [a \in MembersOf(p) |-> Evaluated(block[a])]
             put == [NoShard EXCEPT !.entries = new]
  <2>1. new \in [MembersOf(p) -> Entries] /\ DOMAIN new = MembersOf(p)
    <3>1. \A a \in MembersOf(p) : Evaluated(block[a]) \in Entries
      BY EvaluatedIsEntry DEF MembersOf
    <3> QED BY <3>1
  <2>2. EnsureModel(p) = RebuildIndexes(put, meta)
    BY <1>2 DEF EnsureModel
  <2> HIDE DEF new
  <2>3. put.entries = new /\ DOMAIN put = ShardFields /\ DOMAIN put.ready = {}
    BY DEF NoShard, ShardFields
  <2>4. Shaped(put) /\ Rolls(put) /\ Placed(put, meta)
    BY <2>1, <2>3 DEF Shaped, Rolls, Placed, MembersOf
  <2> HIDE DEF put
  <2>5. Tidy(RebuildIndexes(put, meta), meta) /\ RebuildIndexes(put, meta).entries = new
    BY <2>3, <2>4, RebuildTidy
  <2> QED BY <1>2, <2>2, <2>5 DEF new
<1> QED BY <1>1, <1>2

-----------------------------------------------------------------------------
(* A pick moves cursors only.                                              *)

\* A pick from a view that shows a credential of E is one of them, and the
\* view shows what it showed.
LEMMA PickFromFits ==
    ASSUME NEW S \in SUBSET Nat, IsFiniteSet(S), NEW M, \A a \in S : M[a].parent \in Parents,
           NEW v, Shows(v, S, M), NEW strategy, NEW E, S \cap E # {}
    PROVE  /\ PickFrom(v, strategy, E).auth \in S \cap E
           /\ Shows(PickFrom(v, strategy, E).view, S, M)
<1>1. /\ v.flat \in Seq(S) /\ Range(v.flat) = S
      /\ v.parents \in Seq(DOMAIN v.items) /\ Range(v.parents) = DOMAIN v.items
      /\ \A g \in DOMAIN v.items : /\ v.items[g] \in Seq(S)
                                  /\ Range(v.items[g]) = {a \in S : M[a].parent = g}
      /\ v.parents # <<>> => \A a \in S : M[a].parent \in DOMAIN v.items
  BY ViewLists DEF Shows
<1>2. Rolling(v)
  BY DEF Shows
<1>3. ASSUME NEW c \in Nat
      PROVE  Position(v.flat, c, E) \in Nat /\ v.flat[Position(v.flat, c, E)] \in S \cap E
  <2> DEFINE k == Position(v.flat, c, E)
  <2>1. k \in 1..Len(v.flat) /\ v.flat[k] \in E
    BY <1>1, PositionFits
  <2> HIDE DEF k
  <2>2. v.flat[k] \in S /\ k \in Nat
    BY <1>1, <2>1
  <2> QED BY <2>1, <2>2 DEF k
<1>4. /\ PickFirst(v, E).auth \in S \cap E
      /\ Shows(PickFirst(v, E).view, S, M)
  BY <1>3 DEF PickFirst
<1>5. /\ PickFlat(v, E).auth \in S \cap E
      /\ Shows(PickFlat(v, E).view, S, M)
  <2> DEFINE k == Position(v.flat, v.cursor, E)
             w == [v EXCEPT !.cursor = k]
  <2>1. PickFlat(v, E).view = w /\ PickFlat(v, E).auth = v.flat[k]
    BY DEF PickFlat
  <2>2. k \in Nat /\ v.flat[k] \in S \cap E
    BY <1>2, <1>3 DEF Rolling
  <2> HIDE DEF k
  <2>3. /\ w.flat = v.flat /\ w.parents = v.parents /\ w.items = v.items
        /\ DOMAIN w = ViewFields /\ w.cursor = k /\ w.parentCursor = v.parentCursor
        /\ w.itemCursor = v.itemCursor
    BY <1>2 DEF Rolling, ViewFields
  <2> HIDE DEF w
  <2> QED BY <1>2, <2>1, <2>2, <2>3 DEF Shows, Rolling, Members
<1>6. ASSUME Len(v.parents) > 1
      PROVE  /\ PickGrouped(v, E).auth \in S \cap E
             /\ Shows(PickGrouped(v, E).view, S, M)
  <2> DEFINE able == {g \in DOMAIN v.items : Range(v.items[g]) \cap E # {}}
             k == Position(v.parents, v.parentCursor, able)
             g == v.parents[k]
             i == Position(v.items[g], v.itemCursor[g], E)
             turns == [v.itemCursor EXCEPT ![g] = i]
             w == [v EXCEPT !.parentCursor = k, !.itemCursor = turns]
  <2>1. PickGrouped(v, E).view = w /\ PickGrouped(v, E).auth = v.items[g][i]
    <3>1. PickGrouped(v, E) = [auth |-> v.items[g][i],
                               view |-> [v EXCEPT !.parentCursor = k, !.itemCursor[g] = i]]
      BY Zenon DEF PickGrouped
    <3> HIDE DEF k, g, i
    <3> QED BY <3>1
  <2>2. v.parents # <<>>
    BY <1>6
  <2>3. PICK a \in S \cap E : TRUE
    OBVIOUS
  <2>4. M[a].parent \in able
    <3>1. M[a].parent \in DOMAIN v.items
      BY <1>1, <2>2, <2>3
    <3>2. a \in Range(v.items[M[a].parent])
      BY <1>1, <2>3, <3>1
    <3> QED BY <2>3, <3>1, <3>2
  <2>5. Range(v.parents) \cap able # {}
    BY <1>1, <2>4
  <2> HIDE DEF able
  <2>6. k \in 1..Len(v.parents) /\ g \in able
    BY <1>1, <1>2, <2>5, PositionFits DEF Rolling
  <2> HIDE DEF k
  <2>7. g \in DOMAIN v.items /\ Range(v.items[g]) \cap E # {}
    BY <2>6 DEF able
  <2> HIDE DEF g
  <2>8. v.itemCursor[g] \in Nat /\ v.items[g] \in Seq(S)
    BY <1>1, <1>2, <2>7 DEF Rolling
  <2>9. i \in 1..Len(v.items[g]) /\ v.items[g][i] \in E
    BY <2>7, <2>8, PositionFits
  <2> HIDE DEF i
  <2>10. i \in Nat /\ k \in Nat /\ v.items[g][i] \in S \cap E
    <3>1. i \in Nat /\ k \in Nat
      BY <2>6, <2>9
    <3>2. v.items[g][i] \in S
      BY <2>8, <2>9
    <3> QED BY <2>9, <3>1, <3>2
  <2>11. turns \in [DOMAIN v.items -> Nat]
    BY <1>2, <2>10 DEF Rolling
  <2> HIDE DEF turns
  <2>12. /\ w.flat = v.flat /\ w.parents = v.parents /\ w.items = v.items
         /\ DOMAIN w = ViewFields /\ w.cursor = v.cursor /\ w.parentCursor = k
         /\ w.itemCursor = turns
    BY <1>2 DEF Rolling, ViewFields
  <2> HIDE DEF w
  <2> QED BY <1>2, <2>1, <2>10, <2>11, <2>12 DEF Shows, Rolling, Members
<1> QED BY <1>4, <1>5, <1>6 DEF PickFrom

LEMMA TierIsFinite ==
    ASSUME NEW sh, NEW M, Tidy(sh, M), NEW k
    PROVE  /\ Tier(sh, M, k) \in SUBSET Nat /\ IsFiniteSet(Tier(sh, M, k))
           /\ TierWs(sh, M, k) \in SUBSET Nat /\ IsFiniteSet(TierWs(sh, M, k))
           /\ \A a \in Tier(sh, M, k) : M[a].parent \in Parents
           /\ TierWs(sh, M, k) \subseteq Tier(sh, M, k)
<1> DEFINE T == Tier(sh, M, k)
           W == TierWs(sh, M, k)
<1>1. /\ T \in SUBSET Auths /\ \A a \in T : M[a].parent \in Parents
      /\ W \in SUBSET T
  BY DEF Tidy, Shaped, Placed, Tier, TierWs, ReadyIn, InState
<1> HIDE DEF T, W
<1>2. IsFiniteSet(T)
  BY <1>1, NamesAssumption, FS_Subset
<1>3. IsFiniteSet(W)
  BY <1>1, <1>2, FS_Subset
<1> QED BY <1>1, <1>2, <1>3, NamesAssumption DEF T, W

\* The credentials a view of a shard shows.
Shown(sh, M, k, view) == IF view = "ws" THEN TierWs(sh, M, k) ELSE Tier(sh, M, k)

LEMMA MatchIs ==
    ASSUME NEW sh, NEW M, Tidy(sh, M), NEW k \in DOMAIN sh.ready, NEW view \in {"all", "ws"},
           NEW E
    PROVE  /\ Shows(sh.ready[k][view], Shown(sh, M, k, view), M)
           /\ HasMatch(sh.ready[k][view], E) <=> Shown(sh, M, k, view) \cap E # {}
<1> DEFINE S == Shown(sh, M, k, view)
           v == sh.ready[k][view]
<1>1. Shows(v, S, M)
  BY DEF Tidy, Indexed, Shown
<1>2. S \in SUBSET Nat /\ IsFiniteSet(S) /\ \A a \in S : M[a].parent \in Parents
  BY TierIsFinite DEF Shown
<1> HIDE DEF S, v
<1>3. Range(v.flat) = S
  BY <1>1, <1>2, ViewLists DEF Shows
<1> QED BY <1>1, <1>3 DEF HasMatch, S, v

\* A pick moves cursors only, and gives a credential of the view it picks from.
LEMMA PickAtFits ==
    ASSUME NEW sh, NEW M, Tidy(sh, M), NEW k \in DOMAIN sh.ready, NEW preferWs,
           NEW strategy, NEW E,
           HasMatch(sh.ready[k][ViewAt(sh, k, preferWs, E)], E)
    PROVE  /\ Tidy(PickAt(sh, k, preferWs, strategy, E).shard, M)
           /\ PickAt(sh, k, preferWs, strategy, E).shard.entries = sh.entries
           /\ PickAt(sh, k, preferWs, strategy, E).auth
                \in Shown(sh, M, k, ViewAt(sh, k, preferWs, E)) \cap E
<1> DEFINE view == ViewAt(sh, k, preferWs, E)
           pick == PickFrom(sh.ready[k][view], strategy, E)
           w == pick.view
           S == Shown(sh, M, k, view)
           new == [sh EXCEPT !.ready[k][view] = w]
<1>1. /\ PickAt(sh, k, preferWs, strategy, E).shard = new
      /\ PickAt(sh, k, preferWs, strategy, E).auth = pick.auth
  BY DEF PickAt
<1>2. view \in {"all", "ws"}
  BY DEF ViewAt
<1>3. Shows(sh.ready[k][view], S, M) /\ S \cap E # {}
  BY <1>2, MatchIs
<1>4. S \in SUBSET Nat /\ IsFiniteSet(S) /\ \A a \in S : M[a].parent \in Parents
  BY TierIsFinite DEF Shown
<1> HIDE DEF S
<1>5. pick.auth \in S \cap E /\ Shows(w, S, M)
  BY <1>3, <1>4, PickFromFits
<1> HIDE DEF view, pick
<1>6. /\ DOMAIN new = ShardFields /\ new.entries = sh.entries /\ new.waiting = sh.waiting
      /\ new.ready = [sh.ready EXCEPT ![k][view] = w]
  BY DEF Tidy, Shaped, ShardFields
<1> HIDE DEF new, w
<1>7. \A T : InState(new, T) = InState(sh, T)
  BY <1>6 DEF InState
<1>8. \A j : Tier(new, M, j) = Tier(sh, M, j) /\ TierWs(new, M, j) = TierWs(sh, M, j)
  BY <1>7 DEF Tier, TierWs, ReadyIn
<1>9. DOMAIN new.ready = DOMAIN sh.ready
  BY <1>6
<1>10. ASSUME NEW j \in DOMAIN sh.ready
       PROVE  /\ DOMAIN new.ready[j] = {"all", "ws"}
              /\ Shows(new.ready[j].all, Tier(new, M, j), M)
              /\ Shows(new.ready[j].ws, TierWs(new, M, j), M)
  <2>1. /\ DOMAIN sh.ready[j] = {"all", "ws"}
        /\ Shows(sh.ready[j].all, Tier(new, M, j), M)
        /\ Shows(sh.ready[j].ws, TierWs(new, M, j), M)
    BY <1>8 DEF Tidy, Indexed
  <2>2. new.ready[j] = IF j = k THEN [sh.ready[j] EXCEPT ![view] = w] ELSE sh.ready[j]
    BY <1>6
  <2>3. Shows(w, IF view = "ws" THEN TierWs(new, M, k) ELSE Tier(new, M, k), M)
    BY <1>5, <1>8 DEF S, Shown
  <2> QED BY <1>2, <2>1, <2>2, <2>3
<1>11. new.waiting = InState(new, {"cooldown", "blocked"})
  BY <1>6, <1>7 DEF Tidy, Indexed
<1>12. DOMAIN new.ready = {M[a].priority : a \in ReadyIn(new)}
  BY <1>7, <1>9 DEF Tidy, Indexed, ReadyIn
<1>13. Indexed(new, M)
  BY <1>9, <1>10, <1>11, <1>12, Zenon DEF Indexed
<1>14. Shaped(new) /\ Placed(new, M)
  BY <1>6 DEF Tidy, Shaped, Placed
<1> QED BY <1>1, <1>5, <1>6, <1>13, <1>14 DEF Tidy, S, view

\* The priorities that have a credential of E, with websockets or not.
LEMMA MatchingIs ==
    ASSUME NEW sh, NEW M, Tidy(sh, M), NEW E
    PROVE  /\ Matching(sh, "all", E) = {M[a].priority : a \in ReadyIn(sh) \cap E}
           /\ Matching(sh, "ws", E) = {M[a].priority : a \in {b \in ReadyIn(sh) \cap E : M[b].ws}}
           /\ DOMAIN sh.ready \in SUBSET Nat /\ IsFiniteSet(DOMAIN sh.ready)
<1>1. DOMAIN sh.ready = {M[a].priority : a \in ReadyIn(sh)}
  BY DEF Tidy, Indexed
<1>2. \A k \in DOMAIN sh.ready :
         /\ HasMatch(sh.ready[k]["all"], E) <=> Tier(sh, M, k) \cap E # {}
         /\ HasMatch(sh.ready[k]["ws"], E) <=> TierWs(sh, M, k) \cap E # {}
  BY MatchIs DEF Shown
<1>3. Matching(sh, "all", E) = {M[a].priority : a \in ReadyIn(sh) \cap E}
  BY <1>1, <1>2 DEF Matching, Tier
<1>4. Matching(sh, "ws", E) = {M[a].priority : a \in {b \in ReadyIn(sh) \cap E : M[b].ws}}
  BY <1>1, <1>2 DEF Matching, Tier, TierWs
<1>5. ReadyIn(sh) \in SUBSET Auths /\ \A a \in ReadyIn(sh) : M[a].priority \in Nat
  BY DEF Tidy, Shaped, Placed, ReadyIn, InState
<1>6. IsFiniteSet(ReadyIn(sh))
  BY <1>5, NamesAssumption, FS_Subset
<1>7. IsFiniteSet(DOMAIN sh.ready)
  <2> DEFINE f == [a \in ReadyIn(sh) |-> M[a].priority]
  <2>1. f \in Surjection(ReadyIn(sh), DOMAIN sh.ready)
    BY <1>1 DEF Surjection
  <2> HIDE DEF f
  <2> QED BY <1>6, <2>1, FS_Surjection
<1> QED BY <1>1, <1>3, <1>4, <1>5, <1>7

\* The bucket highestReadyPriority finds, and the view a pick takes there.
LEMMA HighestFits ==
    ASSUME NEW sh, NEW M, Tidy(sh, M), NEW preferWs, NEW E, NEW k,
           k = HighestReady(sh, preferWs, E)
    PROVE  \/ k = NoPriority /\ Matching(sh, "all", E) = {}
           \/ /\ k \in DOMAIN sh.ready
              /\ HasMatch(sh.ready[k][ViewAt(sh, k, preferWs, E)], E)
              /\ \/ /\ preferWs /\ ViewAt(sh, k, preferWs, E) = "ws"
                    /\ \A j \in Matching(sh, "ws", E) : j <= k
                 \/ /\ preferWs => Matching(sh, "ws", E) = {}
                    /\ ViewAt(sh, k, preferWs, E) = "all"
                    /\ \A j \in Matching(sh, "all", E) : j <= k
<1>1. \A view : Matching(sh, view, E) # {}
         => /\ Max(Matching(sh, view, E)) \in Matching(sh, view, E)
            /\ \A j \in Matching(sh, view, E) : j <= Max(Matching(sh, view, E))
  <2> TAKE view
  <2>1. /\ Matching(sh, view, E) \in SUBSET (DOMAIN sh.ready)
        /\ DOMAIN sh.ready \in SUBSET Nat /\ IsFiniteSet(DOMAIN sh.ready)
    BY MatchingIs DEF Matching
  <2>2. IsFiniteSet(Matching(sh, view, E))
    BY <2>1, FS_Subset
  <2> QED BY <2>1, <2>2, MaxOfNats
<1>2. CASE preferWs /\ Matching(sh, "ws", E) # {}
  <2>1. k = Max(Matching(sh, "ws", E))
    BY <1>2 DEF HighestReady
  <2>2. k \in DOMAIN sh.ready /\ HasMatch(sh.ready[k]["ws"], E)
    BY <1>1, <1>2, <2>1 DEF Matching
  <2>3. ViewAt(sh, k, preferWs, E) = "ws"
    BY <1>2, <2>2 DEF ViewAt
  <2> QED BY <1>1, <1>2, <2>1, <2>2, <2>3
<1>3. CASE ~(preferWs /\ Matching(sh, "ws", E) # {}) /\ Matching(sh, "all", E) # {}
  <2>1. k = Max(Matching(sh, "all", E))
    BY <1>3 DEF HighestReady
  <2>2. k \in DOMAIN sh.ready /\ HasMatch(sh.ready[k]["all"], E)
    BY <1>1, <1>3, <2>1 DEF Matching
  <2>3. ViewAt(sh, k, preferWs, E) = "all"
    BY <1>3, <2>2 DEF ViewAt, Matching
  <2> QED BY <1>1, <1>3, <2>1, <2>2, <2>3
<1>4. CASE ~(preferWs /\ Matching(sh, "ws", E) # {}) /\ Matching(sh, "all", E) = {}
  BY <1>4 DEF HighestReady
<1> QED BY <1>2, <1>3, <1>4

-----------------------------------------------------------------------------
(* The indexes agree with the entries.                                     *)

\* What an entry says of the record it was made from, some time ago: what is
\* ready has not been blocked since, and what waits does so for one of the two
\* times the record has.
Fresh(e, b) ==
    /\ e.state = "ready" => ~IsBlocked(b)
    /\ e.state = "disabled" => b.off
    /\ e.state \in {"cooldown", "blocked"} => e.retry \in Nat /\ e.retry \in {b.retry, b.recover}

ShardFits(p, sh, M, B) ==
    /\ Tidy(sh, M)
    /\ DOMAIN sh.entries = {a \in DOMAIN M : M[a].provider = p /\ M[a].supported}
    /\ \A a \in DOMAIN sh.entries : Fresh(sh.entries[a], B[a])

Known ==
    /\ setup \in Setups
    /\ DOMAIN meta \subseteq Auths /\ DOMAIN block = DOMAIN meta
    /\ \A a \in DOMAIN meta : /\ meta[a] \in setup.metas[a] /\ block[a] \in Blocks
                              /\ meta[a].provider \in providers
    /\ providers \subseteq setup.providers

ShardsTidy == \A p \in DOMAIN shard : ShardFits(p, shard[p], meta, block)

LEMMA EvaluatedFresh == ASSUME NEW b \in Blocks PROVE Fresh(Evaluated(b), b)
BY NoneAssumption DEF Blocks, Times, Evaluated, Fresh, After, IsBlocked

\* The credentials of a deployment have a place in the indexes.
LEMMA MetasPlaced ==
    ASSUME NEW w \in Setups, NEW a \in Auths, NEW m \in w.metas[a]
    PROVE  /\ m.priority \in Nat /\ m.parent \in Parents
           /\ m.provider \in w.providers /\ m.supported \in BOOLEAN
BY SetupsAssumption DEF Parents

LEMMA UpsertKeeps ==
    ASSUME Known, ShardsTidy, NEW a \in Auths, NEW b \in setup.blocks,
           NEW m \in setup.metas[a], UpsertAuth(a, m, b), setup' = setup
    PROVE  Known' /\ ShardsTidy'
<1> DEFINE M == With(meta, a, m)
           B == With(block, a, b)
<1>1. /\ meta' = M /\ DOMAIN M = DOMAIN meta \cup {a} /\ M[a] = m
      /\ \A x \in DOMAIN meta \ {a} : M[x] = meta[x]
  BY DEF UpsertAuth, With
<1>2. b \in Blocks
  BY SetupsAssumption DEF Known, Blocks, Times
<1>3. m.priority \in Nat /\ m.parent \in Parents /\ m.provider \in setup.providers
  BY MetasPlaced DEF Known
<1>4. /\ block' = B /\ DOMAIN B = DOMAIN block \cup {a} /\ B[a] = b
      /\ \A x \in DOMAIN block \ {a} : B[x] = block[x]
  BY DEF UpsertAuth, With
<1>5. providers' = providers \cup {m.provider}
  BY DEF UpsertAuth
<1> HIDE DEF M, B
<1>6. Known'
  BY <1>1, <1>2, <1>3, <1>4, <1>5 DEF Known
<1>7. ASSUME NEW p \in DOMAIN shard'
      PROVE  ShardFits(p, shard'[p], M, B)
  <2> DEFINE sh == shard[p]
             D == DOMAIN sh.entries
             after == {x \in DOMAIN M : M[x].provider = p /\ M[x].supported}
  <2>1. /\ p \in DOMAIN shard
        /\ shard'[p] = CASE p = m.provider /\ m.supported -> UpsertEntry(sh, a, M, b)
                         [] p = m.provider /\ ~m.supported -> RemoveEntry(sh, a, M)
                         [] p # m.provider /\ Moved(a, m) -> RemoveEntry(sh, a, M)
                         [] OTHER -> sh
    BY <1>7 DEF UpsertAuth, M
  <2>2. /\ Tidy(sh, meta) /\ D = {x \in DOMAIN meta : meta[x].provider = p /\ meta[x].supported}
        /\ \A x \in D : Fresh(sh.entries[x], block[x])
    BY <2>1 DEF ShardsTidy, ShardFits
  <2>3. \A x \in D \ {a} : M[x] = meta[x] /\ B[x] = block[x]
    BY <1>1, <1>4, <2>2 DEF Known
  <2> HIDE DEF sh
  <2>4. CASE p = m.provider /\ m.supported
    <3> DEFINE new == UpsertEntry(sh, a, M, b)
    <3>1. shard'[p] = new
      BY <2>1, <2>4
    <3>2. \A x \in DOMAIN sh.entries \ {a} : M[x] = meta[x]
      BY <2>3
    <3>3. M[a].priority \in Nat /\ M[a].parent \in Parents
      BY <1>1, <1>3
    <3>4. /\ Tidy(new, M) /\ DOMAIN new.entries = D \cup {a}
          /\ \A x \in D \cup {a} :
                new.entries[x] = IF x = a THEN Evaluated(b) ELSE sh.entries[x]
      BY <1>2, <2>2, <3>2, <3>3, UpsertTidy
    <3> HIDE DEF new
    <3>5. D \cup {a} = after
      BY <1>1, <2>2, <2>3, <2>4
    <3>6. \A x \in D \cup {a} : Fresh(new.entries[x], B[x])
      BY <1>2, <1>4, <2>2, <2>3, <3>4, EvaluatedFresh
    <3> QED BY <3>1, <3>4, <3>5, <3>6 DEF ShardFits
  <2>5. ASSUME shard'[p] = RemoveEntry(sh, a, M), p # m.provider \/ ~m.supported
        PROVE  ShardFits(p, shard'[p], M, B)
    <3> DEFINE new == RemoveEntry(sh, a, M)
    <3>1. \A x \in DOMAIN sh.entries \ {a} : meta[x] = M[x] /\ M[x] = M[x]
      BY <2>3
    <3>2. /\ Tidy(new, M) /\ DOMAIN new.entries = D \ {a}
          /\ \A x \in D \ {a} : new.entries[x] = sh.entries[x]
      BY <2>2, <3>1, RemoveTidy
    <3> HIDE DEF new
    <3>3. D \ {a} = after
      BY <1>1, <2>2, <2>3, <2>5
    <3>4. \A x \in D \ {a} : Fresh(new.entries[x], B[x])
      BY <2>2, <2>3, <3>2
    <3> QED BY <2>5, <3>2, <3>3, <3>4 DEF ShardFits, new
  <2>6. CASE p # m.provider /\ ~Moved(a, m)
    <3>1. shard'[p] = sh
      BY <2>1, <2>6
    <3>2. a \notin D
      BY <2>2, <2>6 DEF Moved
    <3>3. Tidy(sh, M)
      BY <2>2, <2>3, <3>2, SamePlaces
    <3>4. D = after
      BY <1>1, <2>2, <2>3, <2>6, <3>2
    <3>5. \A x \in D : Fresh(sh.entries[x], B[x])
      BY <2>2, <2>3, <3>2
    <3> QED BY <3>1, <3>3, <3>4, <3>5 DEF ShardFits
  <2> QED BY <2>1, <2>4, <2>5, <2>6
<1> QED BY <1>1, <1>4, <1>6, <1>7 DEF ShardsTidy

LEMMA RemoveKeeps ==
    ASSUME Known, ShardsTidy, NEW a \in Auths, RemoveAuth(a), setup' = setup
    PROVE  Known' /\ ShardsTidy'
<1> DEFINE N == [x \in DOMAIN meta \ {a} |-> meta[x]]
           B == [x \in DOMAIN block \ {a} |-> block[x]]
<1>1. meta' = N /\ block' = B /\ providers' = providers
  BY DEF RemoveAuth, Without, Restrict
<1>2. Known'
  BY <1>1 DEF Known
<1>3. ASSUME NEW p \in DOMAIN shard'
      PROVE  ShardFits(p, shard'[p], N, B)
  <2> DEFINE sh == shard[p]
             D == DOMAIN sh.entries
             new == RemoveEntry(sh, a, meta)
  <2>1. p \in DOMAIN shard /\ shard'[p] = new
    BY <1>3 DEF RemoveAuth
  <2>2. /\ Tidy(sh, meta) /\ D = {x \in DOMAIN meta : meta[x].provider = p /\ meta[x].supported}
        /\ \A x \in D : Fresh(sh.entries[x], block[x])
    BY <2>1 DEF ShardsTidy, ShardFits
  <2>3. \A x \in D \ {a} : meta[x] = N[x] /\ block[x] = B[x]
    BY <2>2 DEF Known
  <2>4. {x \in DOMAIN N : N[x].provider = p /\ N[x].supported} = D \ {a}
    BY <2>2
  <2> HIDE DEF sh, N, B
  <2>5. \A x \in DOMAIN sh.entries \ {a} : meta[x] = N[x] /\ meta[x] = N[x]
    BY <2>3
  <2>6. /\ Tidy(new, N) /\ DOMAIN new.entries = D \ {a}
        /\ \A x \in D \ {a} : new.entries[x] = sh.entries[x]
    BY <2>2, <2>5, RemoveTidy
  <2> HIDE DEF new
  <2>7. \A x \in D \ {a} : Fresh(new.entries[x], B[x])
    BY <2>2, <2>3, <2>6
  <2> QED BY <2>1, <2>4, <2>6, <2>7 DEF ShardFits
<1> QED BY <1>1, <1>2, <1>3 DEF ShardsTidy

\* A pick works on shards that are prepared: what is then not ready cannot be
\* used, or has a recovery ahead.
LEMMA PreparedFits ==
    ASSUME Known, ShardsTidy, NEW p
    PROVE  /\ ShardFits(p, EnsureModel(p), meta, block)
           /\ \A a \in MembersOf(p) :
                 EnsureModel(p).entries[a].state # "ready"
                   => IsBlocked(block[a]) \/ After(block[a].recover)
<1> DEFINE sh == shard[p]
           new == EnsureModel(p)
<1>1. \A a \in DOMAIN meta : /\ block[a] \in Blocks /\ meta[a].priority \in Nat
                             /\ meta[a].parent \in Parents
  BY MetasPlaced DEF Known
<1>2. p \in DOMAIN shard =>
         /\ Tidy(sh, meta) /\ DOMAIN sh.entries = MembersOf(p)
         /\ \A a \in MembersOf(p) : Fresh(sh.entries[a], block[a])
  BY DEF ShardsTidy, ShardFits, MembersOf
<1>3. DOMAIN meta \subseteq Auths
  BY DEF Known
<1>4. /\ Tidy(new, meta)
      /\ new.entries = [a \in MembersOf(p) |->
                          IF p \in DOMAIN shard /\ a \notin Due(sh)
                          THEN sh.entries[a] ELSE Evaluated(block[a])]
  BY <1>1, <1>2, <1>3, EnsureTidy
<1> HIDE DEF new
<1>5. ASSUME NEW a \in MembersOf(p)
      PROVE  /\ Fresh(new.entries[a], block[a])
             /\ new.entries[a].state # "ready"
                  => IsBlocked(block[a]) \/ After(block[a].recover)
  <2>1. block[a] \in Blocks
    BY <1>1 DEF MembersOf
  <2>2. CASE p \in DOMAIN shard /\ a \notin Due(sh)
    <3>1. new.entries[a] = sh.entries[a] /\ Fresh(sh.entries[a], block[a])
      BY <1>2, <1>4, <2>2
    <3>2. sh.entries[a] \in Entries
      BY <1>2, <2>2 DEF Tidy, Shaped
    <3>3. sh.entries[a].state \in {"cooldown", "blocked"} => sh.entries[a].retry # 0
      BY <1>2, <2>2 DEF Due, Tidy, Indexed, InState
    <3>4. sh.entries[a].state \in {"cooldown", "blocked"}
            => After(block[a].retry) \/ After(block[a].recover)
      BY <3>1, <3>3, NoneAssumption DEF Fresh, After
    <3>5. sh.entries[a].state \in {"ready", "cooldown", "blocked", "disabled"}
      BY <3>2 DEF Entries
    <3> QED BY <3>1, <3>4, <3>5 DEF Fresh, IsBlocked
  <2>3. CASE ~(p \in DOMAIN shard /\ a \notin Due(sh))
    <3>1. new.entries[a] = Evaluated(block[a])
      BY <1>4, <2>3
    <3>2. Evaluated(block[a]).state # "ready" => IsBlocked(block[a])
      BY DEF Evaluated, IsBlocked
    <3> QED BY <2>1, <3>1, <3>2, EvaluatedFresh
  <2> QED BY <2>2, <2>3
<1> QED BY <1>4, <1>5 DEF ShardFits, MembersOf, new

LEMMA TakeKeeps ==
    ASSUME Known, ShardsTidy, UNCHANGED <<setup, meta, block, providers>>,
           \A p \in DOMAIN shard' : ShardFits(p, shard'[p], meta, block)
    PROVE  Known' /\ ShardsTidy'
BY DEF Known, ShardsTidy

\* A pick from a shard keeps it.
LEMMA PickKept ==
    ASSUME NEW p, NEW sh, NEW M, NEW B, ShardFits(p, sh, M, B), NEW k \in DOMAIN sh.ready,
           NEW preferWs, NEW strategy, NEW E,
           HasMatch(sh.ready[k][ViewAt(sh, k, preferWs, E)], E)
    PROVE  ShardFits(p, PickAt(sh, k, preferWs, strategy, E).shard, M, B)
BY PickAtFits DEF ShardFits

LEMMA SingleKeeps ==
    ASSUME Known, ShardsTidy, NEW p, NEW preferWs, NEW strategy, NEW E,
           RequestSingle(p, preferWs, strategy, E), setup' = setup
    PROVE  Known' /\ ShardsTidy'
<1> DEFINE sh == Prepared[p]
           k == HighestReady(sh, preferWs, E)
           pick == PickAt(sh, k, preferWs, strategy, E)
<1>1. /\ UNCHANGED <<meta, block, providers>>
      /\ shard' = PickSingle(p, Prepared, preferWs, strategy, E).shard
  BY DEF RequestSingle, Take
<1>2. \/ shard' = shard
      \/ p \in providers /\ shard' = With(shard, p, sh)
      \/ p \in providers /\ k # NoPriority /\ shard' = With(shard, p, pick.shard)
  BY <1>1 DEF PickSingle, Nothing
<1>3. p \in providers => ShardFits(p, sh, meta, block)
  BY PreparedFits DEF Prepared
<1> HIDE DEF sh
<1>4. p \in providers /\ k # NoPriority
        => /\ Tidy(sh, meta) /\ k \in DOMAIN sh.ready
           /\ HasMatch(sh.ready[k][ViewAt(sh, k, preferWs, E)], E)
  BY <1>3, HighestFits DEF ShardFits
<1>5. p \in providers /\ k # NoPriority => ShardFits(p, pick.shard, meta, block)
  BY <1>3, <1>4, PickKept
<1> HIDE DEF k, pick
<1>6. \A q \in DOMAIN shard' : ShardFits(q, shard'[q], meta, block)
  BY <1>2, <1>3, <1>5 DEF With, ShardsTidy
<1> QED BY <1>1, <1>6, TakeKeeps

\* The provider whose turn it is has a credential of the best priority there is.
MixedChoice(pick, S, strategy, E) ==
    \/ /\ \A p \in providers : Matching(S[p], "all", E) = {}
       /\ pick.auth = NoAuth /\ pick.shard = S
    \/ \E q \in providers : \E best, no :
          /\ ViewAt(S[q], best, no, E) = "all" /\ best \in Matching(S[q], "all", E)
          /\ \A p \in providers : \A j \in Matching(S[p], "all", E) : j <= best
          /\ pick.auth = PickAt(S[q], best, no, strategy, E).auth
          /\ pick.shard = [S EXCEPT ![q] = PickAt(S[q], best, no, strategy, E).shard]

LEMMA MixedFits ==
    ASSUME NEW S, DOMAIN S = providers, \A p \in providers : Tidy(S[p], meta),
           providers \subseteq Providers, NEW strategy, NEW E, NEW pick,
           pick = PickMixed(S, strategy, E)
    PROVE  MixedChoice(pick, S, strategy, E)
<1> DEFINE High(p) == HighestReady(S[p], FALSE, E)
           highs == {High(p) : p \in providers}
           best == Max(highs \cup {NoPriority})
           Able(p) == best \in Matching(S[p], "all", E)
           able == {p \in providers : Able(p)}
           weight == [p \in Providers |->
                        IF p \in providers /\ best \in DOMAIN S[p].ready
                        THEN Len(S[p].ready[best].all.flat) ELSE 0]
           Start(p) == SumFunctionOnSet(weight, {q \in Providers : q < p})
           slot == mixed % SumFunctionOnSet(weight, Providers)
           first == CHOOSE p \in Providers :
                      Start(p) <= slot /\ slot < Start(p) + weight[p]
           After1(p) == IF p >= first THEN p ELSE p + Max(Providers)
           next == CHOOSE p \in providers :
                     Able(p) /\ \A q \in providers : Able(q) => After1(p) <= After1(q)
           chosen == IF strategy = "fill_first" THEN Min(able) ELSE next
<1>1. \A p \in providers :
         \/ High(p) = NoPriority /\ Matching(S[p], "all", E) = {}
         \/ /\ High(p) \in Matching(S[p], "all", E)
            /\ \A j \in Matching(S[p], "all", E) : j <= High(p)
  <2> TAKE p \in providers
  <2>1. /\ Matching(S[p], "all", E) \in SUBSET (DOMAIN S[p].ready)
        /\ DOMAIN S[p].ready \in SUBSET Nat /\ IsFiniteSet(DOMAIN S[p].ready)
    BY MatchingIs DEF Matching
  <2>2. IsFiniteSet(Matching(S[p], "all", E))
    BY <2>1, FS_Subset
  <2>3. High(p) = IF Matching(S[p], "all", E) # {} THEN Max(Matching(S[p], "all", E))
                  ELSE NoPriority
    BY DEF HighestReady
  <2> HIDE DEF High
  <2> QED BY <2>1, <2>2, <2>3, MaxOfNats
<1>2. \A p \in providers : Matching(S[p], "all", E) \subseteq Nat
  BY MatchingIs DEF Matching
<1>3. IsFiniteSet(providers)
  BY NamesAssumption, FS_Subset
<1> HIDE DEF High
<1>4. IsFiniteSet(highs \cup {NoPriority}) /\ highs \cup {NoPriority} \in SUBSET (Nat \cup {NoPriority})
  <2> DEFINE f == [p \in providers |-> High(p)]
  <2>1. f \in Surjection(providers, highs)
    BY DEF Surjection
  <2>2. highs \cup {NoPriority} \in SUBSET (Nat \cup {NoPriority})
    BY <1>1, <1>2
  <2> HIDE DEF f, highs
  <2>3. IsFiniteSet(highs)
    BY <1>3, <2>1, FS_Surjection
  <2>4. IsFiniteSet(highs \cup {NoPriority})
    BY <2>3, FS_AddElement
  <2> QED BY <2>2, <2>4
<1> HIDE DEF highs
<1>5. best \in highs \cup {NoPriority} /\ \A y \in highs \cup {NoPriority} : y <= best
  BY <1>4, MaxOfPriorities
<1> HIDE DEF best
<1>6. /\ best \in Nat \cup {NoPriority}
      /\ \A p \in providers : High(p) <= best /\ High(p) \in Nat \cup {NoPriority}
  BY <1>4, <1>5 DEF highs
<1>7. pick = IF best = NoPriority THEN Nothing(S)
             ELSE [auth |-> PickAt(S[chosen], best, FALSE, strategy, E).auth,
                   shard |-> [S EXCEPT ![chosen] =
                                PickAt(S[chosen], best, FALSE, strategy, E).shard],
                   mixed |-> IF strategy = "fill_first" THEN mixed
                             ELSE SlotAfter(chosen = first, slot, Start(chosen))]
  BY Zenon DEF PickMixed, best, highs, High
<1>8. CASE best = NoPriority
  <2>1. pick.auth = NoAuth /\ pick.shard = S
    BY <1>7, <1>8 DEF Nothing
  <2>2. \A p \in providers : Matching(S[p], "all", E) = {}
    BY <1>1, <1>2, <1>6, <1>8 DEF NoPriority
  <2> QED BY <2>1, <2>2 DEF MixedChoice
<1>9. CASE best # NoPriority
  <2>1. PICK p0 \in providers : High(p0) = best
    BY <1>5, <1>9 DEF highs
  <2>2. p0 \in able
    BY <1>1, <1>9, <2>1
  <2>3. able \in SUBSET Nat
    BY NamesAssumption
  <2>4. Min(able) \in able
    BY <2>2, <2>3, MinOfNats
  <2>5. next \in able
    <3> DEFINE late == {After1(p) : p \in able}
    <3>1. Max(Providers) \in Nat
      BY <2>1, NamesAssumption, MaxOfNats
    <3> DEFINE after == [p \in able |-> After1(p)]
    <3>2. \A p \in able : After1(p) \in Nat
      BY <2>3, <3>1
    <3> HIDE DEF first
    <3>3. late \in SUBSET Nat /\ late # {}
      BY <2>2, <3>2
    <3>4. PICK least \in late : \A y \in late : least <= y
      BY <3>3, LeastExists
    <3>5. \E p \in providers :
             Able(p) /\ \A q \in providers : Able(q) => After1(p) <= After1(q)
      BY <3>4
    <3> QED BY <3>5
  <2>6. chosen \in able
    BY <2>4, <2>5
  <2> HIDE DEF chosen
  <2>7. \A p \in providers : \A j \in Matching(S[p], "all", E) : j <= best
    <3> TAKE p \in providers
    <3> TAKE j \in Matching(S[p], "all", E)
    <3>1. j <= High(p) /\ High(p) \in Nat /\ j \in Nat
      BY <1>1, <1>2
    <3>2. High(p) <= best /\ best \in Nat
      BY <1>6, <1>9
    <3> QED BY <3>1, <3>2
  <2>8. \E no : /\ ViewAt(S[chosen], best, no, E) = "all"
                /\ pick.auth = PickAt(S[chosen], best, no, strategy, E).auth
                /\ pick.shard = [S EXCEPT ![chosen] =
                                   PickAt(S[chosen], best, no, strategy, E).shard]
    <3> DEFINE mixed1 == IF strategy = "fill_first" THEN mixed
                         ELSE SlotAfter(chosen = first, slot, Start(chosen))
               r == PickAt(S[chosen], best, FALSE, strategy, E)
    <3>1. pick = [auth |-> r.auth, shard |-> [S EXCEPT ![chosen] = r.shard], mixed |-> mixed1]
      BY <1>7, <1>9
    <3>3. ViewAt(S[chosen], best, FALSE, E) = "all"
      BY DEF ViewAt
    <3> HIDE DEF mixed1, r
    <3>2. pick.auth = r.auth /\ pick.shard = [S EXCEPT ![chosen] = r.shard]
      BY <3>1
    <3> QED BY <3>2, <3>3, Zenon DEF r
  <2> QED BY <2>6, <2>7, <2>8 DEF MixedChoice
<1> QED BY <1>8, <1>9

LEMMA MixedKeeps ==
    ASSUME Known, ShardsTidy, NEW strategy, NEW E, RequestMixed(strategy, E), setup' = setup
    PROVE  Known' /\ ShardsTidy'
<1> DEFINE S == Prepared
           pick == PickMixed(S, strategy, E)
<1>1. UNCHANGED <<meta, block, providers>> /\ shard' = pick.shard
  BY DEF RequestMixed, Take
<1>2. /\ DOMAIN S = providers
      /\ \A p \in providers : ShardFits(p, S[p], meta, block)
  BY PreparedFits DEF Prepared
<1>3. \A p \in providers : Tidy(S[p], meta)
  BY <1>2 DEF ShardFits
<1>4. providers \subseteq Providers
  BY SetupsAssumption DEF Known
<1>8. pick = PickMixed(S, strategy, E)
  OBVIOUS
<1> HIDE DEF S, pick
<1>9. MixedChoice(pick, S, strategy, E)
  BY <1>2, <1>3, <1>4, <1>8, MixedFits
<1>5. \/ pick.shard = S
      \/ \E q \in providers : \E best, no :
            /\ ViewAt(S[q], best, no, E) = "all" /\ best \in Matching(S[q], "all", E)
            /\ pick.shard = [S EXCEPT ![q] = PickAt(S[q], best, no, strategy, E).shard]
  BY <1>9, Zenon DEF MixedChoice
<1>6. ASSUME NEW q \in providers, NEW best, NEW no, ViewAt(S[q], best, no, E) = "all",
             best \in Matching(S[q], "all", E), NEW new,
             new = PickAt(S[q], best, no, strategy, E).shard, shard' = [S EXCEPT ![q] = new]
      PROVE  \A p \in DOMAIN shard' : ShardFits(p, shard'[p], meta, block)
  <2>1. ShardFits(q, S[q], meta, block)
    BY <1>2
  <2>2. best \in DOMAIN S[q].ready /\ HasMatch(S[q].ready[best]["all"], E)
    BY <1>6 DEF Matching
  <2>4. ShardFits(q, new, meta, block)
    BY <1>6, <2>1, <2>2, PickKept
  <2> QED BY <1>2, <1>6, <2>4
<1>7. \A p \in DOMAIN shard' : ShardFits(p, shard'[p], meta, block)
  <2>1. CASE pick.shard = S
    BY <1>1, <1>2, <2>1
  <2>2. ASSUME NEW q \in providers, NEW best, NEW no, ViewAt(S[q], best, no, E) = "all",
               best \in Matching(S[q], "all", E),
               pick.shard = [S EXCEPT ![q] = PickAt(S[q], best, no, strategy, E).shard]
        PROVE  \A p \in DOMAIN shard' : ShardFits(p, shard'[p], meta, block)
    <3> DEFINE new == PickAt(S[q], best, no, strategy, E).shard
    <3>1. shard' = [S EXCEPT ![q] = new]
      BY <1>1, <2>2
    <3>2. new = PickAt(S[q], best, no, strategy, E).shard
      OBVIOUS
    <3> HIDE DEF new
    <3> QED BY <1>6, <2>2, <3>1, <3>2, Zenon
  <2> QED BY <1>5, <2>1, <2>2, Zenon
<1> QED BY <1>1, <1>7, TakeKeeps

\* Time passes in the entries and in the records alike.
LEMMA FreshLater ==
    ASSUME NEW e \in Entries, NEW b \in Blocks, Fresh(e, b),
           NEW c \in Blocks, c.off = b.off, c.retry = Less(b.retry), c.recover = Less(b.recover)
    PROVE  Fresh(Sooner(e), c)
<1>1. Sooner(e).state = e.state /\ Sooner(e).retry = Less(e.retry)
  BY DEF Sooner, Entries
<1>2. \A t \in Times : After(Less(t)) => After(t)
  BY NoneAssumption DEF Times, After, Less
<1>3. e.state = "ready" => ~IsBlocked(c)
  BY <1>2 DEF Fresh, IsBlocked, Blocks
<1>4. e.retry \in Nat => Less(e.retry) \in Nat
  BY NoneAssumption DEF Less
<1> QED BY <1>1, <1>3, <1>4 DEF Fresh

LEMMA TickKeeps ==
    ASSUME Known, ShardsTidy, Tick, setup' = setup
    PROVE  Known' /\ ShardsTidy'
<1>1. \A t \in Times : Less(t) \in Times
  BY NoneAssumption DEF Times, Less
<1>2. UNCHANGED <<meta, providers>> /\ DOMAIN block' = DOMAIN block
  BY DEF Tick
<1>3. \A a \in DOMAIN block :
         /\ block'[a] \in Blocks /\ block'[a].off = block[a].off
         /\ block'[a].retry = Less(block[a].retry)
         /\ block'[a].recover = Less(block[a].recover)
  <2> TAKE a \in DOMAIN block
  <2>1. block[a] \in Blocks
    BY DEF Known
  <2>2. block'[a] = [block[a] EXCEPT !.retry = Less(@), !.recover = Less(@)]
    BY DEF Tick
  <2> QED BY <1>1, <2>1, <2>2 DEF Blocks
<1>4. Known'
  BY <1>2, <1>3 DEF Known
<1>5. ASSUME NEW p \in DOMAIN shard'
      PROVE  ShardFits(p, shard'[p], meta, block')
  <2> DEFINE sh == shard[p]
             new == [a \in DOMAIN sh.entries |-> Sooner(sh.entries[a])]
  <2>1. p \in DOMAIN shard /\ shard'[p] = [sh EXCEPT !.entries = new]
    BY <1>5 DEF Tick, Later
  <2>2. /\ Tidy(sh, meta)
        /\ DOMAIN sh.entries = {a \in DOMAIN meta : meta[a].provider = p /\ meta[a].supported}
        /\ \A a \in DOMAIN sh.entries : Fresh(sh.entries[a], block[a])
    BY <2>1 DEF ShardsTidy, ShardFits
  <2>3. /\ DOMAIN new = DOMAIN sh.entries
        /\ \A a \in DOMAIN new : new[a] \in Entries /\ new[a].state = sh.entries[a].state
    BY <1>1, <2>2 DEF Tidy, Shaped, Entries, Sooner
  <2>4. \A a \in DOMAIN new : Fresh(new[a], block'[a])
    <3> TAKE a \in DOMAIN new
    <3>1. sh.entries[a] \in Entries /\ Fresh(sh.entries[a], block[a])
      BY <2>2 DEF Tidy, Shaped
    <3>2. a \in DOMAIN block /\ block[a] \in Blocks
      BY <2>2 DEF Known
    <3> QED BY <1>3, <3>1, <3>2, FreshLater
  <2>5. new \in [DOMAIN new -> Entries]
    BY <2>3
  <2> HIDE DEF new
  <2>6. /\ shard'[p].entries = new /\ shard'[p].ready = sh.ready
        /\ shard'[p].waiting = sh.waiting /\ DOMAIN shard'[p] = ShardFields
    BY <2>1, <2>2 DEF Tidy, Shaped, ShardFields
  <2> DEFINE next == shard'[p]
  <2>7. \A T : InState(next, T) = InState(sh, T)
    BY <2>3, <2>6 DEF InState
  <2>8. \A k : /\ Tier(next, meta, k) = Tier(sh, meta, k)
               /\ TierWs(next, meta, k) = TierWs(sh, meta, k)
    BY <2>7 DEF Tier, TierWs, ReadyIn
  <2>9. Shaped(next) /\ Placed(next, meta)
    BY <2>2, <2>3, <2>5, <2>6 DEF Tidy, Shaped, Placed
  <2>10. Indexed(next, meta)
    <3>1. \A k \in DOMAIN next.ready :
             /\ DOMAIN next.ready[k] = {"all", "ws"}
             /\ Shows(next.ready[k].all, Tier(next, meta, k), meta)
             /\ Shows(next.ready[k].ws, TierWs(next, meta, k), meta)
      BY <2>2, <2>6, <2>8, Zenon DEF Tidy, Indexed
    <3> QED BY <2>2, <2>6, <2>7, <3>1 DEF Tidy, Indexed, ReadyIn
  <2> QED BY <2>2, <2>3, <2>4, <2>6, <2>9, <2>10 DEF Tidy, ShardFits
<1> QED BY <1>2, <1>4, <1>5 DEF ShardsTidy, Tick

LEMMA RebuildKeeps ==
    ASSUME Known, Rebuild, setup' = setup
    PROVE  Known' /\ ShardsTidy'
<1>1. /\ DOMAIN shard' = {} /\ UNCHANGED <<meta, block>>
      /\ providers' = {meta[a].provider : a \in DOMAIN meta}
  BY DEF Rebuild
<1>2. \A a \in DOMAIN meta : meta[a].provider \in setup.providers
  BY MetasPlaced DEF Known
<1> QED BY <1>1, <1>2 DEF Known, ShardsTidy

\* What neither touches the credentials nor their shards.
LEMMA StillKeeps ==
    ASSUME Known, ShardsTidy, UNCHANGED <<setup, meta, block, providers, shard>>
    PROVE  Known' /\ ShardsTidy'
BY DEF Known, ShardsTidy

LEMMA StepKeeps ==
    ASSUME Known, ShardsTidy, [SchedulerNext]_schedulerVars
    PROVE  Known' /\ ShardsTidy'
<1>1. CASE UNCHANGED schedulerVars
  BY <1>1, StillKeeps DEF schedulerVars, state
<1>2. CASE SchedulerNext
  <2>1. setup' = setup
    BY <1>2 DEF SchedulerNext
  <2>2. ASSUME NEW a \in Auths, NEW b \in setup.blocks, NEW m \in setup.metas[a],
               UpsertAuth(a, m, b)
        PROVE  Known' /\ ShardsTidy'
    BY <2>1, <2>2, UpsertKeeps
  <2>3. ASSUME NEW a \in Auths, RemoveAuth(a) PROVE Known' /\ ShardsTidy'
    BY <2>1, <2>3, RemoveKeeps
  <2>4. ASSUME Rebuild PROVE Known' /\ ShardsTidy'
    BY <2>1, <2>4, RebuildKeeps
  <2>5. ASSUME SetSelector PROVE Known' /\ ShardsTidy'
    <3>1. UNCHANGED <<meta, block, providers, shard>>
      BY <2>5 DEF SetSelector
    <3> QED BY <2>1, <3>1, StillKeeps
  <2>6. ASSUME NEW p, NEW preferWs, NEW s, NEW E, RequestSingle(p, preferWs, s, E)
        PROVE  Known' /\ ShardsTidy'
    BY <2>1, <2>6, SingleKeeps
  <2>7. ASSUME NEW s, NEW E, RequestMixed(s, E) PROVE Known' /\ ShardsTidy'
    BY <2>1, <2>7, MixedKeeps
  <2>8. ASSUME Tick PROVE Known' /\ ShardsTidy'
    BY <2>1, <2>8, TickKeeps
  <2> QED BY <1>2, <2>2, <2>3, <2>4, <2>5, <2>6, <2>7, <2>8, Zenon DEF SchedulerNext
<1> QED BY <1>1, <1>2

\* Tidy shards are what the property asks for: a rebuild that finds no cursor
\* to restore gives the views as they are built.
LEMMA TidyAgrees == ASSUME ShardsTidy PROVE IndexAgrees
<1> SUFFICES ASSUME NEW p \in DOMAIN shard
             PROVE  LET sh == shard[p]
                        new == RebuildIndexes([sh EXCEPT !.ready = [k \in {} |-> 0]], meta)
                    IN  /\ DOMAIN sh.entries = MembersOf(p)
                        /\ sh.waiting = new.waiting
                        /\ DOMAIN sh.ready = DOMAIN new.ready
                        /\ \A k \in DOMAIN sh.ready :
                              /\ Members(sh.ready[k].all) = Members(new.ready[k].all)
                              /\ Members(sh.ready[k].ws) = Members(new.ready[k].ws)
  BY DEF IndexAgrees
<1> DEFINE sh == shard[p]
           bare == [sh EXCEPT !.ready = [k \in {} |-> 0]]
           new == RebuildIndexes(bare, meta)
<1>1. Tidy(sh, meta) /\ DOMAIN sh.entries = MembersOf(p)
  BY DEF ShardsTidy, ShardFits, MembersOf
<1> HIDE DEF sh
<1>2. bare.entries = sh.entries /\ DOMAIN bare = ShardFields /\ DOMAIN bare.ready = {}
  BY <1>1 DEF Tidy, Shaped, ShardFields
<1>3. Shaped(bare) /\ Rolls(bare) /\ Placed(bare, meta)
  BY <1>1, <1>2 DEF Tidy, Shaped, Rolls, Placed
<1> HIDE DEF bare
<1>4. Tidy(new, meta) /\ new.entries = sh.entries
  BY <1>2, <1>3, RebuildTidy
<1> HIDE DEF new
<1>5. \A S : InState(new, S) = InState(sh, S)
  BY <1>4 DEF InState
<1>6. \A k : /\ Tier(new, meta, k) = Tier(sh, meta, k)
             /\ TierWs(new, meta, k) = TierWs(sh, meta, k)
  BY <1>5 DEF Tier, TierWs, ReadyIn
<1>7. new.waiting = sh.waiting /\ DOMAIN new.ready = DOMAIN sh.ready
  BY <1>1, <1>4, <1>5 DEF Tidy, Indexed, ReadyIn
<1>8. ASSUME NEW k \in DOMAIN sh.ready
      PROVE  /\ Members(sh.ready[k].all) = Members(new.ready[k].all)
             /\ Members(sh.ready[k].ws) = Members(new.ready[k].ws)
  BY <1>1, <1>4, <1>6, <1>7, <1>8 DEF Tidy, Indexed, Shows
<1> QED BY <1>1, <1>7, <1>8 DEF sh, new, bare

\* Every shard holds exactly the credentials of its provider that support the
\* model, and the ready views and the waiting list it keeps beside them are
\* those a rebuild from the entries would give: upsertEntryLocked may skip the
\* rebuild only when nothing a view shows has changed, and promotions, picks
\* and a reload in any order leave no view behind (scheduler.go, modelScheduler).
THEOREM IndexesStayRight == SchedulerSpec => []IndexAgrees
<1>1. SchedulerInit => Known /\ ShardsTidy
  BY DEF SchedulerInit, Known, ShardsTidy
<1>2. Known /\ ShardsTidy /\ [SchedulerNext]_schedulerVars => (Known /\ ShardsTidy)'
  BY StepKeeps
<1>3. Known /\ ShardsTidy => IndexAgrees
  BY TidyAgrees
<1> QED BY <1>1, <1>2, <1>3, PTL DEF SchedulerSpec

-----------------------------------------------------------------------------
(* The answers to requests.                                                *)

\* In a prepared shard the ready credentials are those that are not blocked, and
\* all that can be used are among them.
LEMMA ReadyFits ==
    ASSUME Known, ShardsTidy, NEW p, NEW E
    PROVE  /\ \A a \in ReadyIn(EnsureModel(p)) : a \in MembersOf(p) /\ ~IsBlocked(block[a])
           /\ Usable(E) \cap MembersOf(p) \subseteq ReadyIn(EnsureModel(p)) \cap E
<1> DEFINE sh == EnsureModel(p)
<1>1. /\ DOMAIN sh.entries = MembersOf(p)
      /\ \A a \in MembersOf(p) : Fresh(sh.entries[a], block[a])
      /\ \A a \in MembersOf(p) : sh.entries[a].state # "ready"
                                   => IsBlocked(block[a]) \/ After(block[a].recover)
  BY PreparedFits DEF ShardFits, MembersOf
<1> HIDE DEF sh
<1>2. ReadyIn(sh) = {a \in MembersOf(p) : sh.entries[a].state = "ready"}
  BY <1>1 DEF ReadyIn, InState
<1>3. \A a \in ReadyIn(sh) : a \in MembersOf(p) /\ ~IsBlocked(block[a])
  BY <1>1, <1>2 DEF Fresh
<1>4. Usable(E) \cap MembersOf(p) \subseteq ReadyIn(sh) \cap E
  BY <1>1, <1>2 DEF Usable
<1> QED BY <1>3, <1>4 DEF sh

LEMMA SingleRight ==
    ASSUME Known, ShardsTidy, NEW p, NEW preferWs \in BOOLEAN, NEW s, NEW E \in SUBSET Auths
    PROVE  RightAnswer(PickSingle(p, Prepared, preferWs, s, E).auth, E,
                       Usable(E) \cap MembersOf(p), preferWs)
<1> DEFINE sh == EnsureModel(p)
           k == HighestReady(sh, preferWs, E)
           U == Usable(E) \cap MembersOf(p)
           a == PickAt(sh, k, preferWs, s, E).auth
           answer == PickSingle(p, Prepared, preferWs, s, E).auth
<1>1. CASE p \notin providers
  <2>1. answer = NoAuth
    BY <1>1 DEF PickSingle, Nothing
  <2>2. U = {}
    BY <1>1 DEF Known, MembersOf
  <2> QED BY <2>1, <2>2 DEF RightAnswer
<1>2. CASE p \in providers
  <2>1. answer = IF k = NoPriority THEN NoAuth ELSE a
    BY <1>2 DEF PickSingle, Nothing, Prepared
  <2>2. Tidy(sh, meta)
    BY PreparedFits DEF ShardFits
  <2>3. /\ \A b \in ReadyIn(sh) : b \in MembersOf(p) /\ ~IsBlocked(block[b])
        /\ \A b \in U : b \in ReadyIn(sh) \cap E
    BY ReadyFits
  <2> HIDE DEF sh, U, answer
  <2>4. /\ \A b \in ReadyIn(sh) \cap E : meta[b].priority \in Matching(sh, "all", E)
        /\ \A b \in ReadyIn(sh) \cap E : meta[b].ws => meta[b].priority \in Matching(sh, "ws", E)
    BY <2>2, MatchingIs
  <2>5. \/ k = NoPriority /\ Matching(sh, "all", E) = {}
        \/ /\ k \in DOMAIN sh.ready
           /\ HasMatch(sh.ready[k][ViewAt(sh, k, preferWs, E)], E)
           /\ \/ /\ preferWs /\ ViewAt(sh, k, preferWs, E) = "ws"
                 /\ \A j \in Matching(sh, "ws", E) : j <= k
              \/ /\ preferWs => Matching(sh, "ws", E) = {}
                 /\ ViewAt(sh, k, preferWs, E) = "all"
                 /\ \A j \in Matching(sh, "all", E) : j <= k
    BY <2>2, HighestFits
  <2>6. CASE k = NoPriority
    <3>1. Matching(sh, "all", E) = {}
      <4>1. DOMAIN sh.ready \subseteq Nat /\ NoPriority \notin Nat
        BY <2>2, MatchingIs DEF NoPriority
      <4> QED BY <2>5, <2>6, <4>1
    <3>2. U = {}
      BY <2>3, <2>4, <3>1
    <3> QED BY <2>1, <2>6, <3>2 DEF RightAnswer, U, answer
  <2>7. CASE k # NoPriority
    <3>1. a \in Shown(sh, meta, k, ViewAt(sh, k, preferWs, E)) \cap E
      BY <2>2, <2>5, <2>7, PickAtFits
    <3>2. a \in Tier(sh, meta, k) \cap E
      BY <3>1 DEF Shown, TierWs
    <3> HIDE DEF a
    <3>3. /\ a \in ReadyIn(sh) \cap E /\ meta[a].priority = k
          /\ a \in MembersOf(p) /\ ~IsBlocked(block[a]) /\ a # NoAuth
      BY <2>3, <3>2, NoneAssumption DEF Tier
    <3>4. CASE preferWs /\ meta[a].ws
      <4>1. \A b \in U : meta[b].ws => meta[b].priority <= k
        BY <2>3, <2>4, <2>5, <2>7, <3>3, <3>4
      <4> QED BY <2>1, <2>7, <3>3, <3>4, <4>1 DEF RightAnswer, MembersOf, U, answer
    <3>5. CASE ~(preferWs /\ meta[a].ws)
      <4>1. ViewAt(sh, k, preferWs, E) = "ws" => meta[a].ws
        BY <3>1 DEF Shown, TierWs
      <4>2. /\ preferWs => Matching(sh, "ws", E) = {}
            /\ \A j \in Matching(sh, "all", E) : j <= k
        BY <2>5, <2>7, <3>5, <4>1
      <4>3. \A b \in U : meta[b].priority <= k /\ ~(preferWs /\ meta[b].ws)
        BY <2>3, <2>4, <4>2
      <4> QED BY <2>1, <2>7, <3>3, <3>5, <4>3 DEF RightAnswer, MembersOf, U, answer
    <3> QED BY <3>4, <3>5
  <2> QED BY <2>6, <2>7
<1> QED BY <1>1, <1>2

LEMMA MixedRight ==
    ASSUME Known, ShardsTidy, NEW s, NEW E \in SUBSET Auths, NEW preferWs, ~preferWs
    PROVE  RightAnswer(PickMixed(Prepared, s, E).auth, E, Usable(E), preferWs)
<1> DEFINE S == Prepared
           pick == PickMixed(S, s, E)
           U == Usable(E)
<1>1. DOMAIN S = providers /\ \A p \in providers : S[p] = EnsureModel(p)
  BY DEF Prepared
<1> HIDE DEF S, U
<1>2. \A p \in providers : Tidy(S[p], meta)
  BY <1>1, PreparedFits DEF ShardFits
<1>3. \A p \in providers :
         /\ \A b \in ReadyIn(S[p]) : b \in MembersOf(p) /\ ~IsBlocked(block[b])
         /\ \A b \in U \cap MembersOf(p) : b \in ReadyIn(S[p]) \cap E
  BY <1>1, ReadyFits DEF U
<1>4. \A b \in U : meta[b].provider \in providers /\ b \in MembersOf(meta[b].provider)
  BY DEF U, Usable, Known, MembersOf
<1>5. \A p \in providers :
         \A b \in ReadyIn(S[p]) \cap E : meta[b].priority \in Matching(S[p], "all", E)
  BY <1>2, MatchingIs
<1>6. \A b \in U : \E p \in providers : meta[b].priority \in Matching(S[p], "all", E)
  BY <1>3, <1>4, <1>5
<1>7. providers \subseteq Providers
  BY SetupsAssumption DEF Known
<1>12. pick = PickMixed(S, s, E)
  OBVIOUS
<1> HIDE DEF pick
<1>13. MixedChoice(pick, S, s, E)
  BY <1>1, <1>2, <1>7, <1>12, MixedFits
<1>8. \/ /\ \A p \in providers : Matching(S[p], "all", E) = {}
         /\ pick.auth = NoAuth
      \/ \E q \in providers : \E best, no :
            /\ ViewAt(S[q], best, no, E) = "all" /\ best \in Matching(S[q], "all", E)
            /\ \A p \in providers : \A j \in Matching(S[p], "all", E) : j <= best
            /\ pick.auth = PickAt(S[q], best, no, s, E).auth
  BY <1>13, Zenon DEF MixedChoice
<1>9. CASE (\A p \in providers : Matching(S[p], "all", E) = {}) /\ pick.auth = NoAuth
  <2>1. U = {}
    BY <1>6, <1>9
  <2> QED BY <1>9, <2>1 DEF RightAnswer, pick, S, U
<1>10. ASSUME NEW q \in providers, NEW best, NEW no, ViewAt(S[q], best, no, E) = "all",
              best \in Matching(S[q], "all", E),
              \A p \in providers : \A j \in Matching(S[p], "all", E) : j <= best,
              NEW a, a = PickAt(S[q], best, no, s, E).auth
       PROVE  RightAnswer(a, E, U, preferWs)
  <2>1. best \in DOMAIN S[q].ready /\ HasMatch(S[q].ready[best]["all"], E)
    BY <1>10 DEF Matching
  <2>2. PickAt(S[q], best, no, s, E).auth
          \in Shown(S[q], meta, best, ViewAt(S[q], best, no, E)) \cap E
    BY <1>2, <1>10, <2>1, PickAtFits
  <2>3. a \in Tier(S[q], meta, best) \cap E
    BY <1>10, <2>2 DEF Shown
  <2>4. /\ a \in ReadyIn(S[q]) \cap E /\ meta[a].priority = best /\ a # NoAuth
        /\ a \in MembersOf(q) /\ ~IsBlocked(block[a])
    BY <1>3, <2>3, NoneAssumption DEF Tier
  <2>5. \A b \in U : meta[b].priority <= best
    BY <1>6, <1>10
  <2> QED BY <2>4, <2>5 DEF RightAnswer, MembersOf
<1>11. ASSUME NEW q \in providers, NEW best, NEW no, ViewAt(S[q], best, no, E) = "all",
              best \in Matching(S[q], "all", E),
              \A p \in providers : \A j \in Matching(S[p], "all", E) : j <= best,
              pick.auth = PickAt(S[q], best, no, s, E).auth
       PROVE  RightAnswer(pick.auth, E, U, preferWs)
  <2> DEFINE a == PickAt(S[q], best, no, s, E).auth
  <2>1. a = PickAt(S[q], best, no, s, E).auth /\ pick.auth = a
    BY <1>11
  <2> HIDE DEF a
  <2>2. RightAnswer(a, E, U, preferWs)
    BY <1>10, <1>11, <2>1, Zenon
  <2> QED BY <2>1, <2>2, Zenon
<1> QED BY <1>8, <1>9, <1>11, Zenon DEF pick, S, U

LEMMA TidyPicksRight == ASSUME Known, ShardsTidy PROVE PicksAreRight
<1>1. ASSUME NEW s \in Strategies, NEW E \in SUBSET Auths,
             NEW p \in setup.providers, NEW preferWs \in BOOLEAN
      PROVE  RightAnswer(PickSingle(p, Prepared, preferWs, s, E).auth, E,
                         Usable(E) \cap MembersOf(p), preferWs)
  BY SingleRight
<1>2. ASSUME NEW s \in Strategies, NEW E \in SUBSET Auths
      PROVE  RightAnswer(PickMixed(Prepared, s, E).auth, E, Usable(E), FALSE)
  <2> DEFINE no == FALSE
  <2>1. ~no
    OBVIOUS
  <2> HIDE DEF no
  <2>2. RightAnswer(PickMixed(Prepared, s, E).auth, E, Usable(E), no)
    BY <2>1, MixedRight
  <2> QED BY <2>2, Zenon DEF no
<1> QED BY <1>1, <1>2, Zenon DEF PicksAreRight

\* Whatever the upserts, removals, reloads, picks and promotions so far, and
\* however much time has passed since entries were last looked at, the next
\* request of any kind is given a credential that is not blocked, of the
\* highest priority there is among those it may use (of those with websockets,
\* when it prefers them), and fails only when none is left (scheduler.go,
\* pickSingle and pickMixed).
THEOREM PicksStayRight == SchedulerSpec => []PicksAreRight
<1>1. SchedulerInit => Known /\ ShardsTidy
  BY DEF SchedulerInit, Known, ShardsTidy
<1>2. Known /\ ShardsTidy /\ [SchedulerNext]_schedulerVars => (Known /\ ShardsTidy)'
  BY StepKeeps
<1>3. Known /\ ShardsTidy => PicksAreRight
  BY TidyPicksRight
<1> QED BY <1>1, <1>2, <1>3, PTL DEF SchedulerSpec

-----------------------------------------------------------------------------
(* Turning a list: one place after the other, over and over.               *)

Distinct(s) == \A i, j \in 1..Len(s) : s[i] = s[j] => i = j

\* The elements of the list have had r turns, and the m places up to the c-th,
\* around the end of the list, one more.
Laps(f, s, c, r, m) ==
    \A i \in 1..Len(s) :
       f[s[i]] = IF (i <= c /\ i > c - m) \/ i > c - m + Len(s) THEN r + 1 ELSE r
Turned(f, s, cursor) == \E r \in Nat, m \in 0..Len(s) : Laps(f, s, cursor % Len(s), r, m)

\* Every element of the list counts one more for the turn it gets.
Adds(h, f, s, k) == \A i \in 1..Len(s) : h[s[i]] = IF i = k THEN f[s[i]] + 1 ELSE f[s[i]]

LEMMA LapsStep ==
    ASSUME NEW T, NEW s \in Seq(T), NEW c \in 0..(Len(s) - 1), NEW r \in Nat,
           NEW m \in 0..(Len(s) - 1), NEW f, NEW h, Laps(f, s, c, r, m), Adds(h, f, s, c + 1)
    PROVE  Laps(h, s, (c + 1) % Len(s), r, m + 1)
<1> DEFINE n == Len(s)
           d == (c + 1) % n
<1>1. n \in Nat
  OBVIOUS
<1> HIDE DEF n
<1>2. d = IF c + 1 = n THEN 0 ELSE c + 1
  BY <1>1 DEF n
<1> HIDE DEF d
<1>3. ASSUME NEW i \in 1..n
      PROVE  h[s[i]] = IF (i <= d /\ i > d - (m + 1)) \/ i > d - (m + 1) + n THEN r + 1 ELSE r
  <2>1. f[s[i]] = IF (i <= c /\ i > c - m) \/ i > c - m + n THEN r + 1 ELSE r
    BY DEF Laps, n
  <2>2. h[s[i]] = IF i = c + 1 THEN f[s[i]] + 1 ELSE f[s[i]]
    BY DEF Adds, n
  <2>3. CASE i = c + 1
    <3>1. f[s[i]] = r
      BY <1>1, <2>1, <2>3 DEF n
    <3>2. (i <= d /\ i > d - (m + 1)) \/ i > d - (m + 1) + n
      BY <1>1, <1>2, <2>3 DEF n
    <3> QED BY <2>2, <2>3, <3>1, <3>2
  <2>4. CASE i # c + 1
    <3>1. ((i <= d /\ i > d - (m + 1)) \/ i > d - (m + 1) + n)
             <=> ((i <= c /\ i > c - m) \/ i > c - m + n)
      BY <1>1, <1>2, <2>4 DEF n
    <3> QED BY <2>1, <2>2, <2>4, <3>1
  <2> QED BY <2>3, <2>4
<1> QED BY <1>3 DEF Laps, n, d

LEMMA LapsRound ==
    ASSUME NEW T, NEW s \in Seq(T), NEW c \in 0..(Len(s) - 1), NEW r \in Nat, NEW f,
           Laps(f, s, c, r, Len(s))
    PROVE  Laps(f, s, c, r + 1, 0)
<1>1. ASSUME NEW i \in 1..Len(s)
      PROVE  f[s[i]] = IF (i <= c /\ i > c - 0) \/ i > c - 0 + Len(s) THEN r + 1 + 1 ELSE r + 1
  <2>1. f[s[i]] = IF (i <= c /\ i > c - Len(s)) \/ i > c - Len(s) + Len(s) THEN r + 1 ELSE r
    BY DEF Laps
  <2>2. Len(s) \in Nat
    OBVIOUS
  <2> QED BY <2>1, <2>2
<1> QED BY <1>1 DEF Laps

\* Nothing has been given yet, or there is one element only.
LEMMA LapsStart ==
    ASSUME NEW T, NEW s \in Seq(T), NEW c \in 0..(Len(s) - 1), NEW r \in Nat, NEW f,
           \A i \in 1..Len(s) : f[s[i]] = r
    PROVE  Laps(f, s, c, r, 0)
BY DEF Laps

LEMMA LapsEven ==
    ASSUME NEW T, NEW s \in Seq(T), NEW c, NEW r \in Nat, NEW m, NEW f, Laps(f, s, c, r, m)
    PROVE  \A x \in Range(s) : f[x] \in {r, r + 1}
BY DEF Laps, Range

LEMMA TurnedStep ==
    ASSUME NEW T, NEW s \in Seq(T), NEW cursor \in Nat, s # <<>>, NEW f, NEW h,
           Turned(f, s, cursor), Adds(h, f, s, (cursor % Len(s)) + 1)
    PROVE  Turned(h, s, (cursor % Len(s)) + 1)
<1> DEFINE n == Len(s)
           c == cursor % n
<1>1. n \in Nat \ {0}
  OBVIOUS
<1>2. c \in 0..(n - 1)
  BY <1>1
<1> HIDE DEF c
<1>3. PICK r \in Nat, m \in 0..n : Laps(f, s, c, r, m)
  BY DEF Turned, c
<1>4. CASE m < n
  <2>1. Laps(h, s, (c + 1) % n, r, m + 1)
    BY <1>1, <1>2, <1>3, <1>4, LapsStep DEF c
  <2> QED BY <1>1, <1>4, <2>1 DEF Turned, c
<1>5. CASE m = n
  <2>1. Laps(f, s, c, r + 1, 0)
    BY <1>2, <1>3, <1>5, LapsRound
  <2>2. Laps(h, s, (c + 1) % n, r + 1, 0 + 1)
    <3> DEFINE q == r + 1
    <3>1. q \in Nat /\ 0 \in 0..(n - 1)
      BY <1>1
    <3>2. Laps(f, s, c, q, 0)
      BY <2>1
    <3> HIDE DEF q
    <3>3. Laps(h, s, (c + 1) % n, q, 0 + 1)
      BY <1>1, <1>2, <3>1, <3>2, LapsStep DEF c
    <3> QED BY <3>3 DEF q
  <2>3. r + 1 \in Nat /\ 0 + 1 \in 0..n
    BY <1>1
  <2> QED BY <2>2, <2>3 DEF Turned, c
<1> QED BY <1>1, <1>4, <1>5

LEMMA TurnedStart ==
    ASSUME NEW T, NEW s \in Seq(T), NEW cursor \in Nat, s # <<>>, NEW f, NEW r \in Nat,
           \A i \in 1..Len(s) : f[s[i]] = r
    PROVE  Turned(f, s, cursor)
<1> DEFINE c == cursor % Len(s)
<1>1. c \in 0..(Len(s) - 1) /\ 0 \in 0..Len(s)
  OBVIOUS
<1> HIDE DEF c
<1>2. Laps(f, s, c, r, 0)
  BY <1>1, LapsStart
<1> QED BY <1>1, <1>2 DEF Turned, c

LEMMA TurnedEven ==
    ASSUME NEW T, NEW s \in Seq(T), NEW cursor, NEW f, Turned(f, s, cursor)
    PROVE  \A x, y \in Range(s) : f[x] <= f[y] + 1
<1>1. PICK r \in Nat, m \in 0..Len(s) : Laps(f, s, cursor % Len(s), r, m)
  BY DEF Turned
<1>2. \A x \in Range(s) : f[x] \in {r, r + 1}
  BY <1>1, LapsEven
<1> QED BY <1>2

\* Only the place within the list counts, and what its elements have had.
LEMMA TurnedSame ==
    ASSUME NEW s, NEW c, NEW d, NEW f, NEW h, Turned(f, s, c), d % Len(s) = c % Len(s),
           \A i \in 1..Len(s) : h[s[i]] = f[s[i]]
    PROVE  Turned(h, s, d)
BY DEF Turned, Laps

\* When everyone may be picked, the next one is.
LEMMA PositionNext ==
    ASSUME NEW T, NEW s \in Seq(T), s # <<>>, NEW cursor \in Nat, NEW E, Range(s) \subseteq E
    PROVE  Position(s, cursor, E) = (cursor % Len(s)) + 1
<1> DEFINE n == Len(s)
           c == cursor % n
           Index(k) == (((c + k) % n) + 1)
           K == {k \in 0..(n - 1) : s[Index(k)] \in E}
<1>1. n \in Nat \ {0}
  OBVIOUS
<1>2. \A i \in 1..n : s[i] \in E
  BY DEF Range
<1> HIDE DEF n
<1>3. c \in 0..(n - 1)
  BY <1>1
<1> HIDE DEF c
<1>4. Index(0) = c + 1
  BY <1>1, <1>3
<1> HIDE DEF Index
<1>5. 0 \in K
  BY <1>1, <1>2, <1>3, <1>4
<1>6. Min(K) = 0
  <2>1. K \in SUBSET Nat
    BY <1>1
  <2> HIDE DEF K
  <2>2. Min(K) \in Nat /\ Min(K) <= 0
    BY <1>5, <2>1, MinOfNats
  <2> QED BY <2>2
<1>7. Position(s, cursor, E) = Index(Min(K))
  BY Zenon DEF Position, Index, K, c, n
<1> QED BY <1>4, <1>6, <1>7 DEF c, n

LEMMA InOrderDistinct ==
    ASSUME NEW S \in SUBSET Nat, IsFiniteSet(S)
    PROVE  Distinct(InOrder(S))
<1> DEFINE s == InOrder(S)
           n == Cardinality(S)
<1>1. s \in Seq(S) /\ Len(s) = n /\ Range(s) = S /\ n \in Nat
  BY InOrderLists, FS_CardinalityType
<1> HIDE DEF s, n
<1>2. s \in Surjection(1..n, S)
  BY <1>1 DEF Surjection, Range
<1>3. IsFiniteSet(1..n) /\ Cardinality(1..n) = n
  BY <1>1, FS_Interval
<1>4. s \in Injection(1..n, S)
  BY <1>2, <1>3, FS_Surjection DEF n
<1> QED BY <1>1, <1>4 DEF Injection, IsInjective, Distinct, s

-----------------------------------------------------------------------------
(* Views that are turned.                                                  *)

\* What the lists of a view are, beside what ViewLists says.
Listing(v, S, M) ==
    /\ v.flat \in Seq(S) /\ Range(v.flat) = S /\ Distinct(v.flat)
    /\ v.parents \in Seq(DOMAIN v.items) /\ Range(v.parents) = DOMAIN v.items
    /\ Distinct(v.parents)
    /\ v.parents # <<>> => Len(v.parents) > 1
    /\ \A g \in DOMAIN v.items :
          /\ v.items[g] \in Seq(S) /\ Distinct(v.items[g]) /\ v.items[g] # <<>>
          /\ Range(v.items[g]) = {a \in S : M[a].parent = g}

LEMMA ShowsListed ==
    ASSUME NEW S \in SUBSET Nat, IsFiniteSet(S), NEW M, \A a \in S : M[a].parent \in Parents,
           NEW v, Shows(v, S, M)
    PROVE  Listing(v, S, M)
<1> DEFINE parents == {M[a].parent : a \in S}
           groups == IF NoParent \notin parents /\ Cardinality(parents) > 1
                     THEN parents ELSE {}
           group(g) == {a \in S : M[a].parent = g}
           items == [g \in groups |-> InOrder(group(g))]
<1>1. BuildView(S, M) = [flat |-> InOrder(S), cursor |-> 0,
                         parents |-> InOrder(groups), parentCursor |-> 0, items |-> items,
                         itemCursor |-> [g \in groups |-> 0]]
  BY DEF BuildView
<1>2. IsFiniteSet(parents)
  <2> DEFINE f == [a \in S |-> M[a].parent]
  <2>1. f \in Surjection(S, parents)
    BY DEF Surjection
  <2> HIDE DEF f, parents
  <2> QED BY <2>1, FS_Surjection
<1>3. groups \in SUBSET Nat /\ IsFiniteSet(groups)
  BY <1>2, FS_EmptySet DEF Parents
<1>4. \A g : group(g) \in SUBSET S
  OBVIOUS
<1>5. \A g \in groups : group(g) # {}
  OBVIOUS
<1>6. groups # {} => Cardinality(groups) > 1
  OBVIOUS
<1>7. items = [g \in groups |-> InOrder(group(g))]
  OBVIOUS
<1> HIDE DEF group
<1>8. \A g : group(g) \in SUBSET Nat /\ IsFiniteSet(group(g))
  BY <1>4, FS_Subset
<1> HIDE DEF groups, items, parents
<1>9. v.flat = InOrder(S) /\ v.parents = InOrder(groups) /\ v.items = items
  BY <1>1 DEF Members, Shows
<1>10. v.flat \in Seq(S) /\ Range(v.flat) = S /\ Distinct(v.flat)
  BY <1>9, InOrderLists, InOrderDistinct
<1>11. /\ v.parents \in Seq(groups) /\ Range(v.parents) = groups /\ Distinct(v.parents)
       /\ Len(v.parents) = Cardinality(groups)
  BY <1>3, <1>9, InOrderLists, InOrderDistinct
<1>12. DOMAIN v.items = groups
  BY <1>7, <1>9
<1>13. v.parents # <<>> => Len(v.parents) > 1
  <2>1. v.parents # <<>> => groups # {}
    BY <1>11 DEF Range
  <2> QED BY <1>6, <1>11, <2>1
<1>14. ASSUME NEW g \in DOMAIN v.items
       PROVE  /\ v.items[g] \in Seq(S) /\ Distinct(v.items[g]) /\ v.items[g] # <<>>
              /\ Range(v.items[g]) = group(g)
  <2>1. v.items[g] = InOrder(group(g)) /\ group(g) # {}
    BY <1>5, <1>7, <1>9, <1>12
  <2> DEFINE G == group(g)
  <2>2. G \in SUBSET Nat /\ IsFiniteSet(G) /\ G \in SUBSET S /\ G # {} /\ v.items[g] = InOrder(G)
    BY <1>4, <1>8, <2>1
  <2> HIDE DEF G
  <2>3. /\ v.items[g] \in Seq(G) /\ Range(v.items[g]) = G
        /\ Distinct(v.items[g])
    BY <2>2, InOrderLists, InOrderDistinct
  <2>4. v.items[g] \in Seq(S)
    <3> DEFINE s == v.items[g]
    <3>1. s \in Seq(G) /\ \A x \in G : x \in S
      BY <2>2, <2>3
    <3> HIDE DEF s
    <3>2. s \in Seq(S)
      BY <3>1
    <3> QED BY <3>2 DEF s
  <2>5. v.items[g] # <<>>
    BY <2>2, <2>3 DEF Range
  <2> QED BY <2>3, <2>4, <2>5 DEF G
<1> QED BY <1>10, <1>11, <1>12, <1>13, <1>14 DEF Listing, group

\* How often a credential of each group has been picked.
Visits(v, f) == [g \in DOMAIN v.items |-> SumFunctionOnSet(f, Range(v.items[g]))]

EvenView(v, f) ==
    IF v.parents = <<>> THEN Turned(f, v.flat, v.cursor)
    ELSE /\ \A g \in DOMAIN v.items : Turned(f, v.items[g], v.itemCursor[g])
         /\ Turned(Visits(v, f), v.parents, v.parentCursor)

\* The views show the same and have the same next elements.
SameTurn(w, v) ==
    /\ w.flat # <<>> => w.cursor % Len(w.flat) = v.cursor % Len(w.flat)
    /\ w.parents # <<>> => w.parentCursor % Len(w.parents) = v.parentCursor % Len(w.parents)
    /\ \A g \in DOMAIN w.items \cap DOMAIN v.items :
          w.items[g] # <<>> =>
             w.itemCursor[g] % Len(w.items[g]) = v.itemCursor[g] % Len(w.items[g])

LEMMA EvenSame ==
    ASSUME NEW S, NEW M, NEW v, Listing(v, S, M), S # {}, NEW w, Members(w) = Members(v),
           SameTurn(w, v), NEW f, EvenView(v, f)
    PROVE  EvenView(w, f)
<1>1. w.flat = v.flat /\ w.parents = v.parents /\ w.items = v.items
  BY DEF Members
<1>2. v.flat # <<>>
  BY DEF Listing, Range
<1>3. CASE v.parents = <<>>
  <2>1. w.cursor % Len(v.flat) = v.cursor % Len(v.flat) /\ Turned(f, v.flat, v.cursor)
    BY <1>1, <1>2, <1>3 DEF SameTurn, EvenView
  <2>2. Turned(f, v.flat, w.cursor)
    BY <2>1, TurnedSame
  <2> QED BY <1>1, <1>3, <2>2 DEF EvenView
<1>4. CASE v.parents # <<>>
  <2>1. /\ w.parentCursor % Len(v.parents) = v.parentCursor % Len(v.parents)
        /\ Turned(Visits(v, f), v.parents, v.parentCursor)
    BY <1>1, <1>4 DEF SameTurn, EvenView
  <2>2. Visits(w, f) = Visits(v, f)
    BY <1>1 DEF Visits
  <2>3. Turned(Visits(v, f), v.parents, w.parentCursor)
    BY <2>1, TurnedSame
  <2>4. ASSUME NEW g \in DOMAIN v.items PROVE Turned(f, v.items[g], w.itemCursor[g])
    <3>1. /\ w.itemCursor[g] % Len(v.items[g]) = v.itemCursor[g] % Len(v.items[g])
          /\ Turned(f, v.items[g], v.itemCursor[g])
      BY <1>1, <1>4 DEF SameTurn, EvenView, Listing
    <3> QED BY <3>1, TurnedSame
  <2> QED BY <1>1, <1>4, <2>2, <2>3, <2>4 DEF EvenView
<1> QED BY <1>3, <1>4

\* Nothing has been given yet.
Zero(f, S) == \A a \in S : f[a] = 0

LEMMA SumOfZeros ==
    ASSUME NEW f, NEW S, IsFiniteSet(S), Zero(f, S)
    PROVE  SumFunctionOnSet(f, S) = 0
<1> DEFINE G == {t \in SUBSET S : SumFunctionOnSet(f, t) = 0}
<1>1. ASSUME NEW t \in SUBSET S, \A u \in SUBSET t : u # t => u \in G PROVE t \in G
  <2>1. CASE t = {}
    BY <2>1, SumOfNone
  <2>2. CASE t # {}
    <3>1. SumFunctionOnSet(f, t \ {Some(t)}) = 0 /\ Some(t) \in t /\ IsFiniteSet(t)
      BY <1>1, <2>2, SomeIn, FS_Subset
    <3>2. SumFunctionOnSet(f, t) = f[Some(t)] + 0
      BY <2>2, <3>1, SumAt
    <3>3. f[Some(t)] = 0
      BY <3>1 DEF Zero
    <3> QED BY <3>2, <3>3
  <2> QED BY <2>1, <2>2
<1> HIDE DEF G
<1>2. SUBSET S \subseteq G
  BY <1>1, SubsetInduction
<1> QED BY <1>2 DEF G

LEMMA EvenStart ==
    ASSUME NEW S, IsFiniteSet(S), S # {}, NEW M, NEW v, Listing(v, S, M), Rolling(v), NEW f, Zero(f, S)
    PROVE  EvenView(v, f)
<1>1. ASSUME v.parents = <<>> PROVE Turned(f, v.flat, v.cursor)
  <2>1. \A i \in 1..Len(v.flat) : f[v.flat[i]] = 0
    BY DEF Listing, Zero
  <2>2. v.flat # <<>> /\ v.flat \in Seq(S) /\ v.cursor \in Nat /\ 0 \in Nat
    BY DEF Listing, Range, Rolling
  <2> QED BY <2>1, <2>2, TurnedStart
<1>2. ASSUME NEW g \in DOMAIN v.items PROVE Turned(f, v.items[g], v.itemCursor[g])
  <2>1. \A i \in 1..Len(v.items[g]) : f[v.items[g][i]] = 0
    BY DEF Listing, Zero
  <2>2. v.items[g] # <<>> /\ v.items[g] \in Seq(S) /\ v.itemCursor[g] \in Nat /\ 0 \in Nat
    BY DEF Listing, Rolling
  <2> QED BY <2>1, <2>2, TurnedStart
<1>3. ASSUME v.parents # <<>> PROVE Turned(Visits(v, f), v.parents, v.parentCursor)
  <2>1. \A g \in DOMAIN v.items : Visits(v, f)[g] = 0
    <3> TAKE g \in DOMAIN v.items
    <3> DEFINE R == Range(v.items[g])
    <3>1. R \in SUBSET S
      BY DEF Listing
    <3> HIDE DEF R
    <3>2. IsFiniteSet(R) /\ Zero(f, R)
      BY <3>1, FS_Subset DEF Zero
    <3>3. SumFunctionOnSet(f, R) = 0
      BY <3>2, SumOfZeros
    <3> QED BY <3>3 DEF Visits, R
  <2>2. v.parents \in Seq(DOMAIN v.items) /\ v.parentCursor \in Nat /\ 0 \in Nat
    BY DEF Listing, Rolling
  <2>3. \A i \in 1..Len(v.parents) : Visits(v, f)[v.parents[i]] = 0
    BY <2>1, <2>2
  <2> QED BY <1>3, <2>2, <2>3, TurnedStart
<1> QED BY <1>1, <1>2, <1>3 DEF EvenView

\* One credential more has been picked.
OneMore(h, f, S, a) == \A x \in S : h[x] = IF x = a THEN f[x] + 1 ELSE f[x]

LEMMA AddsPlace ==
    ASSUME NEW S, NEW s \in Seq(S), Distinct(s), NEW k \in 1..Len(s), NEW f, NEW h,
           OneMore(h, f, S, s[k])
    PROVE  Adds(h, f, s, k)
<1>1. ASSUME NEW i \in 1..Len(s) PROVE h[s[i]] = IF i = k THEN f[s[i]] + 1 ELSE f[s[i]]
  <2>1. s[i] \in S /\ (s[i] = s[k] => i = k)
    BY DEF Distinct
  <2> QED BY <2>1 DEF OneMore
<1> QED BY <1>1 DEF Adds

LEMMA FlatPick ==
    ASSUME NEW S, S # {}, NEW M, NEW v, Listing(v, S, M), Rolling(v), v.parents = <<>>,
           NEW E, S \subseteq E, NEW f, EvenView(v, f),
           NEW h, OneMore(h, f, S, PickFlat(v, E).auth)
    PROVE  EvenView(PickFlat(v, E).view, h)
<1> DEFINE s == v.flat
           k == (v.cursor % Len(s)) + 1
           w == [v EXCEPT !.cursor = k]
<1>1. s \in Seq(S) /\ Range(s) = S /\ Distinct(s) /\ s # <<>> /\ v.cursor \in Nat
  BY DEF Listing, Rolling, Range
<1>2. Position(s, v.cursor, E) = k
  BY <1>1, PositionNext
<1>3. PickFlat(v, E).auth = s[k] /\ PickFlat(v, E).view = w
  BY <1>2 DEF PickFlat
<1>4. k \in 1..Len(s)
  BY <1>1
<1>5. Turned(f, s, v.cursor)
  BY DEF EvenView
<1> HIDE DEF s
<1>6. Adds(h, f, s, k)
  BY <1>1, <1>3, <1>4, AddsPlace
<1>7. Turned(h, s, k)
  BY <1>1, <1>5, <1>6, TurnedStep
<1> HIDE DEF k
<1>8. w.flat = s /\ w.parents = <<>> /\ w.cursor = k
  BY DEF Rolling, ViewFields, s
<1> HIDE DEF w
<1> QED BY <1>3, <1>7, <1>8 DEF EvenView

\* A group has been served once more when one of its credentials has.
LEMMA VisitsAdd ==
    ASSUME NEW S, IsFiniteSet(S), NEW R \in SUBSET S, NEW f, \A x \in S : f[x] \in Nat,
           NEW a, NEW h, OneMore(h, f, S, a)
    PROVE  SumFunctionOnSet(h, R)
             = IF a \in R THEN SumFunctionOnSet(f, R) + 1 ELSE SumFunctionOnSet(f, R)
<1>1. IsFiniteSet(R) /\ \A x \in R : f[x] \in Nat /\ h[x] \in Nat
  BY FS_Subset DEF OneMore
<1>2. CASE a \notin R
  <2>1. \A x \in R : h[x] = f[x]
    BY <1>2 DEF OneMore
  <2> QED BY <1>1, <1>2, <2>1, SumSame
<1>3. CASE a \in R
  <2> DEFINE rest == R \ {a}
             p == SumFunctionOnSet(f, rest)
             q == SumFunctionOnSet(h, rest)
  <2>1. SumFunctionOnSet(f, R) = f[a] + p /\ SumFunctionOnSet(h, R) = h[a] + q
    BY <1>1, <1>3, SumWithout
  <2>2. IsFiniteSet(rest)
    BY <1>1, FS_Subset
  <2>3. \A x \in rest : h[x] = f[x]
    BY DEF OneMore
  <2>4. \A x \in rest : f[x] \in Nat
    BY <1>1
  <2> HIDE DEF rest
  <2>5. p = q
    BY <2>2, <2>3, SumSame
  <2>6. p \in Nat
    BY <2>2, <2>4, SumType
  <2>7. h[a] = f[a] + 1 /\ f[a] \in Nat
    BY <1>1, <1>3 DEF OneMore
  <2> HIDE DEF p, q
  <2> QED BY <1>3, <2>1, <2>5, <2>6, <2>7
<1> QED BY <1>2, <1>3

LEMMA GroupedPick ==
    ASSUME NEW S, S # {}, IsFiniteSet(S), NEW M, NEW v, Listing(v, S, M), Rolling(v),
           v.parents # <<>>, NEW E, S \subseteq E, NEW f, \A x \in S : f[x] \in Nat,
           EvenView(v, f), NEW h, OneMore(h, f, S, PickGrouped(v, E).auth)
    PROVE  EvenView(PickGrouped(v, E).view, h)
<1> DEFINE able == {g \in DOMAIN v.items : Range(v.items[g]) \cap E # {}}
           k == Position(v.parents, v.parentCursor, able)
           g == v.parents[k]
           i == Position(v.items[g], v.itemCursor[g], E)
           turns == [v.itemCursor EXCEPT ![g] = i]
           w == [v EXCEPT !.parentCursor = k, !.itemCursor = turns]
           a == v.items[g][i]
<1>1. PickGrouped(v, E).view = w /\ PickGrouped(v, E).auth = a
  <2>1. PickGrouped(v, E) = [auth |-> v.items[g][i],
                             view |-> [v EXCEPT !.parentCursor = k, !.itemCursor[g] = i]]
    BY Zenon DEF PickGrouped
  <2> HIDE DEF k, g, i
  <2> QED BY <2>1
<1>2. /\ v.parents \in Seq(DOMAIN v.items) /\ Range(v.parents) = DOMAIN v.items
      /\ Distinct(v.parents) /\ v.parentCursor \in Nat
  BY DEF Listing, Rolling
<1>3. DOMAIN v.items \subseteq able
  <2> SUFFICES ASSUME NEW x \in DOMAIN v.items PROVE Range(v.items[x]) \cap E # {}
    OBVIOUS
  <2> DEFINE s == v.items[x]
  <2>1. s \in Seq(S) /\ s # <<>>
    BY DEF Listing
  <2> HIDE DEF s
  <2>2. s[1] \in S /\ s[1] \in Range(s)
    BY <2>1 DEF Range
  <2> QED BY <2>2 DEF s
<1> HIDE DEF able
<1>4. k = (v.parentCursor % Len(v.parents)) + 1
  BY <1>2, <1>3, PositionNext
<1>5. k \in 1..Len(v.parents) /\ k \in Nat
  BY <1>2, <1>4
<1> HIDE DEF k
<1>6. g \in DOMAIN v.items /\ g = v.parents[k]
  BY <1>2, <1>5
<1> HIDE DEF g
<1> DEFINE s == v.items[g]
<1>7. /\ s \in Seq(S) /\ Distinct(s) /\ s # <<>> /\ Range(s) \subseteq S
      /\ v.itemCursor[g] \in Nat
  BY <1>6 DEF Listing, Rolling
<1>8. i = (v.itemCursor[g] % Len(s)) + 1
  <2>1. Range(s) \subseteq E
    BY <1>7
  <2> QED BY <1>7, <2>1, PositionNext
<1>9. i \in 1..Len(s)
  <2> HIDE DEF s, i
  <2>1. Len(s) \in Nat \ {0}
    BY <1>7
  <2> QED BY <1>7, <1>8, <2>1
<1> HIDE DEF i
<1>10. a \in Range(s) /\ a \in S /\ a = s[i]
  BY <1>7, <1>9 DEF Range
<1> HIDE DEF a
<1>11. OneMore(h, f, S, a)
  BY <1>1
<1>12. /\ w.flat = v.flat /\ w.parents = v.parents /\ w.items = v.items
       /\ w.parentCursor = k /\ w.itemCursor = turns
  <2> HIDE DEF turns
  <2> QED BY DEF Rolling, ViewFields
<1> HIDE DEF w
<1>13. ASSUME NEW x \in DOMAIN v.items PROVE Turned(h, v.items[x], turns[x])
  <2>1. CASE x = g
    <3>1. turns[x] = i
      BY <1>6, <2>1 DEF Rolling
    <3>2. Adds(h, f, s, i)
      BY <1>7, <1>9, <1>10, <1>11, AddsPlace
    <3>3. Turned(f, s, v.itemCursor[g])
      BY <1>6 DEF EvenView
    <3> HIDE DEF s, turns
    <3>4. Turned(h, s, i)
      BY <1>7, <1>8, <3>2, <3>3, TurnedStep
    <3> QED BY <2>1, <3>1, <3>4 DEF s
  <2>2. CASE x # g
    <3>1. turns[x] = v.itemCursor[x]
      BY <2>2 DEF Rolling
    <3>2. /\ Range(v.items[x]) = {y \in S : M[y].parent = x}
          /\ Range(v.items[g]) = {y \in S : M[y].parent = g}
          /\ v.items[x] \in Seq(S)
      BY <1>6 DEF Listing
    <3>3. a \notin Range(v.items[x])
      BY <1>10, <2>2, <3>2
    <3>4. \A j \in 1..Len(v.items[x]) : h[v.items[x][j]] = f[v.items[x][j]]
      BY <1>11, <3>2, <3>3 DEF OneMore, Range
    <3>5. Turned(f, v.items[x], v.itemCursor[x])
      BY DEF EvenView
    <3>6. Turned(h, v.items[x], v.itemCursor[x])
      BY <3>4, <3>5, TurnedSame
    <3> QED BY <3>1, <3>6
  <2> QED BY <2>1, <2>2
<1>14. Turned(Visits(w, h), v.parents, k)
  <2> DEFINE F == Visits(v, f)
             H == Visits(w, h)
  <2>1. ASSUME NEW x \in DOMAIN v.items PROVE H[x] = IF x = g THEN F[x] + 1 ELSE F[x]
    <3> DEFINE R == Range(v.items[x])
    <3>1. H[x] = SumFunctionOnSet(h, R) /\ F[x] = SumFunctionOnSet(f, R)
      BY <1>12 DEF Visits
    <3>2. /\ R = {y \in S : M[y].parent = x}
          /\ Range(v.items[g]) = {y \in S : M[y].parent = g}
      BY <1>6 DEF Listing
    <3>3. R \in SUBSET S /\ (a \in R <=> x = g)
      BY <1>10, <3>2
    <3> HIDE DEF R, H, F
    <3>4. SumFunctionOnSet(h, R)
            = IF a \in R THEN SumFunctionOnSet(f, R) + 1 ELSE SumFunctionOnSet(f, R)
      BY <1>11, <3>3, VisitsAdd
    <3> QED BY <3>1, <3>3, <3>4
  <2> HIDE DEF H
  <2>2. OneMore(H, F, DOMAIN v.items, v.parents[k])
    BY <1>6, <2>1 DEF OneMore
  <2>3. Turned(F, v.parents, v.parentCursor)
    BY DEF EvenView
  <2> HIDE DEF F
  <2>4. Adds(H, F, v.parents, k)
    BY <1>2, <1>5, <2>2, AddsPlace
  <2>5. Turned(H, v.parents, k)
    BY <1>2, <1>4, <2>3, <2>4, TurnedStep
  <2> QED BY <2>5 DEF H
<1> QED BY <1>1, <1>12, <1>13, <1>14 DEF EvenView

\* The next pick from a view that is turned leaves it turned.
LEMMA EvenPick ==
    ASSUME NEW S, S # {}, IsFiniteSet(S), NEW M, NEW v, Listing(v, S, M), Rolling(v),
           NEW strategy, strategy # "fill_first",
           NEW E, S \subseteq E, NEW f, \A x \in S : f[x] \in Nat,
           EvenView(v, f), NEW h, OneMore(h, f, S, PickFrom(v, strategy, E).auth)
    PROVE  EvenView(PickFrom(v, strategy, E).view, h)
<1>1. CASE v.parents = <<>>
  <2>1. PickFrom(v, strategy, E) = PickFlat(v, E)
    BY <1>1 DEF PickFrom
  <2> QED BY <1>1, <2>1, FlatPick
<1>2. CASE v.parents # <<>>
  <2>1. Len(v.parents) > 1
    BY <1>2 DEF Listing
  <2>2. PickFrom(v, strategy, E) = PickGrouped(v, E)
    BY <2>1 DEF PickFrom
  <2> QED BY <1>2, <2>2, GroupedPick
<1> QED BY <1>1, <1>2

-----------------------------------------------------------------------------
(* What rebuilds an index keeps the turns.                                 *)

KeptShard(new, old) ==
    \A k \in DOMAIN new.ready \cap DOMAIN old.ready :
       /\ SameTurn(new.ready[k].all, old.ready[k].all)
       /\ SameTurn(new.ready[k].ws, old.ready[k].ws)

LEMMA KeptItself == ASSUME NEW new, NEW old, new.ready = old.ready PROVE KeptShard(new, old)
BY DEF KeptShard, SameTurn

LEMMA RestoredTurns ==
    ASSUME NEW S \in SUBSET Nat, IsFiniteSet(S), NEW M, \A a \in S : M[a].parent \in Parents,
           NEW v, Shows(v, S, M), NEW old, Rolling(old)
    PROVE  SameTurn(Restored(v, old), old)
<1> DEFINE z == [g \in DOMAIN v.items |->
                    IF g \in DOMAIN old.items
                    THEN Normal(old.itemCursor[g], Len(v.items[g])) ELSE 0]
           x == Normal(old.cursor, Len(v.flat))
           y == Normal(old.parentCursor, Len(v.parents))
           r == [v EXCEPT !.cursor = x, !.parentCursor = y, !.itemCursor = z]
<1>1. Restored(v, old) = r
  BY DEF Restored
<1>2. \A c \in Nat, n \in Nat \ {0} : Normal(c, n) % n = c % n
  BY DEF Normal
<1>3. /\ v.flat \in Seq(S) /\ v.parents \in Seq(DOMAIN v.items)
      /\ \A g \in DOMAIN v.items : v.items[g] \in Seq(S)
  BY ViewLists DEF Shows
<1>4. /\ v.flat # <<>> => x % Len(v.flat) = old.cursor % Len(v.flat)
      /\ v.parents # <<>> => y % Len(v.parents) = old.parentCursor % Len(v.parents)
  <2>1. v.flat # <<>> => Len(v.flat) \in Nat \ {0}
    BY <1>3
  <2>2. v.parents # <<>> => Len(v.parents) \in Nat \ {0}
    BY <1>3
  <2> QED BY <1>2, <2>1, <2>2 DEF Rolling
<1>5. ASSUME NEW g \in DOMAIN v.items \cap DOMAIN old.items, v.items[g] # <<>>
      PROVE  z[g] % Len(v.items[g]) = old.itemCursor[g] % Len(v.items[g])
  <2> DEFINE n == Len(v.items[g])
  <2>1. n \in Nat \ {0}
    BY <1>3, <1>5
  <2> HIDE DEF n
  <2>2. z[g] = Normal(old.itemCursor[g], n)
    BY DEF n
  <2>3. old.itemCursor[g] \in Nat
    BY DEF Rolling
  <2> QED BY <1>2, <2>1, <2>2, <2>3 DEF n
<1> HIDE DEF x, y, z
<1>6. /\ r.flat = v.flat /\ r.parents = v.parents /\ r.items = v.items
      /\ r.cursor = x /\ r.parentCursor = y /\ r.itemCursor = z
  BY DEF Shows, Rolling, ViewFields
<1> HIDE DEF r
<1> QED BY <1>1, <1>4, <1>5, <1>6 DEF SameTurn

LEMMA RebuildTurns ==
    ASSUME NEW sh, Shaped(sh), Rolls(sh), NEW M, Placed(sh, M)
    PROVE  KeptShard(RebuildIndexes(sh, M), sh)
<1> DEFINE new == RebuildIndexes(sh, M)
           free == InState(sh, {"ready"})
           Built(k) == BuildBucket({a \in free : M[a].priority = k}, M)
           Bucket(k) == IF k \in DOMAIN sh.ready
                        THEN [all |-> Restored(Built(k).all, sh.ready[k].all),
                              ws |-> Restored(Built(k).ws, sh.ready[k].ws)]
                        ELSE Built(k)
           P == {M[a].priority : a \in free}
           W == InState(sh, {"cooldown", "blocked"})
<1>1. new = [sh EXCEPT !.ready = [k \in P |-> Bucket(k)], !.waiting = W]
  BY Zenon DEF RebuildIndexes
<1>2. new.ready = [k \in P |-> Bucket(k)]
  <2> DEFINE R == [k \in P |-> Bucket(k)]
  <2> HIDE DEF R, P, W, new
  <2> QED BY <1>1 DEF Shaped, ShardFields, R
<1>3. ASSUME NEW k \in DOMAIN new.ready \cap DOMAIN sh.ready
      PROVE  /\ SameTurn(new.ready[k].all, sh.ready[k].all)
             /\ SameTurn(new.ready[k].ws, sh.ready[k].ws)
  <2> DEFINE T == {a \in free : M[a].priority = k}
             Tw == {a \in T : M[a].ws}
  <2>1. Built(k) = [all |-> BuildView(T, M), ws |-> BuildView(Tw, M)]
    BY DEF BuildBucket
  <2>2. new.ready[k] = Bucket(k)
    BY <1>2
  <2>3. T \in SUBSET Auths /\ Tw \in SUBSET T /\ \A a \in T : M[a].parent \in Parents
    BY DEF InState, Shaped, Placed
  <2>4. Rolling(sh.ready[k].all) /\ Rolling(sh.ready[k].ws)
    BY DEF Rolls
  <2> HIDE DEF T, Tw, Built, new
  <2>5. T \in SUBSET Nat /\ Tw \in SUBSET Nat /\ \A a \in Tw : M[a].parent \in Parents
    BY <2>3, NamesAssumption
  <2>6. IsFiniteSet(T)
    BY <2>3, NamesAssumption, FS_Subset
  <2>7. IsFiniteSet(Tw)
    BY <2>3, <2>6, FS_Subset
  <2>8. Shows(BuildView(T, M), T, M) /\ Shows(BuildView(Tw, M), Tw, M)
    BY BuiltRolls DEF Shows
  <2>9. /\ Bucket(k).all = Restored(BuildView(T, M), sh.ready[k].all)
        /\ Bucket(k).ws = Restored(BuildView(Tw, M), sh.ready[k].ws)
    BY <2>1
  <2> HIDE DEF Bucket
  <2>10. SameTurn(Bucket(k).all, sh.ready[k].all)
    BY <2>3, <2>4, <2>5, <2>6, <2>8, <2>9, RestoredTurns
  <2>11. SameTurn(Bucket(k).ws, sh.ready[k].ws)
    BY <2>4, <2>5, <2>7, <2>8, <2>9, RestoredTurns
  <2> QED BY <2>2, <2>10, <2>11
<1> QED BY <1>3 DEF KeptShard

LEMMA RebuiltTurns ==
    ASSUME NEW sh, NEW M, Tidy(sh, M), NEW put, NEW N, put.ready = sh.ready, Shaped(put),
           Placed(put, N)
    PROVE  KeptShard(RebuildIndexes(put, N), sh)
<1>1. Rolls(put)
  BY TidyRolls DEF Rolls
<1>2. KeptShard(RebuildIndexes(put, N), put)
  BY <1>1, RebuildTurns
<1> QED BY <1>2 DEF KeptShard

LEMMA UpsertTurns ==
    ASSUME NEW sh, Tidy(sh, meta), NEW a \in Auths, NEW M, NEW b \in Blocks,
           M[a].priority \in Nat, M[a].parent \in Parents,
           \A x \in DOMAIN sh.entries \ {a} : M[x] = meta[x]
    PROVE  KeptShard(UpsertEntry(sh, a, M, b), sh)
<1> DEFINE e == Evaluated(b)
           new == With(sh.entries, a, e)
           put == [sh EXCEPT !.entries = new]
           D == DOMAIN sh.entries
<1>1. /\ sh.entries \in [D -> Entries] /\ e \in Entries
      /\ DOMAIN sh = ShardFields /\ D \subseteq Auths
  BY EvaluatedIsEntry DEF Tidy, Shaped
<1>2. new = [x \in D \cup {a} |-> IF x = a THEN e ELSE sh.entries[x]]
  BY DEF With
<1>3. new \in [D \cup {a} -> Entries] /\ DOMAIN new = D \cup {a}
  <2> HIDE DEF e, new
  <2> QED BY <1>1, <1>2
<1>4. UpsertEntry(sh, a, M, b)
        = IF a \in D /\ sh.entries[a] = e /\ SamePlace(meta[a], M[a])
          THEN put ELSE RebuildIndexes(put, M)
  BY DEF UpsertEntry
<1>5. \A x \in D : meta[x].priority \in Nat /\ meta[x].parent \in Parents
  BY DEF Tidy, Placed
<1> HIDE DEF new, e, D
<1>6. put.entries = new /\ put.ready = sh.ready /\ DOMAIN put = ShardFields
  BY <1>1 DEF ShardFields
<1>7. Shaped(put)
  BY <1>1, <1>3, <1>6 DEF Shaped
<1>8. Placed(put, M)
  BY <1>3, <1>5, <1>6 DEF Placed, D
<1> HIDE DEF put
<1>9. KeptShard(RebuildIndexes(put, M), sh) /\ KeptShard(put, sh)
  BY <1>6, <1>7, <1>8, RebuiltTurns, KeptItself
<1> QED BY <1>4, <1>9

LEMMA RemoveTurns ==
    ASSUME NEW sh, NEW M, NEW X, Tidy(sh, M), NEW a,
           \A x \in DOMAIN sh.entries \ {a} : X[x] = M[x]
    PROVE  KeptShard(RemoveEntry(sh, a, X), sh)
<1> DEFINE new == Without(sh.entries, a)
           put == [sh EXCEPT !.entries = new]
           D == DOMAIN sh.entries
<1>1. sh.entries \in [D -> Entries] /\ DOMAIN sh = ShardFields /\ D \subseteq Auths
  BY DEF Tidy, Shaped
<1>2. new = [x \in D \ {a} |-> sh.entries[x]]
  BY DEF Without, Restrict
<1>3. new \in [D \ {a} -> Entries] /\ DOMAIN new = D \ {a}
  <2> HIDE DEF new
  <2> QED BY <1>1, <1>2
<1>4. RemoveEntry(sh, a, X) = IF a \in D THEN RebuildIndexes(put, X) ELSE sh
  BY DEF RemoveEntry
<1>5. \A x \in D : M[x].priority \in Nat /\ M[x].parent \in Parents
  BY DEF Tidy, Placed
<1> HIDE DEF new, D
<1>6. put.entries = new /\ put.ready = sh.ready /\ DOMAIN put = ShardFields
  BY <1>1 DEF ShardFields
<1>7. Shaped(put)
  BY <1>1, <1>3, <1>6 DEF Shaped
<1>8. Placed(put, X)
  BY <1>3, <1>5, <1>6 DEF Placed, D
<1> HIDE DEF put
<1>9. KeptShard(RebuildIndexes(put, X), sh) /\ KeptShard(sh, sh)
  BY <1>6, <1>7, <1>8, RebuiltTurns, KeptItself
<1> QED BY <1>4, <1>9

LEMMA PromoteTurns ==
    ASSUME NEW sh, Tidy(sh, meta), \A a \in DOMAIN sh.entries : block[a] \in Blocks
    PROVE  KeptShard(PromoteExpired(sh), sh)
<1> DEFINE D == DOMAIN sh.entries
           new == [a \in D |-> IF a \in Due(sh) THEN Evaluated(block[a]) ELSE sh.entries[a]]
           put == [sh EXCEPT !.entries = new]
<1>1. sh.entries \in [D -> Entries] /\ DOMAIN sh = ShardFields /\ D \subseteq Auths
  BY DEF Tidy, Shaped
<1>2. new \in [D -> Entries] /\ DOMAIN new = D
  <2>1. \A a \in D : Evaluated(block[a]) \in Entries
    BY EvaluatedIsEntry
  <2> QED BY <1>1, <2>1
<1>3. PromoteExpired(sh) = IF Due(sh) = {} THEN sh ELSE RebuildIndexes(put, meta)
  BY DEF PromoteExpired
<1> HIDE DEF new
<1>4. put.entries = new /\ DOMAIN put = ShardFields /\ put.ready = sh.ready
  BY <1>1 DEF ShardFields
<1>5. Shaped(put)
  BY <1>1, <1>2, <1>4 DEF Shaped
<1>6. Placed(put, meta)
  BY <1>2, <1>4 DEF Placed, Tidy
<1> HIDE DEF put
<1>7. KeptShard(RebuildIndexes(put, meta), sh) /\ KeptShard(sh, sh)
  BY <1>4, <1>5, <1>6, RebuiltTurns, KeptItself
<1> QED BY <1>3, <1>7

-----------------------------------------------------------------------------
(* The view a request without restriction is served from.                  *)

TopIsEven(sh, ws, f) ==
    LET k == HighestReady(sh, ws, Auths)
    IN  k # NoPriority => EvenView(sh.ready[k][ViewAt(sh, k, ws, Auths)], f)

\* The view shows credentials that are ready and of that priority.
TopShows(sh, M, k, view, S) ==
    /\ k \in DOMAIN sh.ready /\ view \in {"all", "ws"}
    /\ S # {} /\ S \subseteq Auths /\ IsFiniteSet(S)
    /\ Shows(sh.ready[k][view], S, M) /\ Listing(sh.ready[k][view], S, M)
    /\ \A x \in S : x \in ReadyIn(sh) /\ x \in DOMAIN sh.entries /\ M[x].priority = k
    /\ view = "ws" => \A x \in S : M[x].ws

LEMMA BucketShows ==
    ASSUME NEW sh, NEW M, Tidy(sh, M), NEW k \in DOMAIN sh.ready, NEW view \in {"all", "ws"},
           HasMatch(sh.ready[k][view], Auths)
    PROVE  TopShows(sh, M, k, view, Shown(sh, M, k, view))
<1> DEFINE S == Shown(sh, M, k, view)
<1>1. S \in SUBSET Nat /\ IsFiniteSet(S) /\ \A a \in S : M[a].parent \in Parents
  BY TierIsFinite DEF Shown
<1>2. Shows(sh.ready[k][view], S, M) /\ S \cap Auths # {}
  BY MatchIs
<1>3. S \subseteq Tier(sh, M, k) /\ (view = "ws" => \A x \in S : M[x].ws)
  BY DEF Shown, TierWs
<1> HIDE DEF S
<1>4. Listing(sh.ready[k][view], S, M)
  BY <1>1, <1>2, ShowsListed
<1>5. \A x \in S : x \in ReadyIn(sh) /\ M[x].priority = k
  BY <1>3 DEF Tier
<1>6. \A x \in S : x \in DOMAIN sh.entries /\ x \in Auths
  BY <1>5 DEF ReadyIn, InState, Tidy, Shaped
<1> QED BY <1>1, <1>2, <1>3, <1>4, <1>5, <1>6 DEF TopShows, S

LEMMA TopIs ==
    ASSUME NEW sh, NEW M, Tidy(sh, M), NEW ws, NEW k, k = HighestReady(sh, ws, Auths),
           k # NoPriority, NEW view, view = ViewAt(sh, k, ws, Auths)
    PROVE  /\ TopShows(sh, M, k, view, Shown(sh, M, k, view))
           /\ view = "ws" => ws
<1>1. k \in DOMAIN sh.ready /\ HasMatch(sh.ready[k][view], Auths)
  BY HighestFits
<1>2. view \in {"all", "ws"} /\ (view = "ws" => ws)
  BY DEF ViewAt
<1> QED BY <1>1, <1>2, BucketShows

LEMMA OneCredential ==
    ASSUME NEW a, NEW M, NEW v, Listing(v, {a}, M), Rolling(v), NEW f, f[a] \in Nat
    PROVE  EvenView(v, f)
<1>1. v.parents = <<>>
  <2> SUFFICES ASSUME v.parents # <<>> PROVE FALSE
    OBVIOUS
  <2> DEFINE s == v.parents
  <2>1. s \in Seq(DOMAIN v.items) /\ Len(s) > 1 /\ Distinct(s)
    BY DEF Listing
  <2> HIDE DEF s
  <2>2. s[1] \in DOMAIN v.items /\ s[2] \in DOMAIN v.items
    BY <2>1
  <2>3. s[1] # s[2]
    BY <2>1 DEF Distinct
  <2>4. \A g \in DOMAIN v.items : M[a].parent = g
    <3> TAKE g \in DOMAIN v.items
    <3> DEFINE t == v.items[g]
    <3>1. t \in Seq({a}) /\ t # <<>> /\ Range(t) = {x \in {a} : M[x].parent = g}
      BY DEF Listing
    <3> HIDE DEF t
    <3>2. t[1] \in Range(t)
      BY <3>1 DEF Range
    <3> QED BY <3>1, <3>2
  <2> QED BY <2>2, <2>3, <2>4
<1>2. v.flat \in Seq({a}) /\ v.flat # <<>> /\ v.cursor \in Nat
  BY DEF Listing, Range, Rolling
<1>3. \A i \in 1..Len(v.flat) : f[v.flat[i]] = f[a]
  BY <1>2
<1>4. Turned(f, v.flat, v.cursor)
  BY <1>2, <1>3, TurnedStart
<1> QED BY <1>1, <1>4 DEF EvenView

\* Only one credential may have moved, and the view shows what it showed: the
\* others are still where they were.
LEMMA SameTop ==
    ASSUME NEW sh, NEW M, Tidy(sh, M), NEW new, NEW N, Tidy(new, N), NEW a,
           \A x \in DOMAIN sh.entries \cap DOMAIN new.entries :
              x # a => N[x].priority = M[x].priority /\ N[x].ws = M[x].ws,
           KeptShard(new, sh), NEW ws, TopView(new, ws) = TopView(sh, ws),
           NEW f, \A x \in Auths : f[x] \in Nat, TopIsEven(sh, ws, f)
    PROVE  TopIsEven(new, ws, f)
<1> DEFINE k == HighestReady(sh, ws, Auths)
           j == HighestReady(new, ws, Auths)
           view == ViewAt(sh, k, ws, Auths)
           side == ViewAt(new, j, ws, Auths)
           v == sh.ready[k][view]
           w == new.ready[j][side]
           S == Shown(sh, M, k, view)
           T == Shown(new, N, j, side)
<1>1. SUFFICES ASSUME j # NoPriority PROVE EvenView(w, f)
  BY DEF TopIsEven
<1>2. k # NoPriority /\ Members(w) = Members(v)
  BY <1>1 DEF TopView, Members
<1>3. TopShows(sh, M, k, view, S) /\ (view = "ws" => ws)
  BY <1>2, TopIs
<1>4. TopShows(new, N, j, side, T) /\ (side = "ws" => ws)
  BY <1>1, TopIs
<1>5. EvenView(v, f)
  BY <1>2 DEF TopIsEven
<1>6. view = IF ws /\ HasMatch(sh.ready[k].ws, Auths) THEN "ws" ELSE "all"
  BY DEF ViewAt
<1>7. side = IF ws /\ HasMatch(new.ready[j].ws, Auths) THEN "ws" ELSE "all"
  BY DEF ViewAt
<1> HIDE DEF k, j, view, side, S, T
<1>8. S = T
  BY <1>2, <1>3, <1>4 DEF TopShows, Listing, Members
<1>9. CASE S = {a}
  <2>1. Listing(w, {a}, N) /\ Rolling(w) /\ a \in Auths
    BY <1>4, <1>8, <1>9 DEF TopShows, Shows
  <2> HIDE DEF w
  <2> QED BY <2>1, OneCredential
<1>10. CASE S # {a}
  <2>1. PICK b \in S : b # a
    BY <1>3, <1>10 DEF TopShows
  <2>2. /\ b \in ReadyIn(sh) /\ b \in DOMAIN sh.entries /\ M[b].priority = k
        /\ b \in ReadyIn(new) /\ b \in DOMAIN new.entries /\ N[b].priority = j
        /\ b \in Auths /\ (view = "ws" => M[b].ws) /\ (side = "ws" => N[b].ws)
    BY <1>3, <1>4, <1>8, <2>1 DEF TopShows
  <2>3. k = j /\ N[b].ws = M[b].ws
    BY <2>1, <2>2
  <2>4. k \in DOMAIN sh.ready /\ k \in DOMAIN new.ready
    BY <1>3, <1>4, <2>3 DEF TopShows
  <2>5. M[b].ws => HasMatch(sh.ready[k].ws, Auths)
    <3>1. M[b].ws => b \in TierWs(sh, M, k)
      BY <2>2, Zenon DEF Tier, TierWs
    <3>2. HasMatch(sh.ready[k]["ws"], Auths) <=> TierWs(sh, M, k) \cap Auths # {}
      BY <2>4, MatchIs DEF Shown
    <3> QED BY <2>2, <3>1, <3>2
  <2>6. N[b].ws => HasMatch(new.ready[k].ws, Auths)
    <3>1. N[b].ws => b \in TierWs(new, N, k)
      BY <2>2, <2>3, Zenon DEF Tier, TierWs
    <3>2. HasMatch(new.ready[k]["ws"], Auths) <=> TierWs(new, N, k) \cap Auths # {}
      BY <2>4, MatchIs DEF Shown
    <3> QED BY <2>2, <3>1, <3>2
  <2>7. view = side
    <3>1. view = "ws" => ws /\ HasMatch(new.ready[j].ws, Auths)
      BY <1>3, <2>2, <2>3, <2>6, Zenon
    <3>2. side = "ws" => ws /\ HasMatch(sh.ready[k].ws, Auths)
      BY <1>4, <2>2, <2>3, <2>5, Zenon
    <3>3. (view = "ws" => side = "ws") /\ (side = "ws" => view = "ws")
      BY <1>6, <1>7, <3>1, <3>2
    <3> QED BY <1>6, <1>7, <3>3
  <2>8. SameTurn(w, v)
    BY <1>3, <2>3, <2>4, <2>7 DEF KeptShard, TopShows
  <2>9. Listing(v, S, M) /\ S # {}
    BY <1>3 DEF TopShows
  <2> HIDE DEF v, w
  <2> QED BY <1>2, <1>5, <2>8, <2>9, EvenSame
<1> QED BY <1>9, <1>10

\* The views of two shards with the same ready credentials show the same.
LEMMA SameReady ==
    ASSUME NEW sh, NEW M, Tidy(sh, M), NEW new, Tidy(new, M), new.entries = sh.entries
    PROVE  /\ DOMAIN new.ready = DOMAIN sh.ready
           /\ \A ws, E : HighestReady(new, ws, E) = HighestReady(sh, ws, E)
           /\ \A k \in DOMAIN sh.ready : \A ws, E : ViewAt(new, k, ws, E) = ViewAt(sh, k, ws, E)
           /\ \A k \in DOMAIN sh.ready :
                 /\ Members(new.ready[k].all) = Members(sh.ready[k].all)
                 /\ Members(new.ready[k].ws) = Members(sh.ready[k].ws)
<1>1. ReadyIn(new) = ReadyIn(sh)
  BY DEF ReadyIn, InState
<1>2. DOMAIN new.ready = DOMAIN sh.ready
  BY <1>1 DEF Tidy, Indexed
<1>3. \A k : Tier(new, M, k) = Tier(sh, M, k) /\ TierWs(new, M, k) = TierWs(sh, M, k)
  BY <1>1 DEF Tier, TierWs
<1>4. \A k \in DOMAIN sh.ready :
         /\ Members(new.ready[k].all) = Members(sh.ready[k].all)
         /\ Members(new.ready[k].ws) = Members(sh.ready[k].ws)
  BY <1>2, <1>3 DEF Tidy, Indexed, Shows
<1>5. ASSUME NEW E
      PROVE  /\ Matching(new, "all", E) = Matching(sh, "all", E)
             /\ Matching(new, "ws", E) = Matching(sh, "ws", E)
  <2>1. \A k \in DOMAIN sh.ready :
           /\ HasMatch(new.ready[k]["all"], E) <=> HasMatch(sh.ready[k]["all"], E)
           /\ HasMatch(new.ready[k]["ws"], E) <=> HasMatch(sh.ready[k]["ws"], E)
    BY <1>4 DEF Members, HasMatch
  <2> QED BY <1>2, <2>1 DEF Matching
<1>6. \A ws, E : HighestReady(new, ws, E) = HighestReady(sh, ws, E)
  BY <1>5 DEF HighestReady
<1>7. \A k \in DOMAIN sh.ready : \A ws, E : ViewAt(new, k, ws, E) = ViewAt(sh, k, ws, E)
  <2>1. \A k \in DOMAIN sh.ready : new.ready[k].ws.flat = sh.ready[k].ws.flat
    BY <1>4 DEF Members
  <2> QED BY <2>1 DEF ViewAt, HasMatch
<1> QED BY <1>2, <1>6, <1>4, <1>7

\* What a pick does to the shard it picks from.
PicksFrom(new, a, sh, k, view, strategy, E) ==
    LET pick == PickFrom(sh.ready[k][view], strategy, E)
    IN  /\ a = pick.auth /\ new.entries = sh.entries
        /\ new.ready[k][view] = pick.view
        /\ \A j \in DOMAIN sh.ready : j # k => new.ready[j] = sh.ready[j]

LEMMA PickAtIs ==
    ASSUME NEW sh, NEW M, Tidy(sh, M), NEW k \in DOMAIN sh.ready, NEW ws, NEW strategy, NEW E,
           NEW view, view = ViewAt(sh, k, ws, E)
    PROVE  PicksFrom(PickAt(sh, k, ws, strategy, E).shard, PickAt(sh, k, ws, strategy, E).auth,
                     sh, k, view, strategy, E)
<1> DEFINE pick == PickFrom(sh.ready[k][view], strategy, E)
           u == pick.view
           new == [sh EXCEPT !.ready[k][view] = u]
<1>1. /\ PickAt(sh, k, ws, strategy, E).shard = new
      /\ PickAt(sh, k, ws, strategy, E).auth = pick.auth
  BY DEF PickAt
<1>2. view \in {"all", "ws"}
  BY DEF ViewAt
<1> HIDE DEF u
<1>3. /\ new.entries = sh.entries
      /\ new.ready = [sh.ready EXCEPT ![k][view] = u]
  BY DEF Tidy, Shaped, ShardFields
<1>4. DOMAIN sh.ready[k] = {"all", "ws"}
  BY DEF Tidy, Indexed
<1> HIDE DEF new
<1>5. new.ready[k][view] = u /\ \A j \in DOMAIN sh.ready : j # k => new.ready[j] = sh.ready[j]
  BY <1>2, <1>3, <1>4
<1> QED BY <1>1, <1>3, <1>5 DEF PicksFrom, u

\* A pick without restriction leaves the view it picks from turned, whether the
\* rotation goes on or starts with it.
LEMMA TopPick ==
    ASSUME NEW sh, NEW M, Tidy(sh, M), NEW ws, NEW strategy, strategy # "fill_first",
           NEW k, k = HighestReady(sh, ws, Auths), k # NoPriority,
           NEW new, new = PickAt(sh, k, ws, strategy, Auths).shard,
           NEW a, a = PickAt(sh, k, ws, strategy, Auths).auth,
           NEW f, \A x \in Auths : f[x] \in Nat, Zero(f, Auths) \/ TopIsEven(sh, ws, f),
           NEW h, OneMore(h, f, Auths, a)
    PROVE  TopIsEven(new, ws, h) /\ TopView(new, ws) = TopView(sh, ws)
<1> DEFINE view == ViewAt(sh, k, ws, Auths)
           v == sh.ready[k][view]
           S == Shown(sh, M, k, view)
           w == new.ready[k][view]
<1>1. TopShows(sh, M, k, view, S)
  BY TopIs
<1>2. HasMatch(v, Auths)
  BY HighestFits
<1>3. Tidy(new, M) /\ new.entries = sh.entries
  <2>1. k \in DOMAIN sh.ready
    BY <1>1 DEF TopShows
  <2> QED BY <1>2, <2>1, PickAtFits
<1>4. PicksFrom(new, a, sh, k, view, strategy, Auths)
  BY <1>1, PickAtIs DEF TopShows
<1>5. /\ DOMAIN new.ready = DOMAIN sh.ready
      /\ HighestReady(new, ws, Auths) = k
      /\ ViewAt(new, k, ws, Auths) = view
      /\ Members(new.ready[k].all) = Members(sh.ready[k].all)
      /\ Members(new.ready[k].ws) = Members(sh.ready[k].ws)
  BY <1>1, <1>3, SameReady DEF TopShows
<1>6. EvenView(v, f)
  <2>1. CASE Zero(f, Auths)
    <3>1. Zero(f, S) /\ S # {} /\ IsFiniteSet(S) /\ Listing(v, S, M) /\ Rolling(v)
      BY <1>1, <2>1 DEF TopShows, Zero, Shows
    <3> HIDE DEF S, v
    <3> QED BY <3>1, EvenStart
  <2>2. CASE TopIsEven(sh, ws, f)
    BY <2>2 DEF TopIsEven
  <2> QED BY <2>1, <2>2
<1>7. EvenView(w, h)
  <2>1. /\ S # {} /\ IsFiniteSet(S) /\ S \subseteq Auths /\ Listing(v, S, M) /\ Rolling(v)
        /\ OneMore(h, f, S, a) /\ \A x \in S : f[x] \in Nat
    BY <1>1 DEF TopShows, Shows, OneMore
  <2>2. w = PickFrom(v, strategy, Auths).view /\ a = PickFrom(v, strategy, Auths).auth
    BY <1>4 DEF PicksFrom
  <2> HIDE DEF S, v, w
  <2> QED BY <1>6, <2>1, <2>2, EvenPick
<1>8. TopIsEven(new, ws, h)
  BY <1>5, <1>7 DEF TopIsEven
<1>9. Members(w) = Members(v)
  BY <1>1, <1>5 DEF TopShows
<1> QED BY <1>5, <1>8, <1>9 DEF TopView

-----------------------------------------------------------------------------
(* The rotation over several providers: segments and slots.                *)

\* Where the segment of a provider starts, and where the last one ends.
StartOf(w, p) == SumFunctionOnSet(w, {q \in Providers : q < p})
Total(w) == SumFunctionOnSet(w, Providers)

\* How much of the segment of length n from a on lies before x, and how many of
\* the m slots before slot c, around the end of the rotation, lie in it.
Cut(a, n, x) == IF x <= a THEN 0 ELSE IF x >= a + n THEN n ELSE x - a
Passed(a, n, c, m, total) ==
    IF m <= c THEN Cut(a, n, c) - Cut(a, n, c - m)
    ELSE Cut(a, n, c) + n - Cut(a, n, c - m + total)

LEMMA PassedStep ==
    ASSUME NEW a \in Nat, NEW n \in Nat, NEW total \in Nat, a + n <= total,
           NEW c \in 0..(total - 1), NEW m \in 0..(total - 1)
    PROVE  /\ Passed(a, n, (c + 1) % total, m + 1, total)
                = IF a <= c /\ c < a + n THEN Passed(a, n, c, m, total) + 1
                  ELSE Passed(a, n, c, m, total)
           /\ Passed(a, n, c, m, total) \in 0..n
           /\ a <= c /\ c < a + n => Passed(a, n, c, m, total) < n
<1> DEFINE d == (c + 1) % total
<1>1. d = IF c + 1 = total THEN 0 ELSE c + 1
  OBVIOUS
<1> HIDE DEF d
<1>2. Passed(a, n, d, m + 1, total)
        = IF a <= c /\ c < a + n THEN Passed(a, n, c, m, total) + 1
          ELSE Passed(a, n, c, m, total)
  BY <1>1 DEF Passed, Cut
<1>3. Passed(a, n, c, m, total) \in 0..n
  BY DEF Passed, Cut
<1>4. a <= c /\ c < a + n => Passed(a, n, c, m, total) < n
  BY DEF Passed, Cut
<1> QED BY <1>2, <1>3, <1>4 DEF d

LEMMA PassedRound ==
    ASSUME NEW a \in Nat, NEW n \in Nat, NEW total \in Nat, a + n <= total,
           NEW c \in 0..(total - 1)
    PROVE  Passed(a, n, c, total, total) = n /\ Passed(a, n, c, 0, total) = 0
BY DEF Passed, Cut

LEMMA Segments ==
    ASSUME NEW w \in [Providers -> Nat]
    PROVE  /\ Total(w) \in Nat
           /\ \A p \in Providers : StartOf(w, p) \in Nat /\ StartOf(w, p) + w[p] <= Total(w)
           /\ \A p, q \in Providers : p < q => StartOf(w, p) + w[p] <= StartOf(w, q)
<1> DEFINE below(p) == {q \in Providers : q < p}
           upto(p) == {q \in Providers : q <= p}
<1>1. IsFiniteSet(Providers) /\ Providers \subseteq Nat
  BY NamesAssumption
<1>2. \A p : below(p) \in SUBSET Providers /\ upto(p) \in SUBSET Providers
  OBVIOUS
<1>3. ASSUME NEW p \in Providers PROVE p \in upto(p) /\ upto(p) \ {p} = below(p)
  <2>1. p \in Nat /\ \A x \in Providers : x \in Nat
    BY <1>1
  <2>2. p <= p /\ \A x \in Providers : x < p <=> (x <= p /\ x # p)
    BY <2>1
  <2>3. upto(p) \ {p} = below(p)
    BY <2>2
  <2> QED BY <2>2, <2>3
<1>4. \A p, q \in Providers : p < q => upto(p) \in SUBSET below(q)
  <2> SUFFICES ASSUME NEW p \in Providers, NEW q \in Providers, p < q, NEW x \in upto(p)
               PROVE  x < q
    OBVIOUS
  <2>1. x \in Nat /\ p \in Nat /\ q \in Nat /\ x <= p
    BY <1>1
  <2> QED BY <2>1
<1>5. \A p : StartOf(w, p) = SumFunctionOnSet(w, below(p))
  BY DEF StartOf
<1> HIDE DEF below, upto
<1>6. \A p : /\ IsFiniteSet(below(p)) /\ IsFiniteSet(upto(p))
             /\ \A x \in below(p) : w[x] \in Nat
             /\ \A x \in upto(p) : w[x] \in Nat
  <2> TAKE p
  <2>1. below(p) \in SUBSET Providers /\ upto(p) \in SUBSET Providers
    BY <1>2
  <2>2. IsFiniteSet(below(p)) /\ IsFiniteSet(upto(p))
    BY <1>1, <2>1, FS_Subset
  <2> QED BY <2>1, <2>2
<1>7. Total(w) \in Nat
  BY <1>1, SumType DEF Total
<1>8. ASSUME NEW p \in Providers
      PROVE  /\ StartOf(w, p) \in Nat
             /\ SumFunctionOnSet(w, upto(p)) = StartOf(w, p) + w[p]
             /\ StartOf(w, p) + w[p] <= Total(w)
  <2>1. StartOf(w, p) \in Nat
    BY <1>5, <1>6, SumType
  <2>2. SumFunctionOnSet(w, upto(p)) = w[p] + SumFunctionOnSet(w, upto(p) \ {p})
    BY <1>3, <1>6, SumWithout
  <2>3. SumFunctionOnSet(w, upto(p)) = w[p] + StartOf(w, p)
    BY <1>3, <1>5, <2>2
  <2>4. SumFunctionOnSet(w, upto(p)) <= Total(w)
    BY <1>1, <1>2, SumOfSubset DEF Total
  <2> QED BY <2>1, <2>3, <2>4
<1>9. ASSUME NEW p \in Providers, NEW q \in Providers, p < q
      PROVE  StartOf(w, p) + w[p] <= StartOf(w, q)
  <2>1. upto(p) \in SUBSET below(q)
    BY <1>4, <1>9
  <2>2. SumFunctionOnSet(w, upto(p)) <= SumFunctionOnSet(w, below(q))
    BY <1>6, <2>1, SumOfSubset
  <2> QED BY <1>5, <1>8, <2>2
<1> QED BY <1>7, <1>8, <1>9

\* A slot belongs to the segment of exactly one provider.
InSegment(w, p, c) == StartOf(w, p) <= c /\ c < StartOf(w, p) + w[p]

LEMMA OneSegment ==
    ASSUME NEW w \in [Providers -> Nat], NEW c \in Nat, NEW p \in Providers, NEW q \in Providers,
           InSegment(w, p, c), InSegment(w, q, c)
    PROVE  p = q
<1>1. p \in Nat /\ q \in Nat /\ w[p] \in Nat /\ w[q] \in Nat
  BY NamesAssumption
<1>2. StartOf(w, p) \in Nat /\ StartOf(w, q) \in Nat
  BY Segments
<1>3. ~(p < q) /\ ~(q < p)
  <2>1. p < q => StartOf(w, p) + w[p] <= StartOf(w, q)
    BY Segments
  <2>2. q < p => StartOf(w, q) + w[q] <= StartOf(w, p)
    BY Segments
  <2> QED BY <1>1, <1>2, <2>1, <2>2 DEF InSegment
<1> QED BY <1>1, <1>3

LEMMA SomeSegment ==
    ASSUME NEW w \in [Providers -> Nat], NEW c \in 0..(Total(w) - 1)
    PROVE  \E p \in Providers : InSegment(w, p, c)
<1> DEFINE End(p) == StartOf(w, p) + w[p]
           late == {p \in Providers : End(p) > c}
<1>1. IsFiniteSet(Providers) /\ Providers \subseteq Nat /\ Total(w) \in Nat
  BY NamesAssumption, Segments
<1>2. \A p \in Providers : StartOf(w, p) \in Nat /\ w[p] \in Nat /\ End(p) \in Nat
  BY Segments
<1>3. Providers # {}
  BY SumOfNone DEF Total
<1> HIDE DEF End
<1>4. \A p \in Providers : \A S \in SUBSET Providers :
         (\A x \in S : x <= p) /\ (\A x \in Providers : x \notin S => ~(x <= p)) /\ p \in S
           => SumFunctionOnSet(w, S) = End(p)
  <2> SUFFICES ASSUME NEW p \in Providers, NEW S \in SUBSET Providers,
                      \A x \in S : x <= p, \A x \in Providers : x \notin S => ~(x <= p), p \in S
               PROVE  SumFunctionOnSet(w, S) = End(p)
    OBVIOUS
  <2>1. S \ {p} = {q \in Providers : q < p}
    <3>1. \A x \in Providers : x \in Nat /\ p \in Nat
      BY <1>1
    <3> QED BY <3>1
  <2>2. IsFiniteSet(S)
    BY <1>1, FS_Subset
  <2>3. SumFunctionOnSet(w, S) = w[p] + SumFunctionOnSet(w, S \ {p})
    BY <1>2, <2>2, SumWithout
  <2>4. SumFunctionOnSet(w, S \ {p}) = StartOf(w, p)
    BY <2>1 DEF StartOf
  <2> QED BY <1>2, <2>3, <2>4 DEF End
<1>5. late # {}
  <2>1. PICK p \in Providers : \A x \in Providers : p >= x
    BY <1>1, <1>3, GreatestExists
  <2>2. \A x \in Providers : x <= p
    BY <1>1, <2>1
  <2>3. Total(w) = End(p)
    BY <1>4, <2>2 DEF Total
  <2> QED BY <1>1, <2>3
<1>6. PICK p \in late : \A x \in late : p <= x
  BY <1>1, <1>5, LeastExists
<1>7. StartOf(w, p) <= c
  <2> DEFINE below == {q \in Providers : q < p}
  <2>1. CASE below = {}
    <3>1. StartOf(w, p) = 0
      BY <2>1, SumOfNone DEF StartOf
    <3> QED BY <3>1
  <2>2. CASE below # {}
    <3>1. IsFiniteSet(below) /\ below \in SUBSET Nat /\ below \in SUBSET Providers
      BY <1>1, FS_Subset
    <3>2. PICK q \in below : \A x \in below : q >= x
      BY <2>2, <3>1, GreatestExists
    <3>3. q \in Providers /\ q < p /\ q \in Nat /\ p \in Nat
      BY <1>1, <3>2
    <3>4. \A x \in below : x <= q
      BY <3>1, <3>2
    <3>5. \A x \in Providers : x \notin below => ~(x <= q)
      <4> SUFFICES ASSUME NEW x \in Providers, ~(x < p) PROVE ~(x <= q)
        OBVIOUS
      <4>1. x \in Nat
        BY <1>1
      <4> QED BY <3>3, <4>1
    <3>6. StartOf(w, p) = End(q)
      <4>1. StartOf(w, p) = SumFunctionOnSet(w, below)
        BY DEF StartOf
      <4> HIDE DEF below
      <4> QED BY <1>4, <3>1, <3>2, <3>3, <3>4, <3>5, <4>1
    <3>7. q \notin late
      BY <1>6, <3>3
    <3> QED BY <1>2, <3>3, <3>6, <3>7
  <2> QED BY <2>1, <2>2
<1> QED BY <1>2, <1>6, <1>7 DEF InSegment, End

\* Each list has been turned as often as its provider had a slot.
Shares(P, flat, cur, w, f, c, r, m) ==
    \A p \in P : Laps(f, flat[p], cur[p] % w[p], r,
                      Passed(StartOf(w, p), w[p], c, m, Total(w)))
Shared(P, flat, cur, w, f, slot) ==
    \E r \in Nat, m \in 0..Total(w) : Shares(P, flat, cur, w, f, slot % Total(w), r, m)

\* The lists of the providers of P, their cursors and their weights.
Flats(P, flat, cur, w) ==
    /\ P \subseteq Providers /\ w \in [Providers -> Nat]
    /\ \A p \in P : /\ flat[p] \in Seq(Auths) /\ flat[p] # <<>> /\ Distinct(flat[p])
                    /\ w[p] = Len(flat[p]) /\ cur[p] \in Nat
    /\ \A p, q \in P : p # q => Range(flat[p]) \cap Range(flat[q]) = {}

LEMMA SharesStep ==
    ASSUME NEW P, NEW flat, NEW cur, NEW next, NEW w, Flats(P, flat, cur, w), NEW q \in P,
           NEW c \in 0..(Total(w) - 1), InSegment(w, q, c),
           NEW k, k = (cur[q] % w[q]) + 1, next[q] = k, \A p \in P : p # q => next[p] = cur[p],
           NEW r \in Nat, NEW m \in 0..(Total(w) - 1), NEW f,
           Shares(P, flat, cur, w, f, c, r, m), NEW h, OneMore(h, f, Auths, flat[q][k])
    PROVE  Shares(P, flat, next, w, h, (c + 1) % Total(w), r, m + 1)
<1> SUFFICES ASSUME NEW p \in P
             PROVE  Laps(h, flat[p], next[p] % w[p], r,
                         Passed(StartOf(w, p), w[p], (c + 1) % Total(w), m + 1, Total(w)))
  BY DEF Shares
<1> DEFINE x == Passed(StartOf(w, p), w[p], c, m, Total(w))
           y == Passed(StartOf(w, p), w[p], (c + 1) % Total(w), m + 1, Total(w))
           s == flat[p]
           d == cur[p] % Len(s)
<1>1. /\ w \in [Providers -> Nat] /\ p \in Providers /\ q \in Providers
      /\ s \in Seq(Auths) /\ s # <<>> /\ Distinct(s) /\ w[p] = Len(s) /\ cur[p] \in Nat
  BY DEF Flats
<1>2. /\ Total(w) \in Nat /\ StartOf(w, p) \in Nat /\ w[p] \in Nat
      /\ StartOf(w, p) + w[p] <= Total(w)
  BY <1>1, Segments
<1>3. /\ y = IF InSegment(w, p, c) THEN x + 1 ELSE x
      /\ x \in 0..w[p] /\ (InSegment(w, p, c) => x < w[p])
  BY <1>2, PassedStep DEF InSegment
<1>4. Laps(f, s, d, r, x)
  BY <1>1 DEF Shares
<1> HIDE DEF x, y, s
<1>5. d \in 0..(Len(s) - 1) /\ Len(s) \in Nat
  BY <1>1
<1>6. CASE p = q
  <2>1. y = x + 1 /\ x \in 0..(Len(s) - 1)
    BY <1>1, <1>3, <1>5, <1>6
  <2>2. k = d + 1 /\ k \in 1..Len(s) /\ next[p] = k
    BY <1>1, <1>5, <1>6
  <2>3. OneMore(h, f, Auths, s[k])
    BY <1>6 DEF s
  <2> HIDE DEF d
  <2>4. Adds(h, f, s, d + 1)
    BY <1>1, <2>2, <2>3, AddsPlace
  <2>5. Laps(h, s, (d + 1) % Len(s), r, x + 1)
    BY <1>1, <1>4, <1>5, <2>1, <2>4, LapsStep
  <2> QED BY <1>1, <2>1, <2>2, <2>5 DEF s, y
<1>7. CASE p # q
  <2>1. ~InSegment(w, p, c)
    BY <1>1, <1>7, OneSegment
  <2>2. y = x /\ next[p] = cur[p]
    BY <1>3, <1>7, <2>1
  <2>3. k \in 1..Len(flat[q]) /\ Range(flat[p]) \cap Range(flat[q]) = {}
    <3>1. flat[q] \in Seq(Auths) /\ flat[q] # <<>> /\ w[q] = Len(flat[q]) /\ cur[q] \in Nat
      BY DEF Flats
    <3>2. Len(flat[q]) \in Nat \ {0}
      BY <3>1
    <3>3. k \in 1..Len(flat[q])
      BY <3>1, <3>2
    <3> QED BY <1>7, <3>3 DEF Flats
  <2>4. flat[q][k] \notin Range(s)
    <3>1. flat[q] \in Seq(Auths)
      BY DEF Flats
    <3>2. flat[q][k] \in Range(flat[q])
      BY <2>3, <3>1 DEF Range
    <3> QED BY <2>3, <3>2 DEF s
  <2>5. \A i \in 1..Len(s) : h[s[i]] = f[s[i]]
    <3> TAKE i \in 1..Len(s)
    <3>1. s[i] \in Auths /\ s[i] \in Range(s)
      BY <1>1 DEF Range
    <3> QED BY <2>4, <3>1 DEF OneMore
  <2>6. Laps(h, s, d, r, x)
    BY <1>4, <2>5 DEF Laps
  <2> QED BY <1>1, <2>2, <2>6 DEF s, y
<1> QED BY <1>6, <1>7

LEMMA SharesRound ==
    ASSUME NEW P, NEW flat, NEW cur, NEW w, Flats(P, flat, cur, w),
           NEW c \in 0..(Total(w) - 1), NEW r \in Nat, NEW f,
           Shares(P, flat, cur, w, f, c, r, Total(w))
    PROVE  Shares(P, flat, cur, w, f, c, r + 1, 0)
<1> SUFFICES ASSUME NEW p \in P
             PROVE  Laps(f, flat[p], cur[p] % w[p], r + 1,
                         Passed(StartOf(w, p), w[p], c, 0, Total(w)))
  BY DEF Shares
<1> DEFINE s == flat[p]
           d == cur[p] % Len(s)
<1>1. /\ w \in [Providers -> Nat] /\ p \in Providers
      /\ s \in Seq(Auths) /\ s # <<>> /\ w[p] = Len(s) /\ cur[p] \in Nat
  BY DEF Flats
<1>2. /\ Total(w) \in Nat /\ StartOf(w, p) \in Nat /\ w[p] \in Nat
      /\ StartOf(w, p) + w[p] <= Total(w)
  BY <1>1, Segments
<1>3. /\ Passed(StartOf(w, p), w[p], c, Total(w), Total(w)) = w[p]
      /\ Passed(StartOf(w, p), w[p], c, 0, Total(w)) = 0
  BY <1>2, PassedRound
<1>4. Laps(f, s, d, r, Len(s))
  BY <1>1, <1>3 DEF Shares
<1> HIDE DEF s
<1>5. d \in 0..(Len(s) - 1)
  BY <1>1
<1> HIDE DEF d
<1>6. Laps(f, s, d, r + 1, 0)
  BY <1>1, <1>4, <1>5, LapsRound
<1> QED BY <1>1, <1>3, <1>6 DEF s, d

LEMMA SharedStep ==
    ASSUME NEW P, NEW flat, NEW cur, NEW next, NEW w, Flats(P, flat, cur, w), NEW q \in P,
           NEW slot \in Nat, NEW c, c = slot % Total(w), InSegment(w, q, c), Total(w) # 0,
           NEW k, k = (cur[q] % w[q]) + 1, next[q] = k, \A p \in P : p # q => next[p] = cur[p],
           NEW f, Shared(P, flat, cur, w, f, slot), NEW h, OneMore(h, f, Auths, flat[q][k])
    PROVE  Shared(P, flat, next, w, h, c + 1)
<1> DEFINE total == Total(w)
<1>1. total \in Nat \ {0}
  BY Segments DEF Flats
<1>2. c \in 0..(total - 1)
  BY <1>1
<1>3. PICK r \in Nat, m \in 0..total : Shares(P, flat, cur, w, f, c, r, m)
  BY DEF Shared
<1> HIDE DEF total
<1>4. CASE m < total
  <2>1. m \in 0..(total - 1) /\ m + 1 \in 0..total
    BY <1>1, <1>4
  <2>2. Shares(P, flat, next, w, h, (c + 1) % Total(w), r, m + 1)
    BY <1>2, <1>3, <2>1, SharesStep DEF total
  <2> QED BY <2>1, <2>2 DEF Shared, total
<1>5. CASE m = total
  <2> DEFINE s == r + 1
             o == 0
  <2>1. s \in Nat /\ o \in 0..(total - 1) /\ o + 1 \in 0..total
    BY <1>1
  <2>2. Shares(P, flat, cur, w, f, c, s, o)
    BY <1>2, <1>3, <1>5, SharesRound DEF total
  <2> HIDE DEF s, o
  <2>3. Shares(P, flat, next, w, h, (c + 1) % Total(w), s, o + 1)
    BY <1>2, <2>1, <2>2, SharesStep DEF total
  <2> QED BY <2>1, <2>3 DEF Shared, total
<1> QED BY <1>1, <1>4, <1>5

LEMMA SharedStart ==
    ASSUME NEW P, P # {}, NEW flat, NEW cur, NEW w, Flats(P, flat, cur, w), NEW slot \in Nat,
           NEW f, NEW r \in Nat, \A p \in P : \A i \in 1..Len(flat[p]) : f[flat[p][i]] = r
    PROVE  Shared(P, flat, cur, w, f, slot)
<1> DEFINE total == Total(w)
           c == slot % total
<1>1. w \in [Providers -> Nat] /\ \A p \in P : p \in Providers /\ w[p] # 0
  BY DEF Flats
<1>2. total \in Nat \ {0}
  <2>1. PICK p \in P : TRUE
    OBVIOUS
  <2>2. p \in Providers /\ w[p] # 0 /\ w[p] \in Nat
    BY <1>1
  <2>3. total \in Nat /\ StartOf(w, p) \in Nat /\ StartOf(w, p) + w[p] <= total
    BY <1>1, <2>2, Segments
  <2> HIDE DEF total
  <2> QED BY <2>2, <2>3
<1>3. c \in 0..(total - 1) /\ 0 \in 0..total
  BY <1>2
<1> HIDE DEF c, total
<1>4. ASSUME NEW p \in P
      PROVE  Laps(f, flat[p], cur[p] % w[p], r, Passed(StartOf(w, p), w[p], c, 0, Total(w)))
  <2> DEFINE s == flat[p]
             d == cur[p] % Len(s)
  <2>1. s \in Seq(Auths) /\ s # <<>> /\ w[p] = Len(s) /\ cur[p] \in Nat
    BY DEF Flats
  <2>2. /\ StartOf(w, p) \in Nat /\ w[p] \in Nat /\ Total(w) \in Nat
        /\ StartOf(w, p) + w[p] <= Total(w)
    BY <1>1, Segments
  <2>3. Passed(StartOf(w, p), w[p], c, 0, Total(w)) = 0
    BY <1>3, <2>2, PassedRound DEF total
  <2>4. \A i \in 1..Len(s) : f[s[i]] = r
    OBVIOUS
  <2> HIDE DEF s
  <2>5. d \in 0..(Len(s) - 1)
    BY <2>1
  <2> HIDE DEF d
  <2>6. Laps(f, s, d, r, 0)
    BY <2>1, <2>4, <2>5, LapsStart
  <2> QED BY <2>1, <2>3, <2>6 DEF s, d
<1>5. Shares(P, flat, cur, w, f, c, r, 0)
  BY <1>4 DEF Shares
<1> QED BY <1>3, <1>5 DEF Shared, c, total

LEMMA SharedEven ==
    ASSUME NEW P, NEW flat, NEW cur, NEW w, Flats(P, flat, cur, w), NEW slot, NEW f,
           Shared(P, flat, cur, w, f, slot)
    PROVE  \A p, q \in P : \A x \in Range(flat[p]), y \in Range(flat[q]) : f[x] <= f[y] + 1
<1>1. PICK r \in Nat, m \in 0..Total(w) : Shares(P, flat, cur, w, f, slot % Total(w), r, m)
  BY DEF Shared
<1>2. ASSUME NEW p \in P PROVE \A x \in Range(flat[p]) : f[x] \in {r, r + 1}
  <2>1. Laps(f, flat[p], cur[p] % w[p], r,
             Passed(StartOf(w, p), w[p], slot % Total(w), m, Total(w)))
    BY <1>1 DEF Shares
  <2>2. flat[p] \in Seq(Auths)
    BY DEF Flats
  <2> QED BY <2>1, <2>2, LapsEven
<1> QED BY <1>2

LEMMA SharedSame ==
    ASSUME NEW P, NEW flat, NEW cur, NEW next, NEW w, NEW slot, NEW f,
           Shared(P, flat, cur, w, f, slot), \A p \in P : next[p] % w[p] = cur[p] % w[p]
    PROVE  Shared(P, flat, next, w, f, slot)
<1>1. \A c, r, m : Shares(P, flat, cur, w, f, c, r, m) => Shares(P, flat, next, w, f, c, r, m)
  BY DEF Shares
<1> QED BY <1>1 DEF Shared

-----------------------------------------------------------------------------
(* The providers that share the best priority.                             *)

Contestants(S) == {p \in DOMAIN S : Best(S) \in DOMAIN S[p].ready}
TopOf(S, p) == S[p].ready[Best(S)].all
FlatOf(S) == [p \in Contestants(S) |-> TopOf(S, p).flat]
CursorOf(S) == [p \in Contestants(S) |-> TopOf(S, p).cursor]
Weights(S) ==
    [p \in Providers |-> IF p \in Contestants(S) THEN Len(TopOf(S, p).flat) ELSE 0]
Ungrouped(S) == \A p \in Contestants(S) : TopOf(S, p).parents = <<>>

MixedIsEven(S, f, slot) ==
    Ungrouped(S) /\ Contestants(S) # {}
      => Shared(Contestants(S), FlatOf(S), CursorOf(S), Weights(S), f, slot)

ShardSet(S, M) ==
    /\ DOMAIN S \subseteq Providers
    /\ \A p \in DOMAIN S : /\ Tidy(S[p], M)
                           /\ \A a \in DOMAIN S[p].entries : M[a].provider = p

LEMMA ContestantShows ==
    ASSUME NEW S, NEW M, ShardSet(S, M), NEW p \in Contestants(S)
    PROVE  TopShows(S[p], M, Best(S), "all", Tier(S[p], M, Best(S)))
<1> DEFINE k == Best(S)
           sh == S[p]
           all == "all"
<1>1. Tidy(sh, M) /\ k \in DOMAIN sh.ready
  BY DEF ShardSet, Contestants
<1> HIDE DEF k, sh
<1>2. PICK a \in ReadyIn(sh) : M[a].priority = k
  BY <1>1 DEF Tidy, Indexed
<1>3. a \in Tier(sh, M, k) /\ a \in Auths
  BY <1>1, <1>2 DEF Tier, ReadyIn, InState, Tidy, Shaped
<1>4. all \in {"all", "ws"} /\ Shown(sh, M, k, all) = Tier(sh, M, k)
  BY DEF Shown
<1> HIDE DEF all
<1>5. HasMatch(sh.ready[k][all], Auths)
  BY <1>1, <1>3, <1>4, MatchIs
<1>6. TopShows(sh, M, k, all, Tier(sh, M, k))
  BY <1>1, <1>4, <1>5, BucketShows
<1> QED BY <1>6 DEF k, sh, all

LEMMA ContestFlats ==
    ASSUME NEW S, NEW M, ShardSet(S, M)
    PROVE  Flats(Contestants(S), FlatOf(S), CursorOf(S), Weights(S))
<1> DEFINE P == Contestants(S)
           flat == FlatOf(S)
           cur == CursorOf(S)
           w == Weights(S)
           T(p) == Tier(S[p], M, Best(S))
<1>1. P \subseteq Providers
  BY DEF Contestants, ShardSet
<1>2. ASSUME NEW p \in P
      PROVE  /\ flat[p] \in Seq(Auths) /\ flat[p] # <<>> /\ Distinct(flat[p])
             /\ cur[p] \in Nat /\ Range(flat[p]) = T(p) /\ w[p] = Len(flat[p])
             /\ \A x \in T(p) : M[x].provider = p
  <2> DEFINE v == TopOf(S, p)
  <2>1. TopShows(S[p], M, Best(S), "all", T(p))
    BY ContestantShows
  <2>2. flat[p] = v.flat /\ cur[p] = v.cursor /\ w[p] = Len(v.flat)
    BY <1>1 DEF FlatOf, CursorOf, Weights
  <2>3. Listing(v, T(p), M) /\ Rolling(v) /\ T(p) # {} /\ T(p) \subseteq Auths
    BY <2>1 DEF TopShows, TopOf, Shows
  <2>4. \A x \in T(p) : M[x].provider = p
    BY <2>1 DEF TopShows, ShardSet, Contestants
  <2> HIDE DEF v, T
  <2> DEFINE s == v.flat
  <2>5. s \in Seq(T(p)) /\ Range(s) = T(p) /\ Distinct(s) /\ v.cursor \in Nat
    BY <2>3 DEF Listing, Rolling
  <2>7. w[p] = Len(s) /\ flat[p] = s
    BY <2>2
  <2> HIDE DEF s, w, flat
  <2>6. s \in Seq(Auths) /\ s # <<>>
    <3>1. \A x \in T(p) : x \in Auths
      BY <2>3
    <3>2. s \in Seq(Auths)
      BY <2>5, <3>1
    <3>3. s # <<>>
      BY <2>3, <2>5 DEF Range
    <3> QED BY <3>2, <3>3
  <2> QED BY <2>2, <2>4, <2>5, <2>6, <2>7
<1>3. w \in [Providers -> Nat]
  <2>1. ASSUME NEW p \in Providers
        PROVE  (IF p \in P THEN Len(TopOf(S, p).flat) ELSE 0) \in Nat
    <3>1. CASE p \in P
      <4>1. flat[p] = TopOf(S, p).flat /\ flat[p] \in Seq(Auths)
        BY <1>2, <3>1 DEF FlatOf
      <4> QED BY <3>1, <4>1
    <3>2. CASE p \notin P
      BY <3>2
    <3> QED BY <3>1, <3>2
  <2> QED BY <2>1 DEF Weights
<1>4. \A p, q \in P : p # q => Range(flat[p]) \cap Range(flat[q]) = {}
  <2> TAKE p, q \in P
  <2>1. /\ \A x \in Range(flat[p]) : M[x].provider = p
        /\ \A x \in Range(flat[q]) : M[x].provider = q
    BY <1>2
  <2> QED BY <2>1
<1> HIDE DEF P, flat, cur, w
<1>5. Flats(P, flat, cur, w)
  BY <1>1, <1>2, <1>3, <1>4 DEF Flats
<1> QED BY <1>5 DEF P, flat, cur, w

LEMMA ContestMixed ==
    ASSUME NEW S
    PROVE  Contest(Mixed, S) = [p \in DOMAIN S |-> IF p \in Contestants(S)
                                                   THEN Members(TopOf(S, p)) ELSE <<>>]
<1>1. Mixed # NoTurn
  BY DEF Mixed, NoTurn
<1> QED BY <1>1 DEF Contest, Contestants, TopOf

LEMMA SameContestants ==
    ASSUME NEW R, NEW S, DOMAIN R = DOMAIN S, Contestants(R) = Contestants(S),
           \A p \in Contestants(S) : Members(TopOf(R, p)) = Members(TopOf(S, p))
    PROVE  /\ FlatOf(R) = FlatOf(S) /\ Weights(R) = Weights(S)
           /\ Ungrouped(R) <=> Ungrouped(S)
           /\ Contest(Mixed, R) = Contest(Mixed, S)
<1>1. \A p \in Contestants(S) : /\ TopOf(R, p).flat = TopOf(S, p).flat
                                /\ TopOf(R, p).parents = TopOf(S, p).parents
  BY DEF Members
<1>2. FlatOf(R) = FlatOf(S)
  BY <1>1 DEF FlatOf
<1>3. Weights(R) = Weights(S)
  BY <1>1 DEF Weights
<1>4. Ungrouped(R) <=> Ungrouped(S)
  BY <1>1 DEF Ungrouped
<1>5. Contest(Mixed, R) = Contest(Mixed, S)
  BY ContestMixed
<1> QED BY <1>2, <1>3, <1>4, <1>5

LEMMA SameContest ==
    ASSUME NEW R, NEW S, Contest(Mixed, R) = Contest(Mixed, S)
    PROVE  /\ DOMAIN R = DOMAIN S /\ Contestants(R) = Contestants(S)
           /\ \A p \in Contestants(S) : Members(TopOf(R, p)) = Members(TopOf(S, p))
<1> DEFINE r(p) == IF p \in Contestants(R) THEN Members(TopOf(R, p)) ELSE <<>>
           s(p) == IF p \in Contestants(S) THEN Members(TopOf(S, p)) ELSE <<>>
<1>1. [p \in DOMAIN R |-> r(p)] = [p \in DOMAIN S |-> s(p)]
  BY ContestMixed
<1> HIDE DEF r, s
<1>2. DOMAIN R = DOMAIN S
  BY <1>1
<1>3. \A p \in DOMAIN S : r(p) = s(p)
  BY <1>1, <1>2
<1>4. \A v : Members(v) # <<>>
  BY DEF Members
<1>5. \A p \in DOMAIN S : p \in Contestants(R) <=> p \in Contestants(S)
  BY <1>3, <1>4 DEF r, s
<1>6. Contestants(R) = Contestants(S)
  BY <1>2, <1>5 DEF Contestants
<1>7. \A p \in Contestants(S) : Members(TopOf(R, p)) = Members(TopOf(S, p))
  <2> TAKE p \in Contestants(S)
  <2>1. p \in DOMAIN S /\ p \in Contestants(R)
    BY <1>6 DEF Contestants
  <2> QED BY <1>3, <2>1 DEF r, s
<1> QED BY <1>2, <1>6, <1>7

\* Only one credential may have moved, and the contest is the same: the others
\* are still where they were.
LEMMA SameMixed ==
    ASSUME NEW S, NEW M, ShardSet(S, M), NEW R, NEW N, ShardSet(R, N), NEW a,
           Contest(Mixed, R) = Contest(Mixed, S),
           \A p \in DOMAIN S \cap DOMAIN R :
              /\ KeptShard(R[p], S[p])
              /\ \A x \in DOMAIN S[p].entries \cap DOMAIN R[p].entries :
                    x # a => N[x].priority = M[x].priority,
           NEW f, \A x \in Auths : f[x] \in Nat, NEW slot \in Nat, MixedIsEven(S, f, slot)
    PROVE  MixedIsEven(R, f, slot)
<1> DEFINE P == Contestants(S)
           w == Weights(S)
           k == Best(S)
           j == Best(R)
           T(p) == Tier(S[p], M, k)
           U(p) == Tier(R[p], N, j)
<1>1. /\ DOMAIN R = DOMAIN S /\ Contestants(R) = P
      /\ \A p \in P : Members(TopOf(R, p)) = Members(TopOf(S, p))
  BY SameContest
<1>2. FlatOf(R) = FlatOf(S) /\ Weights(R) = w /\ (Ungrouped(R) <=> Ungrouped(S))
  BY <1>1, SameContestants
<1>3. SUFFICES ASSUME Ungrouped(S), P # {}
               PROVE  Shared(P, FlatOf(S), CursorOf(R), w, f, slot)
  BY <1>1, <1>2 DEF MixedIsEven
<1>4. Shared(P, FlatOf(S), CursorOf(S), w, f, slot)
  BY <1>3 DEF MixedIsEven
<1>5. \A p \in P : /\ TopShows(S[p], M, k, "all", T(p))
                   /\ TopShows(R[p], N, j, "all", U(p))
                   /\ p \in DOMAIN S /\ p \in DOMAIN R
  BY <1>1, ContestantShows DEF Contestants
<1>6. \A p \in P : T(p) = U(p)
  <2> TAKE p \in P
  <2>1. TopOf(S, p).flat = TopOf(R, p).flat
    BY <1>1 DEF Members
  <2>2. Range(TopOf(S, p).flat) = T(p)
    BY <1>5 DEF TopShows, Listing, TopOf
  <2>3. Range(TopOf(R, p).flat) = U(p)
    BY <1>5 DEF TopShows, Listing, TopOf
  <2> QED BY <2>1, <2>2, <2>3
<1> HIDE DEF P, k, j, T, U, w
<1>7. CASE \E p \in P : T(p) # {a}
  <2>1. PICK p \in P : T(p) # {a}
    BY <1>7
  <2>2. PICK b \in T(p) : b # a
    BY <1>5, <2>1 DEF TopShows
  <2>3. /\ b \in DOMAIN S[p].entries /\ M[b].priority = k
        /\ b \in DOMAIN R[p].entries /\ N[b].priority = j
    BY <1>5, <1>6, <2>2 DEF TopShows
  <2>4. k = j
    BY <1>5, <2>2, <2>3
  <2>5. \A q \in P : CursorOf(R)[q] % w[q] = CursorOf(S)[q] % w[q]
    <3> TAKE q \in P
    <3>1. SameTurn(TopOf(R, q), TopOf(S, q))
      BY <1>5, <2>4 DEF KeptShard, TopShows, TopOf, k, j
    <3>2. FlatOf(S)[q] # <<>> /\ w[q] = Len(FlatOf(S)[q])
      BY ContestFlats DEF Flats, P, w
    <3>3. FlatOf(S)[q] = TopOf(S, q).flat /\ TopOf(R, q).flat = TopOf(S, q).flat
      BY <1>1 DEF FlatOf, Members, P
    <3>4. CursorOf(R)[q] = TopOf(R, q).cursor /\ CursorOf(S)[q] = TopOf(S, q).cursor
      BY <1>1 DEF CursorOf, P
    <3> QED BY <3>1, <3>2, <3>3, <3>4 DEF SameTurn
  <2> QED BY <1>4, <2>5, SharedSame
<1>8. CASE \A p \in P : T(p) = {a}
  <2>1. PICK p \in P : T(p) = {a}
    BY <1>3, <1>8
  <2>2. a \in Auths
    BY <1>5, <2>1 DEF TopShows
  <2>3. Flats(P, FlatOf(S), CursorOf(R), w)
    <3>1. Flats(Contestants(R), FlatOf(R), CursorOf(R), Weights(R))
      BY ContestFlats
    <3> QED BY <1>1, <1>2, <3>1
  <2>4. ASSUME NEW q \in P, NEW i \in 1..Len(FlatOf(S)[q]) PROVE f[FlatOf(S)[q][i]] = f[a]
    <3>1. FlatOf(S)[q] = TopOf(S, q).flat
      BY DEF FlatOf, P
    <3>2. FlatOf(S)[q] \in Seq({a})
      BY <1>5, <1>8, <3>1 DEF TopShows, Listing, TopOf, k
    <3> QED BY <3>2
  <2>5. f[a] \in Nat
    BY <2>2
  <2> QED BY <1>3, <2>3, <2>4, <2>5, SharedStart
<1> QED BY <1>7, <1>8

LEMMA MixedStart ==
    ASSUME NEW S, NEW M, ShardSet(S, M), NEW f, Zero(f, Auths), NEW slot \in Nat
    PROVE  MixedIsEven(S, f, slot)
<1> SUFFICES ASSUME Contestants(S) # {}
             PROVE  Shared(Contestants(S), FlatOf(S), CursorOf(S), Weights(S), f, slot)
  BY DEF MixedIsEven
<1>1. Flats(Contestants(S), FlatOf(S), CursorOf(S), Weights(S))
  BY ContestFlats
<1>2. ASSUME NEW p \in Contestants(S), NEW i \in 1..Len(FlatOf(S)[p])
      PROVE  f[FlatOf(S)[p][i]] = 0
  BY <1>1 DEF Flats, Zero
<1>3. 0 \in Nat
  OBVIOUS
<1> QED BY <1>1, <1>2, <1>3, SharedStart

\* What EvenOver asks of the credentials of all views.
LEMMA MixedEven ==
    ASSUME NEW S, NEW M, ShardSet(S, M), NEW f, NEW slot, MixedIsEven(S, f, slot), Ungrouped(S)
    PROVE  \A p, q \in Contestants(S) : \A x \in Range(TopOf(S, p).flat), y \in Range(TopOf(S, q).flat) :
              f[x] <= f[y] + 1
<1> TAKE p, q \in Contestants(S)
<1>1. Shared(Contestants(S), FlatOf(S), CursorOf(S), Weights(S), f, slot)
  BY DEF MixedIsEven
<1>2. Flats(Contestants(S), FlatOf(S), CursorOf(S), Weights(S))
  BY ContestFlats
<1>3. \A x \in Range(FlatOf(S)[p]), y \in Range(FlatOf(S)[q]) : f[x] <= f[y] + 1
  BY <1>1, <1>2, SharedEven
<1> QED BY <1>3 DEF FlatOf

-----------------------------------------------------------------------------
(* A pick over several providers.                                          *)

BestFor(S, E) == Max({HighestReady(S[p], FALSE, E) : p \in providers} \cup {NoPriority})
WeightsFor(S, best) ==
    [p \in Providers |-> IF p \in providers /\ best \in DOMAIN S[p].ready
                         THEN Len(S[p].ready[best].all.flat) ELSE 0]
FirstIn(w) ==
    CHOOSE p \in Providers : StartOf(w, p) <= mixed % Total(w)
                              /\ mixed % Total(w) < StartOf(w, p) + w[p]
Turn(w, p) == IF p >= FirstIn(w) THEN p ELSE p + Max(Providers)
NextIn(S, best, w, E) ==
    CHOOSE p \in providers :
       /\ best \in Matching(S[p], "all", E)
       /\ \A q \in providers :
             best \in Matching(S[q], "all", E) => Turn(w, p) <= Turn(w, q)
ChosenIn(S, best, w, strategy, E) ==
    IF strategy = "fill_first"
    THEN Min({p \in providers : best \in Matching(S[p], "all", E)})
    ELSE NextIn(S, best, w, E)

PickHere(S, q, best, strategy, E) == PickAt(S[q], best, FALSE, strategy, E)

LEMMA MixedUnfolds ==
    ASSUME NEW S, NEW strategy, NEW E, NEW best, best = BestFor(S, E), NEW w,
           w = WeightsFor(S, best), NEW q, q = ChosenIn(S, best, w, strategy, E)
    PROVE  PickMixed(S, strategy, E)
             = IF best = NoPriority THEN Nothing(S)
               ELSE [auth |-> PickHere(S, q, best, strategy, E).auth,
                     shard |-> [S EXCEPT ![q] = PickHere(S, q, best, strategy, E).shard],
                     mixed |-> IF strategy = "fill_first" THEN mixed
                               ELSE SlotAfter(q = FirstIn(w), mixed % Total(w), StartOf(w, q))]
<1> DEFINE High(p) == HighestReady(S[p], FALSE, E)
           highs == {High(p) : p \in providers}
           top == Max(highs \cup {NoPriority})
           Able(p) == top \in Matching(S[p], "all", E)
           able == {p \in providers : Able(p)}
           weight == [p \in Providers |->
                        IF p \in providers /\ top \in DOMAIN S[p].ready
                        THEN Len(S[p].ready[top].all.flat) ELSE 0]
           Start(p) == SumFunctionOnSet(weight, {r \in Providers : r < p})
           slot == mixed % SumFunctionOnSet(weight, Providers)
           first == CHOOSE p \in Providers :
                      Start(p) <= slot /\ slot < Start(p) + weight[p]
           After1(p) == IF p >= first THEN p ELSE p + Max(Providers)
           next == CHOOSE p \in providers :
                     Able(p) /\ \A r \in providers : Able(r) => After1(p) <= After1(r)
           chosen == IF strategy = "fill_first" THEN Min(able) ELSE next
<1>1. PickMixed(S, strategy, E)
        = IF top = NoPriority THEN Nothing(S)
          ELSE [auth |-> PickAt(S[chosen], top, FALSE, strategy, E).auth,
                shard |-> [S EXCEPT ![chosen] =
                             PickAt(S[chosen], top, FALSE, strategy, E).shard],
                mixed |-> IF strategy = "fill_first" THEN mixed
                          ELSE SlotAfter(chosen = first, slot, Start(chosen))]
  BY Zenon DEF PickMixed, top, highs, High
<1>2. top = best
  BY Zenon DEF BestFor
<1> HIDE DEF top
<1>3. weight = w
  BY <1>2, Zenon DEF WeightsFor
<1> HIDE DEF weight
<1>4. slot = mixed % Total(w) /\ \A p : Start(p) = StartOf(w, p)
  BY <1>3, Zenon DEF Total, StartOf
<1> HIDE DEF slot, Start
<1>5. first = FirstIn(w)
  BY <1>3, <1>4, Zenon DEF FirstIn
<1> HIDE DEF first
<1>6. \A p : After1(p) = Turn(w, p)
  BY <1>5, Zenon DEF Turn
<1> HIDE DEF After1
<1>7. next = NextIn(S, best, w, E)
  BY <1>2, <1>6, Zenon DEF NextIn
<1> HIDE DEF next
<1>8. able = {p \in providers : best \in Matching(S[p], "all", E)}
  BY <1>2
<1> HIDE DEF able
<1>9. chosen = q
  BY <1>7, <1>8, Zenon DEF ChosenIn
<1> HIDE DEF chosen
<1> QED BY <1>1, <1>2, <1>4, <1>5, <1>9, Zenon DEF PickHere

LEMMA BestIs ==
    ASSUME NEW S, \A p \in providers : Tidy(S[p], meta), providers \subseteq Providers, NEW E,
           NEW best, best = BestFor(S, E), best # NoPriority
    PROVE  \E p \in providers : best \in Matching(S[p], "all", E)
<1> DEFINE High(p) == HighestReady(S[p], FALSE, E)
           highs == {High(p) : p \in providers}
<1>1. \A p \in providers :
         /\ High(p) = NoPriority \/ High(p) \in Matching(S[p], "all", E)
         /\ Matching(S[p], "all", E) \subseteq Nat
  <2> TAKE p \in providers
  <2>1. /\ Matching(S[p], "all", E) \in SUBSET (DOMAIN S[p].ready)
        /\ DOMAIN S[p].ready \in SUBSET Nat /\ IsFiniteSet(DOMAIN S[p].ready)
    BY MatchingIs DEF Matching
  <2>2. IsFiniteSet(Matching(S[p], "all", E))
    BY <2>1, FS_Subset
  <2>3. High(p) = IF Matching(S[p], "all", E) # {} THEN Max(Matching(S[p], "all", E))
                  ELSE NoPriority
    BY DEF HighestReady
  <2> HIDE DEF High
  <2> QED BY <2>1, <2>2, <2>3, MaxOfNats
<1>2. IsFiniteSet(providers)
  BY NamesAssumption, FS_Subset
<1>3. best = Max(highs \cup {NoPriority})
  BY Zenon DEF BestFor
<1> HIDE DEF High
<1>4. IsFiniteSet(highs \cup {NoPriority}) /\ highs \cup {NoPriority} \in SUBSET (Nat \cup {NoPriority})
  <2> DEFINE f == [p \in providers |-> High(p)]
  <2>1. f \in Surjection(providers, highs)
    BY DEF Surjection
  <2>2. highs \cup {NoPriority} \in SUBSET (Nat \cup {NoPriority})
    BY <1>1
  <2> HIDE DEF f, highs
  <2>3. IsFiniteSet(highs)
    BY <1>2, <2>1, FS_Surjection
  <2>4. IsFiniteSet(highs \cup {NoPriority})
    BY <2>3, FS_AddElement
  <2> QED BY <2>2, <2>4
<1> HIDE DEF highs
<1>5. best \in highs \cup {NoPriority}
  BY <1>3, <1>4, MaxOfPriorities
<1>6. PICK p \in providers : High(p) = best
  BY <1>5 DEF highs
<1> QED BY <1>1, <1>6

LEMMA WeightsCount ==
    ASSUME NEW S, \A p \in providers : Tidy(S[p], meta), providers \subseteq Providers, NEW E,
           NEW best, NEW q \in providers, best \in Matching(S[q], "all", E),
           NEW w, w = WeightsFor(S, best)
    PROVE  w \in [Providers -> Nat] /\ Total(w) \in Nat \ {0}
<1>1. ASSUME NEW p \in providers, best \in DOMAIN S[p].ready
      PROVE  /\ Len(S[p].ready[best].all.flat) \in Nat
             /\ HasMatch(S[p].ready[best].all, E) => Len(S[p].ready[best].all.flat) # 0
  <2> DEFINE T == Tier(S[p], meta, best)
             v == S[p].ready[best].all
  <2>1. T \in SUBSET Nat /\ IsFiniteSet(T) /\ (\A a \in T : meta[a].parent \in Parents)
    BY TierIsFinite
  <2>2. Shows(v, T, meta)
    BY <1>1 DEF Tidy, Indexed
  <2> HIDE DEF T
  <2>3. v.flat \in Seq(T)
    BY <2>1, <2>2, ViewLists DEF Shows
  <2> HIDE DEF v
  <2> DEFINE s == v.flat
  <2>4. ASSUME NEW x \in Range(s) PROVE Len(s) # 0
    <3> HIDE DEF s
    <3>1. PICK i \in DOMAIN s : x = s[i]
      BY DEF Range
    <3> QED BY <2>3, <3>1 DEF s
  <2>5. Len(s) \in Nat
    BY <2>3
  <2>6. Range(s) \cap E # {} => Len(s) # 0
    BY <2>4
  <2> QED BY <2>5, <2>6, Zenon DEF HasMatch, v, s
<1>2. w \in [Providers -> Nat]
  BY <1>1 DEF WeightsFor
<1>3. q \in Providers /\ w[q] # 0
  <2>1. best \in DOMAIN S[q].ready /\ HasMatch(S[q].ready[best].all, E)
    BY DEF Matching
  <2>2. w[q] = Len(S[q].ready[best].all.flat)
    BY <2>1 DEF WeightsFor
  <2> QED BY <1>1, <2>1, <2>2
<1>4. StartOf(w, q) \in Nat /\ StartOf(w, q) + w[q] <= Total(w) /\ Total(w) \in Nat
  BY <1>2, <1>3, Segments
<1> QED BY <1>2, <1>3, <1>4

\* The provider whose turn it is has a credential.
LEMMA NextIsAble ==
    ASSUME NEW S, NEW best, NEW w, NEW E, providers \subseteq Providers,
           \E p \in providers : best \in Matching(S[p], "all", E),
           NEW q, q = NextIn(S, best, w, E)
    PROVE  /\ q \in providers /\ best \in Matching(S[q], "all", E)
           /\ \A p \in providers :
                 best \in Matching(S[p], "all", E) => Turn(w, q) <= Turn(w, p)
<1> DEFINE able == {p \in providers : best \in Matching(S[p], "all", E)}
           turns == {Turn(w, p) : p \in able}
<1>1. Max(Providers) \in Nat /\ able \in SUBSET Nat /\ able # {}
  <2>1. Providers # {} /\ Providers \in SUBSET Nat /\ IsFiniteSet(Providers)
    BY NamesAssumption
  <2> QED BY <2>1, MaxOfNats
<1>2. \A p \in able : Turn(w, p) \in Nat
  BY <1>1 DEF Turn
<1>3. turns \in SUBSET Nat /\ turns # {}
  BY <1>1, <1>2
<1>4. PICK least \in turns : \A y \in turns : least <= y
  BY <1>3, LeastExists
<1>5. \E p \in providers :
         /\ best \in Matching(S[p], "all", E)
         /\ \A r \in providers : best \in Matching(S[r], "all", E) => Turn(w, p) <= Turn(w, r)
  BY <1>4
<1> QED BY <1>5, Zenon DEF NextIn

LEMMA ChosenIsAble ==
    ASSUME NEW S, NEW best, NEW w, NEW E, NEW strategy, providers \subseteq Providers,
           \E p \in providers : best \in Matching(S[p], "all", E),
           NEW q, q = ChosenIn(S, best, w, strategy, E)
    PROVE  q \in providers /\ best \in Matching(S[q], "all", E)
<1> DEFINE able == {p \in providers : best \in Matching(S[p], "all", E)}
<1>1. able \in SUBSET Nat /\ able # {}
  BY NamesAssumption
<1>2. CASE strategy = "fill_first"
  <2>1. q = Min(able)
    BY <1>2 DEF ChosenIn
  <2> HIDE DEF able
  <2>2. q \in able
    BY <1>1, <2>1, MinOfNats
  <2> QED BY <2>2 DEF able
<1>3. CASE strategy # "fill_first"
  <2>1. q = NextIn(S, best, w, E)
    BY <1>3 DEF ChosenIn
  <2> QED BY <2>1, NextIsAble
<1> QED BY <1>2, <1>3

\* The slot stays a number.
LEMMA MixedCounts ==
    ASSUME NEW S, \A p \in providers : Tidy(S[p], meta), providers \subseteq Providers, NEW E,
           NEW strategy, mixed \in Nat
    PROVE  PickMixed(S, strategy, E).mixed \in Nat
<1> DEFINE best == BestFor(S, E)
           w == WeightsFor(S, best)
           q == ChosenIn(S, best, w, strategy, E)
           slot == IF strategy = "fill_first" THEN mixed
                   ELSE SlotAfter(q = FirstIn(w), mixed % Total(w), StartOf(w, q))
           r == PickHere(S, q, best, strategy, E)
<1>0. best = BestFor(S, E) /\ w = WeightsFor(S, best) /\ q = ChosenIn(S, best, w, strategy, E)
  OBVIOUS
<1> HIDE DEF best, w, q
<1>1. PickMixed(S, strategy, E)
        = IF best = NoPriority THEN Nothing(S)
          ELSE [auth |-> r.auth, shard |-> [S EXCEPT ![q] = r.shard], mixed |-> slot]
  BY <1>0, MixedUnfolds
<1>2. CASE best = NoPriority
  BY <1>1, <1>2 DEF Nothing
<1>3. CASE best # NoPriority
  <2>1. PICK p \in providers : best \in Matching(S[p], "all", E)
    BY <1>0, <1>3, BestIs
  <2>2. w \in [Providers -> Nat] /\ Total(w) \in Nat \ {0}
    BY <1>0, <2>1, WeightsCount
  <2>3. q \in providers
    BY <1>0, <2>1, ChosenIsAble
  <2> HIDE DEF r
  <2>4. StartOf(w, q) \in Nat
    BY <2>2, <2>3, Segments
  <2>5. mixed % Total(w) \in Nat
    BY <2>2
  <2>6. slot \in Nat
    BY <2>4, <2>5 DEF SlotAfter
  <2> HIDE DEF slot
  <2> QED BY <1>1, <1>3, <2>6
<1> QED BY <1>2, <1>3

LEMMA HerePicks ==
    ASSUME NEW S, NEW q, NEW best, NEW strategy, NEW E, Tidy(S[q], meta),
           best \in DOMAIN S[q].ready, HasMatch(S[q].ready[best]["all"], E)
    PROVE  /\ Tidy(PickHere(S, q, best, strategy, E).shard, meta)
           /\ PicksFrom(PickHere(S, q, best, strategy, E).shard,
                        PickHere(S, q, best, strategy, E).auth,
                        S[q], best, "all", strategy, E)
<1> DEFINE no == FALSE
           sh == S[q]
           all == "all"
<1>1. ViewAt(sh, best, no, E) = all
  BY DEF ViewAt
<1>2. PickHere(S, q, best, strategy, E) = PickAt(sh, best, no, strategy, E)
  BY Zenon DEF PickHere
<1> HIDE DEF no, sh, all
<1>3. Tidy(sh, meta) /\ best \in DOMAIN sh.ready /\ HasMatch(sh.ready[best][ViewAt(sh, best, no, E)], E)
  BY <1>1 DEF sh, all
<1>4. Tidy(PickAt(sh, best, no, strategy, E).shard, meta)
  BY <1>3, PickAtFits
<1>5. PicksFrom(PickAt(sh, best, no, strategy, E).shard, PickAt(sh, best, no, strategy, E).auth,
                sh, best, all, strategy, E)
  BY <1>1, <1>3, PickAtIs
<1> QED BY <1>2, <1>4, <1>5 DEF sh, all

\* A pick without restriction is made by the provider whose slot it is.
MixedTurn(pick, S, strategy) ==
    \E q \in Contestants(S) : \E new :
       LET w == Weights(S)
           c == mixed % Total(w)
       IN  /\ Total(w) \in Nat \ {0} /\ InSegment(w, q, c)
           /\ Tidy(new, meta)
           /\ PicksFrom(new, pick.auth, S[q], Best(S), "all", strategy, Auths)
           /\ pick.shard = [S EXCEPT ![q] = new] /\ pick.mixed = c + 1

LEMMA MixedTurns ==
    ASSUME NEW S, DOMAIN S = providers, ShardSet(S, meta), mixed \in Nat,
           NEW strategy, strategy # "fill_first", NEW pick, pick = PickMixed(S, strategy, Auths),
           pick.auth # NoAuth
    PROVE  MixedTurn(pick, S, strategy)
<1> DEFINE best == BestFor(S, Auths)
           w == WeightsFor(S, best)
           q == ChosenIn(S, best, w, strategy, Auths)
           c == mixed % Total(w)
           slot == SlotAfter(q = FirstIn(w), c, StartOf(w, q))
           r == PickHere(S, q, best, strategy, Auths)
<1>1. best = Best(S) /\ w = Weights(S)
  <2>1. best = Best(S)
    BY Zenon DEF BestFor, Best
  <2> HIDE DEF best
  <2>2. w = Weights(S)
    BY <2>1 DEF WeightsFor, Weights, Contestants, TopOf
  <2> QED BY <2>1, <2>2
<1>2. best = BestFor(S, Auths) /\ w = WeightsFor(S, best) /\ q = ChosenIn(S, best, w, strategy, Auths)
  OBVIOUS
<1> HIDE DEF best, w, q
<1>3. pick = IF best = NoPriority THEN Nothing(S)
             ELSE [auth |-> r.auth, shard |-> [S EXCEPT ![q] = r.shard], mixed |-> slot]
  <2>1. pick = IF best = NoPriority THEN Nothing(S)
               ELSE [auth |-> r.auth, shard |-> [S EXCEPT ![q] = r.shard],
                     mixed |-> IF strategy = "fill_first" THEN mixed ELSE slot]
    BY <1>2, MixedUnfolds
  <2> QED BY <2>1
<1>4. best # NoPriority
  BY <1>3 DEF Nothing
<1> HIDE DEF r, slot
<1>5. pick.auth = r.auth /\ pick.shard = [S EXCEPT ![q] = r.shard] /\ pick.mixed = slot
  BY <1>3, <1>4
<1>6. providers \subseteq Providers /\ \A p \in providers : Tidy(S[p], meta)
  BY DEF ShardSet
<1>7. \E p \in providers : best \in Matching(S[p], "all", Auths)
  BY <1>2, <1>4, <1>6, BestIs
<1>8. q \in providers /\ best \in Matching(S[q], "all", Auths)
  BY <1>2, <1>6, <1>7, ChosenIsAble
<1>9. \A p \in providers : best \in Matching(S[p], "all", Auths) => Turn(w, q) <= Turn(w, p)
  BY <1>2, <1>6, <1>7, NextIsAble DEF ChosenIn
<1>10. best \in DOMAIN S[q].ready /\ HasMatch(S[q].ready[best]["all"], Auths)
  BY <1>8 DEF Matching
<1>11. q \in Contestants(S)
  BY <1>1, <1>8, <1>10 DEF Contestants
<1>12. w \in [Providers -> Nat] /\ Total(w) \in Nat \ {0}
  BY <1>2, <1>6, <1>8, WeightsCount
<1>13. InSegment(w, q, c) /\ q = FirstIn(w)
  <2>1. c \in 0..(Total(w) - 1)
    BY <1>12
  <2> HIDE DEF c
  <2>2. PICK p \in Providers : InSegment(w, p, c)
    BY <1>12, <2>1, SomeSegment
  <2>3. FirstIn(w) = p
    <3>1. \A x \in Providers : InSegment(w, x, c) => x = p
      BY <1>12, <2>1, <2>2, OneSegment
    <3>2. FirstIn(w) = CHOOSE x \in Providers : InSegment(w, x, c)
      BY Zenon DEF FirstIn, InSegment, c
    <3> QED BY <2>2, <3>1, <3>2
  <2>4. p \in Contestants(S)
    <3>1. StartOf(w, p) \in Nat /\ w[p] \in Nat
      BY <1>12, Segments
    <3>2. w[p] # 0
      BY <2>1, <2>2, <3>1 DEF InSegment
    <3> QED BY <1>1, <3>2 DEF Weights
  <2>5. p \in providers /\ best \in Matching(S[p], "all", Auths)
    <3>1. TopShows(S[p], meta, Best(S), "all", Tier(S[p], meta, Best(S)))
      BY <2>4, ContestantShows
    <3>2. HasMatch(S[p].ready[best].all, Auths)
      <4> DEFINE v == S[p].ready[best].all
                 T == Tier(S[p], meta, best)
      <4>1. T # {} /\ T \subseteq Auths /\ Listing(v, T, meta)
        BY <1>1, <3>1 DEF TopShows
      <4> HIDE DEF v, T
      <4>2. Range(v.flat) = T
        BY <4>1 DEF Listing
      <4> QED BY <4>1, <4>2 DEF HasMatch, v
    <3> QED BY <1>1, <2>4, <3>2 DEF Contestants, Matching
  <2>6. q = p
    <3>1. Turn(w, p) = p
      BY <2>3, NamesAssumption DEF Turn
    <3>2. Turn(w, q) = IF q >= p THEN q ELSE q + Max(Providers)
      BY <2>3 DEF Turn
    <3>3. Turn(w, q) <= p
      BY <1>9, <2>5, <3>1
    <3>4. p \in Nat \ {0} /\ q \in Nat \ {0}
      BY <1>6, <1>8, NamesAssumption
    <3>5. Max(Providers) \in Nat /\ p <= Max(Providers)
      <4>1. Providers # {} /\ Providers \in SUBSET Nat /\ IsFiniteSet(Providers)
        BY <2>2, NamesAssumption
      <4> QED BY <2>2, <4>1, MaxOfNats
    <3> QED BY <3>2, <3>3, <3>4, <3>5
  <2> QED BY <2>2, <2>3, <2>6
<1>14. pick.mixed = c + 1
  BY <1>5, <1>13 DEF slot, SlotAfter
<1>15. Tidy(S[q], meta)
  BY <1>6, <1>8
<1>16. /\ Tidy(r.shard, meta)
       /\ PicksFrom(r.shard, r.auth, S[q], best, "all", strategy, Auths)
  BY <1>10, <1>15, HerePicks DEF r
<1> QED BY <1>1, <1>5, <1>11, <1>12, <1>13, <1>14, <1>16 DEF MixedTurn, c

\* A pick without restriction leaves the lists of all providers turned, whether
\* the rotation goes on or starts with it.
LEMMA MixedPick ==
    ASSUME NEW S, DOMAIN S = providers, ShardSet(S, meta), mixed \in Nat,
           NEW strategy, strategy # "fill_first", NEW pick, MixedTurn(pick, S, strategy),
           NEW f, \A x \in Auths : f[x] \in Nat, Zero(f, Auths) \/ MixedIsEven(S, f, mixed),
           NEW h, OneMore(h, f, Auths, pick.auth)
    PROVE  /\ MixedIsEven(pick.shard, h, pick.mixed)
           /\ Contest(Mixed, pick.shard) = Contest(Mixed, S)
<1> DEFINE R == pick.shard
           k == Best(S)
           w == Weights(S)
           c == mixed % Total(w)
           P == Contestants(S)
<1>1. PICK q \in P : \E new :
         /\ Total(w) \in Nat \ {0} /\ InSegment(w, q, c)
         /\ Tidy(new, meta)
         /\ PicksFrom(new, pick.auth, S[q], k, "all", strategy, Auths)
         /\ R = [S EXCEPT ![q] = new] /\ pick.mixed = c + 1
  BY DEF MixedTurn
<1>2. PICK new :
         /\ Total(w) \in Nat \ {0} /\ InSegment(w, q, c)
         /\ Tidy(new, meta)
         /\ PicksFrom(new, pick.auth, S[q], k, "all", strategy, Auths)
         /\ R = [S EXCEPT ![q] = new] /\ pick.mixed = c + 1
  BY <1>1
<1> HIDE DEF R
<1>3. /\ q \in DOMAIN S /\ DOMAIN R = DOMAIN S /\ R[q] = new
      /\ \A p \in DOMAIN S : p # q => R[p] = S[p]
  BY <1>2 DEF Contestants
<1>4. /\ new.entries = S[q].entries /\ k \in DOMAIN S[q].ready
      /\ pick.auth = PickFrom(TopOf(S, q), strategy, Auths).auth
      /\ new.ready[k].all = PickFrom(TopOf(S, q), strategy, Auths).view
  BY <1>2 DEF PicksFrom, TopOf, Contestants
<1>5. \A p \in DOMAIN S : Tidy(S[p], meta)
  BY DEF ShardSet
<1>6. /\ DOMAIN new.ready = DOMAIN S[q].ready
      /\ \A ws, E : HighestReady(new, ws, E) = HighestReady(S[q], ws, E)
      /\ Members(new.ready[k].all) = Members(S[q].ready[k].all)
  BY <1>2, <1>3, <1>4, <1>5, SameReady
<1>7. Best(R) = k
  <2> DEFINE no == FALSE
             H(U) == {HighestReady(U[p], no, Auths) : p \in DOMAIN U}
  <2>1. Best(R) = Max(H(R) \cup {NoPriority}) /\ k = Max(H(S) \cup {NoPriority})
    BY Zenon DEF Best
  <2> HIDE DEF no, k
  <2>2. \A p \in DOMAIN S : HighestReady(R[p], no, Auths) = HighestReady(S[p], no, Auths)
    BY <1>3, <1>6
  <2>3. H(R) = H(S)
    BY <1>3, <2>2
  <2> QED BY <2>1, <2>3
<1>8. Contestants(R) = P
  BY <1>3, <1>6, <1>7 DEF Contestants
<1>9. \A p \in P : /\ p # q => TopOf(R, p) = TopOf(S, p)
                   /\ Members(TopOf(R, p)) = Members(TopOf(S, p))
  BY <1>3, <1>6, <1>7 DEF TopOf, Contestants
<1>10. /\ FlatOf(R) = FlatOf(S) /\ Weights(R) = w /\ (Ungrouped(R) <=> Ungrouped(S))
       /\ Contest(Mixed, R) = Contest(Mixed, S)
  BY <1>3, <1>8, <1>9, SameContestants
<1>11. ASSUME Ungrouped(S) PROVE Shared(P, FlatOf(S), CursorOf(R), w, h, c + 1)
  <2> DEFINE v == TopOf(S, q)
             cur == CursorOf(S)
             flat == FlatOf(S)
             next == CursorOf(R)
             i == (cur[q] % w[q]) + 1
  <2>1. Flats(P, flat, cur, w)
    BY ContestFlats
  <2>2. Shared(P, flat, cur, w, f, mixed)
    <3>1. MixedIsEven(S, f, mixed)
      BY MixedStart
    <3> QED BY <1>11, <3>1 DEF MixedIsEven
  <2>3. cur[q] = v.cursor /\ flat[q] = v.flat /\ v.parents = <<>>
    BY <1>11 DEF CursorOf, FlatOf, Ungrouped
  <2>4. PickFrom(v, strategy, Auths) = PickFlat(v, Auths)
    BY <2>3 DEF PickFrom
  <2>5. Position(v.flat, v.cursor, Auths) = i
    <3> DEFINE s == flat[q]
    <3>1. s \in Seq(Auths) /\ s # <<>> /\ w[q] = Len(s) /\ cur[q] \in Nat
      BY <2>1 DEF Flats
    <3> HIDE DEF s
    <3>2. Range(s) \subseteq Auths
      BY <3>1 DEF Range
    <3>3. Position(s, cur[q], Auths) = (cur[q] % Len(s)) + 1
      BY <3>1, <3>2, PositionNext
    <3> QED BY <2>3, <3>1, <3>3 DEF s
  <2>6. pick.auth = flat[q][i] /\ TopOf(R, q).cursor = i
    <3>1. Rolling(v)
      BY <1>3, <1>5, <1>4 DEF TopOf, Tidy, Indexed, Shows
    <3> HIDE DEF i
    <3>2. PickFlat(v, Auths) = [auth |-> v.flat[i], view |-> [v EXCEPT !.cursor = i]]
      BY <2>5 DEF PickFlat
    <3>3. TopOf(R, q) = [v EXCEPT !.cursor = i] /\ pick.auth = v.flat[i]
      BY <1>3, <1>4, <1>7, <2>4, <3>2 DEF TopOf
    <3> HIDE DEF v
    <3> QED BY <2>3, <3>1, <3>3 DEF Rolling, ViewFields
  <2>7. next[q] = i /\ \A p \in P : p # q => next[p] = cur[p]
    BY <1>8, <1>9, <2>6 DEF CursorOf
  <2> HIDE DEF cur, flat, next, w, P
  <2>8. Shared(P, flat, next, w, h, c + 1)
    BY <1>1, <1>2, <2>1, <2>2, <2>6, <2>7, SharedStep
  <2> QED BY <2>8 DEF flat, next
<1>12. MixedIsEven(R, h, pick.mixed)
  BY <1>2, <1>8, <1>10, <1>11 DEF MixedIsEven
<1> QED BY <1>10, <1>12 DEF R

-----------------------------------------------------------------------------
(* Windows, and the steps that leave them alone.                           *)

Single(p, ws) == <<"single", p, ws>>

\* The window is even, at the place where the rotation is.
Turning ==
    /\ served \in [Auths -> Nat] /\ mixed \in Nat /\ DOMAIN shard \subseteq Providers
    /\ \/ turn = NoTurn
       \/ turn = Mixed /\ MixedIsEven(shard, served, mixed)
       \/ \E p \in DOMAIN shard : \E ws :
             turn = Single(p, ws) /\ TopIsEven(shard[p], ws, served)

LEMMA ContestSingle ==
    ASSUME NEW S, NEW p, NEW ws
    PROVE  /\ Single(p, ws) # NoTurn /\ Single(p, ws) # Mixed
           /\ Single(p, ws)[2] = p /\ Single(p, ws)[3] = ws
           /\ Contest(Single(p, ws), S) = IF p \in DOMAIN S THEN TopView(S[p], ws) ELSE <<>>
<1> DEFINE t == Single(p, ws)
<1>1. t # NoTurn
  BY DEF Single, NoTurn
<1>2. t # Mixed
  BY DEF Single, Mixed
<1>3. t[2] = p /\ t[3] = ws
  BY DEF Single
<1> HIDE DEF t
<1>4. Contest(t, S) = IF t[2] \in DOMAIN S THEN TopView(S[t[2]], t[3]) ELSE <<>>
  BY <1>1, <1>2, Zenon DEF Contest
<1>5. Contest(t, S) = IF p \in DOMAIN S THEN TopView(S[p], ws) ELSE <<>>
  BY <1>3, <1>4, Zenon
<1> QED BY <1>1, <1>2, <1>3, <1>5 DEF t

LEMMA FitsAreSet ==
    ASSUME NEW S, NEW M, NEW B, DOMAIN S \subseteq Providers,
           \A p \in DOMAIN S : ShardFits(p, S[p], M, B)
    PROVE  ShardSet(S, M)
BY DEF ShardSet, ShardFits

LEMMA RestartTurns ==
    ASSUME mixed' \in Nat, DOMAIN shard' \subseteq Providers, Restart
    PROVE  Turning'
BY DEF Turning, Restart, NoneServed

\* The window goes on where the shards keep their cursors and, but for one, the
\* places of their credentials.
LEMMA UndisturbedTurns ==
    ASSUME ShardsTidy, Turning, ShardsTidy', DOMAIN shard' = DOMAIN shard, mixed' = mixed, NEW a,
           \A p \in DOMAIN shard :
              /\ KeptShard(shard'[p], shard[p])
              /\ \A x \in DOMAIN shard[p].entries \cap DOMAIN shard'[p].entries :
                    x # a => meta'[x].priority = meta[x].priority /\ meta'[x].ws = meta[x].ws,
           \/ Restart
           \/ Contest(turn, shard') = Contest(turn, shard) /\ UNCHANGED <<turn, served>>
    PROVE  Turning'
<1>1. mixed' \in Nat /\ DOMAIN shard' \subseteq Providers
  BY DEF Turning
<1>2. CASE Restart
  BY <1>1, <1>2, RestartTurns
<1>3. ASSUME Contest(turn, shard') = Contest(turn, shard), UNCHANGED <<turn, served>>
      PROVE  Turning'
  <2>1. /\ served' \in [Auths -> Nat] /\ \A x \in Auths : served[x] \in Nat
        /\ turn' = turn /\ served' = served /\ mixed \in Nat
    BY <1>3 DEF Turning
  <2>2. CASE turn = NoTurn
    BY <1>1, <2>1, <2>2 DEF Turning
  <2>3. ASSUME turn = Mixed, MixedIsEven(shard, served, mixed) PROVE Turning'
    <3>1. ShardSet(shard, meta)
      BY <1>1, FitsAreSet DEF ShardsTidy
    <3>2. ShardSet(shard', meta')
      BY <1>1, FitsAreSet DEF ShardsTidy
    <3>3. MixedIsEven(shard', served, mixed)
      BY <1>3, <2>1, <2>3, <3>1, <3>2, SameMixed
    <3> QED BY <1>1, <2>1, <2>3, <3>3 DEF Turning
  <2>4. ASSUME NEW p \in DOMAIN shard, NEW ws, turn = Single(p, ws),
               TopIsEven(shard[p], ws, served)
        PROVE  Turning'
    <3>1. TopView(shard'[p], ws) = TopView(shard[p], ws)
      <4> DEFINE t == Single(p, ws)
      <4>1. Contest(t, shard) = TopView(shard[p], ws)
        BY ContestSingle
      <4>2. Contest(t, shard') = TopView(shard'[p], ws)
        BY ContestSingle
      <4>3. Contest(t, shard') = Contest(t, shard)
        BY <1>3, <2>4
      <4> QED BY <4>1, <4>2, <4>3
    <3>2. Tidy(shard[p], meta) /\ Tidy(shard'[p], meta')
      BY DEF ShardsTidy, ShardFits
    <3>3. TopIsEven(shard'[p], ws, served)
      BY <2>1, <2>4, <3>1, <3>2, SameTop
    <3>4. \E q \in DOMAIN shard' : \E us :
             turn' = Single(q, us) /\ TopIsEven(shard'[q], us, served')
      BY <2>1, <2>4, <3>3, Zenon
    <3> QED BY <1>1, <2>1, <3>4 DEF Turning
  <2> QED BY <2>2, <2>3, <2>4 DEF Turning
<1> QED BY <1>2, <1>3

LEMMA UpsertStays ==
    ASSUME Known, ShardsTidy, Turning, NEW a \in Auths, NEW b \in setup.blocks,
           NEW m \in setup.metas[a], UpsertAuth(a, m, b), setup' = setup
    PROVE  Turning'
<1> DEFINE M == With(meta, a, m)
<1>1. /\ meta' = M /\ M[a] = m /\ \A x \in DOMAIN meta \ {a} : M[x] = meta[x]
  BY DEF UpsertAuth, With
<1>2. ShardsTidy'
  BY UpsertKeeps
<1>3. b \in Blocks /\ m.priority \in Nat /\ m.parent \in Parents
  BY SetupsAssumption, MetasPlaced DEF Known, Blocks, Times
<1>4. /\ mixed' = mixed /\ DOMAIN shard' = DOMAIN shard
      /\ Restart \/ (Contest(turn, shard') = Contest(turn, shard) /\ UNCHANGED <<turn, served>>)
  BY DEF UpsertAuth, Undisturbed
<1>5. \A p \in DOMAIN shard :
         shard'[p] = CASE p = m.provider /\ m.supported -> UpsertEntry(shard[p], a, M, b)
                       [] p = m.provider /\ ~m.supported -> RemoveEntry(shard[p], a, M)
                       [] p # m.provider /\ Moved(a, m) -> RemoveEntry(shard[p], a, M)
                       [] OTHER -> shard[p]
  BY DEF UpsertAuth
<1> HIDE DEF M
<1>6. ASSUME NEW p \in DOMAIN shard
      PROVE  /\ KeptShard(shard'[p], shard[p])
             /\ \A x \in DOMAIN shard[p].entries \cap DOMAIN shard'[p].entries :
                   x # a => meta'[x].priority = meta[x].priority /\ meta'[x].ws = meta[x].ws
  <2> DEFINE sh == shard[p]
             new == shard'[p]
  <2>1. Tidy(sh, meta) /\ DOMAIN sh.entries \subseteq DOMAIN meta
    BY DEF ShardsTidy, ShardFits
  <2>2. \A x \in DOMAIN sh.entries \ {a} : M[x] = meta[x]
    BY <1>1, <2>1
  <2>3. \/ new = UpsertEntry(sh, a, M, b) \/ new = RemoveEntry(sh, a, M) \/ new = sh
    <3>1. CASE p = m.provider /\ m.supported
      BY <1>5, <3>1
    <3>2. CASE p = m.provider /\ ~m.supported
      BY <1>5, <3>2
    <3>3. CASE p # m.provider /\ Moved(a, m)
      BY <1>5, <3>3
    <3>4. CASE p # m.provider /\ ~Moved(a, m)
      BY <1>5, <3>4
    <3> QED BY <3>1, <3>2, <3>3, <3>4
  <2> HIDE DEF sh, new
  <2>4. KeptShard(UpsertEntry(sh, a, M, b), sh)
    BY <1>1, <1>3, <2>1, <2>2, UpsertTurns
  <2>5. KeptShard(RemoveEntry(sh, a, M), sh)
    BY <2>1, <2>2, RemoveTurns
  <2>6. KeptShard(sh, sh)
    BY KeptItself
  <2>7. KeptShard(new, sh)
    BY <2>3, <2>4, <2>5, <2>6
  <2> QED BY <1>1, <2>2, <2>7 DEF sh, new
<1> QED BY <1>2, <1>4, <1>6, UndisturbedTurns

LEMMA RemoveStays ==
    ASSUME Known, ShardsTidy, Turning, NEW a \in Auths, RemoveAuth(a), setup' = setup
    PROVE  Turning'
<1>1. \A x \in DOMAIN meta \ {a} : meta'[x] = meta[x]
  BY DEF RemoveAuth, Without, Restrict
<1>2. ShardsTidy'
  BY RemoveKeeps
<1>3. /\ mixed' = mixed /\ DOMAIN shard' = DOMAIN shard
      /\ Restart \/ (Contest(turn, shard') = Contest(turn, shard) /\ UNCHANGED <<turn, served>>)
  BY DEF RemoveAuth, Undisturbed
<1>4. ASSUME NEW p \in DOMAIN shard
      PROVE  /\ KeptShard(shard'[p], shard[p])
             /\ \A x \in DOMAIN shard[p].entries \cap DOMAIN shard'[p].entries :
                   x # a => meta'[x].priority = meta[x].priority /\ meta'[x].ws = meta[x].ws
  <2> DEFINE sh == shard[p]
             new == shard'[p]
  <2>1. Tidy(sh, meta) /\ DOMAIN sh.entries \subseteq DOMAIN meta
    BY DEF ShardsTidy, ShardFits
  <2>2. new = RemoveEntry(sh, a, meta)
    BY DEF RemoveAuth
  <2> HIDE DEF sh, new
  <2>3. KeptShard(RemoveEntry(sh, a, meta), sh)
    BY <2>1, RemoveTurns
  <2> QED BY <1>1, <2>1, <2>2, <2>3 DEF sh, new
<1> QED BY <1>2, <1>3, <1>4, UndisturbedTurns

\* What depends only on the indexes of a shard.
LEMMA ReadyDecides ==
    ASSUME NEW sh, NEW new, new.ready = sh.ready
    PROVE  \A ws : /\ HighestReady(new, ws, Auths) = HighestReady(sh, ws, Auths)
                   /\ TopView(new, ws) = TopView(sh, ws)
<1> TAKE ws
<1>1. \A view, E : Matching(new, view, E) = Matching(sh, view, E)
  BY DEF Matching
<1>2. HighestReady(new, ws, Auths) = HighestReady(sh, ws, Auths)
  BY <1>1 DEF HighestReady
<1>3. \A k, E : ViewAt(new, k, ws, E) = ViewAt(sh, k, ws, E)
  BY DEF ViewAt
<1> QED BY <1>2, <1>3 DEF TopView

LEMMA TickStays ==
    ASSUME Known, ShardsTidy, Turning, Tick, setup' = setup
    PROVE  Turning'
<1>1. /\ UNCHANGED <<meta, mixed, turn, served>> /\ DOMAIN shard' = DOMAIN shard
      /\ \A p \in DOMAIN shard : shard'[p] = Later(shard[p])
  BY DEF Tick
<1>2. ShardsTidy'
  BY TickKeeps
<1>3. \A p \in DOMAIN shard : shard'[p].ready = shard[p].ready
  <2> TAKE p \in DOMAIN shard
  <2>1. DOMAIN shard[p] = ShardFields
    BY DEF ShardsTidy, ShardFits, Tidy, Shaped
  <2> QED BY <1>1, <2>1 DEF Later, ShardFields
<1>4. \A p \in DOMAIN shard : \A ws :
         /\ HighestReady(shard'[p], ws, Auths) = HighestReady(shard[p], ws, Auths)
         /\ TopView(shard'[p], ws) = TopView(shard[p], ws)
  BY <1>3, ReadyDecides
<1>5. Best(shard') = Best(shard)
  <2> DEFINE no == FALSE
             H(U) == {HighestReady(U[p], no, Auths) : p \in DOMAIN U}
  <2>1. /\ Best(shard') = Max(H(shard') \cup {NoPriority})
        /\ Best(shard) = Max(H(shard) \cup {NoPriority})
    BY Zenon DEF Best
  <2> HIDE DEF no
  <2>2. H(shard') = H(shard)
    BY <1>1, <1>4
  <2> QED BY <2>1, <2>2
<1>6. Contest(Mixed, shard') = Contest(Mixed, shard)
  <2>1. Contestants(shard') = Contestants(shard)
    BY <1>1, <1>3, <1>5 DEF Contestants
  <2>2. \A p \in Contestants(shard) : TopOf(shard', p) = TopOf(shard, p)
    BY <1>3, <1>5 DEF TopOf, Contestants
  <2> QED BY <1>1, <2>1, <2>2, SameContestants
<1>7. Contest(turn, shard') = Contest(turn, shard)
  <2>1. CASE turn = NoTurn
    <3> DEFINE t == NoTurn
    <3>1. t = NoTurn
      OBVIOUS
    <3>2. t # Mixed
      BY DEF NoTurn, Mixed
    <3> HIDE DEF t
    <3>3. \A S : Contest(t, S) = <<>>
      BY <3>1, <3>2, Zenon DEF Contest
    <3> QED BY <2>1, <3>1, <3>3
  <2>2. CASE turn = Mixed
    BY <1>6, <2>2
  <2>3. ASSUME NEW p \in DOMAIN shard, NEW ws, turn = Single(p, ws)
        PROVE  Contest(turn, shard') = Contest(turn, shard)
    <3> DEFINE t == Single(p, ws)
    <3>1. Contest(t, shard) = TopView(shard[p], ws)
      BY ContestSingle
    <3>2. Contest(t, shard') = TopView(shard'[p], ws)
      BY <1>1, ContestSingle
    <3> QED BY <1>4, <2>3, <3>1, <3>2
  <2> QED BY <2>1, <2>2, <2>3 DEF Turning
<1>8. \A p \in DOMAIN shard : KeptShard(shard'[p], shard[p])
  BY <1>3, KeptItself
<1> QED BY <1>1, <1>2, <1>7, <1>8, UndisturbedTurns

-----------------------------------------------------------------------------
(* The steps that go on with a window, or open one.                        *)

\* A pick counts for the credential, after a window that goes on or after none.
LEMMA PickedCounts ==
    ASSUME served \in [Auths -> Nat], NEW t, NEW a, Picked(t, a)
    PROVE  /\ turn' = t /\ served' \in [Auths -> Nat]
           /\ \E f \in [Auths -> Nat] :
                 /\ OneMore(served', f, Auths, a)
                 /\ \/ Zero(f, Auths)
                    \/ f = served /\ t = turn /\ Contest(t, shard') = Contest(t, shard)
<1>1. /\ turn' = t
      /\ \/ /\ served' = [served EXCEPT ![a] = @ + 1]
            /\ t = turn /\ Contest(t, shard') = Contest(t, shard)
         \/ served' = [NoneServed EXCEPT ![a] = 1]
  BY DEF Picked
<1>2. NoneServed \in [Auths -> Nat] /\ Zero(NoneServed, Auths)
  BY DEF NoneServed, Zero
<1>3. ASSUME served' = [served EXCEPT ![a] = @ + 1]
      PROVE  served' \in [Auths -> Nat] /\ OneMore(served', served, Auths, a)
  <2> DEFINE h == served'
  <2>1. h = [x \in Auths |-> IF x = a THEN served[x] + 1 ELSE served[x]]
    BY <1>3
  <2>2. \A x \in Auths : served[x] \in Nat
    OBVIOUS
  <2> HIDE DEF h
  <2>3. \A x \in Auths : h[x] = IF x = a THEN served[x] + 1 ELSE served[x]
    BY <2>1
  <2>4. \A x \in Auths : h[x] \in Nat
    BY <2>2, <2>3
  <2>5. h \in [Auths -> Nat]
    <3>1. h = [x \in Auths |-> h[x]]
      BY <2>1
    <3> QED BY <2>4, <3>1
  <2> QED BY <2>3, <2>5 DEF OneMore, h
<1>4. ASSUME served' = [NoneServed EXCEPT ![a] = 1]
      PROVE  served' \in [Auths -> Nat] /\ OneMore(served', NoneServed, Auths, a)
  <2> DEFINE h == served'
  <2>1. h = [x \in Auths |-> IF x = a THEN 1 ELSE 0]
    BY <1>4 DEF NoneServed
  <2> HIDE DEF h
  <2>2. \A x \in Auths : h[x] = IF x = a THEN NoneServed[x] + 1 ELSE NoneServed[x]
    BY <2>1 DEF NoneServed
  <2>3. h \in [Auths -> Nat]
    BY <2>1
  <2> QED BY <2>2, <2>3 DEF OneMore, h
<1> QED BY <1>1, <1>2, <1>3, <1>4

LEMMA FirstCounts ==
    ASSUME NEW a
    PROVE  \E f \in [Auths -> Nat] : \E h : Zero(f, Auths) /\ OneMore(h, f, Auths, a)
<1> DEFINE f == NoneServed
           h == [x \in Auths |-> IF x = a THEN 1 ELSE 0]
<1>1. f \in [Auths -> Nat] /\ Zero(f, Auths)
  BY DEF NoneServed, Zero
<1>2. OneMore(h, f, Auths, a)
  BY DEF NoneServed, OneMore
<1> HIDE DEF f, h
<1> QED BY <1>1, <1>2

\* Preparing a shard keeps its cursors.
LEMMA PreparedTurns ==
    ASSUME Known, ShardsTidy
    PROVE  /\ DOMAIN Prepared = providers /\ providers \subseteq Providers
           /\ ShardSet(Prepared, meta)
           /\ \A p \in providers \cap DOMAIN shard : KeptShard(Prepared[p], shard[p])
<1>1. DOMAIN Prepared = providers /\ \A p \in providers : Prepared[p] = EnsureModel(p)
  BY DEF Prepared
<1>2. providers \subseteq Providers
  BY SetupsAssumption DEF Known
<1>3. \A p \in DOMAIN Prepared : ShardFits(p, Prepared[p], meta, block)
  BY <1>1, PreparedFits
<1>4. ShardSet(Prepared, meta)
  BY <1>1, <1>2, <1>3, FitsAreSet
<1>5. ASSUME NEW p \in providers \cap DOMAIN shard PROVE KeptShard(Prepared[p], shard[p])
  <2>1. Prepared[p] = PromoteExpired(shard[p])
    BY <1>1 DEF EnsureModel
  <2>2. Tidy(shard[p], meta) /\ \A a \in DOMAIN shard[p].entries : block[a] \in Blocks
    BY DEF ShardsTidy, ShardFits, Known
  <2> QED BY <2>1, <2>2, PromoteTurns
<1> QED BY <1>1, <1>2, <1>4, <1>5

LEMMA SingleStays ==
    ASSUME Known, ShardsTidy, Turning, NEW p, NEW preferWs, NEW strategy, NEW E,
           RequestSingle(p, preferWs, strategy, E)
    PROVE  Turning'
<1> DEFINE sh == Prepared[p]
           k == HighestReady(sh, preferWs, E)
           here == PickAt(sh, k, preferWs, strategy, E)
           pick == PickSingle(p, Prepared, preferWs, strategy, E)
           t == Single(p, preferWs)
<1>1. /\ shard' = pick.shard /\ mixed' = pick.mixed
      /\ \/ /\ strategy = "round_robin" /\ E = Auths /\ pick.auth # NoAuth
            /\ Picked(t, pick.auth)
         \/ Restart
  BY DEF RequestSingle, Take, Single
<1>2. \/ p \notin providers /\ pick = Nothing(shard)
      \/ p \in providers /\ k = NoPriority /\ pick = Nothing(With(shard, p, sh))
      \/ /\ p \in providers /\ k # NoPriority
         /\ pick = [auth |-> here.auth, shard |-> With(shard, p, here.shard), mixed |-> mixed]
  BY DEF PickSingle
<1>3. /\ DOMAIN Prepared = providers /\ providers \subseteq Providers
      /\ ShardSet(Prepared, meta)
      /\ \A q \in providers \cap DOMAIN shard : KeptShard(Prepared[q], shard[q])
  BY PreparedTurns
<1> HIDE DEF pick, here
<1>4. mixed' \in Nat /\ DOMAIN shard' \subseteq Providers
  BY <1>1, <1>2, <1>3 DEF Nothing, With, Turning
<1>5. CASE Restart
  BY <1>4, <1>5, RestartTurns
<1>6. ASSUME strategy = "round_robin", E = Auths, pick.auth # NoAuth, Picked(t, pick.auth)
      PROVE  Turning'
  <2> DEFINE new == here.shard
             a == here.auth
  <2>1. p \in providers /\ k # NoPriority /\ shard' = With(shard, p, new) /\ pick.auth = a
    BY <1>1, <1>2, <1>6 DEF Nothing
  <2>2. p \in DOMAIN shard' /\ shard'[p] = new
    BY <2>1 DEF With
  <2>3. turn' = t /\ served' \in [Auths -> Nat]
    BY <1>6, PickedCounts DEF Turning
  <2>4. PICK f \in [Auths -> Nat] :
           /\ OneMore(served', f, Auths, a)
           /\ \/ Zero(f, Auths)
              \/ f = served /\ t = turn /\ Contest(t, shard') = Contest(t, shard)
    BY <1>6, <2>1, PickedCounts DEF Turning
  <2>5. k = HighestReady(sh, preferWs, Auths)
    BY <1>6
  <2>6. new = PickAt(sh, k, preferWs, strategy, Auths).shard
    BY <1>6 DEF here
  <2>7. a = PickAt(sh, k, preferWs, strategy, Auths).auth
    BY <1>6 DEF here
  <2> DEFINE h == served'
  <2>8. Tidy(sh, meta) /\ \A x \in Auths : f[x] \in Nat
    BY <1>3, <2>1 DEF ShardSet
  <2>9. OneMore(h, f, Auths, a) /\ strategy # "fill_first"
    BY <1>6, <2>4
  <2> HIDE DEF sh, k, new, a, h
  <2>10. ASSUME Zero(f, Auths) \/ TopIsEven(sh, preferWs, f)
         PROVE  TopIsEven(new, preferWs, h) /\ TopView(new, preferWs) = TopView(sh, preferWs)
    BY <2>10, <2>1, <2>5, <2>6, <2>7, <2>8, <2>9, TopPick
  <2>11. TopView(new, preferWs) = TopView(sh, preferWs)
    <3>1. PICK g \in [Auths -> Nat] : \E c : Zero(g, Auths) /\ OneMore(c, g, Auths, a)
      BY FirstCounts
    <3>2. PICK c : Zero(g, Auths) /\ OneMore(c, g, Auths, a)
      BY <3>1
    <3>3. \A x \in Auths : g[x] \in Nat
      OBVIOUS
    <3> QED BY <2>1, <2>5, <2>6, <2>7, <2>8, <2>9, <3>2, <3>3, TopPick
  <2>12. ASSUME f = served, t = turn, Contest(t, shard') = Contest(t, shard)
         PROVE  TopIsEven(sh, preferWs, f)
    <3> DEFINE old == shard[p]
    <3>1. t # NoTurn /\ t # Mixed
      BY ContestSingle
    <3>2. PICK q \in DOMAIN shard : \E ws : turn = Single(q, ws) /\ TopIsEven(shard[q], ws, served)
      BY <2>12, <3>1 DEF Turning
    <3>3. PICK ws : turn = Single(q, ws) /\ TopIsEven(shard[q], ws, served)
      BY <3>2
    <3>4. q = p /\ ws = preferWs
      <4>1. /\ Single(q, ws)[2] = q /\ Single(p, preferWs)[2] = p
            /\ Single(q, ws)[3] = ws /\ Single(p, preferWs)[3] = preferWs
        BY ContestSingle
      <4> QED BY <2>12, <3>3, <4>1
    <3>5. p \in DOMAIN shard /\ TopIsEven(old, preferWs, f)
      BY <2>12, <3>3, <3>4
    <3>6. Contest(t, shard) = TopView(old, preferWs)
      BY <3>5, ContestSingle
    <3>7. Contest(t, shard') = TopView(new, preferWs)
      BY <2>2, ContestSingle
    <3>8. TopView(sh, preferWs) = TopView(old, preferWs)
      BY <2>11, <2>12, <3>6, <3>7
    <3>9. Tidy(old, meta) /\ KeptShard(sh, old)
      BY <1>3, <2>1, <3>5 DEF ShardsTidy, ShardFits, sh
    <3> HIDE DEF old
    <3> QED BY <2>8, <3>5, <3>8, <3>9, SameTop
  <2>13. TopIsEven(new, preferWs, h)
    BY <2>4, <2>10, <2>12
  <2>14. \E q \in DOMAIN shard' : \E ws :
            turn' = Single(q, ws) /\ TopIsEven(shard'[q], ws, served')
    BY <2>2, <2>3, <2>13, Zenon DEF h
  <2> QED BY <1>4, <2>3, <2>14 DEF Turning
<1> QED BY <1>1, <1>5, <1>6

LEMMA MixedStays ==
    ASSUME Known, ShardsTidy, Turning, NEW strategy, NEW E, RequestMixed(strategy, E),
           setup' = setup
    PROVE  Turning'
<1> DEFINE S == Prepared
           pick == PickMixed(S, strategy, E)
<1>1. /\ shard' = pick.shard /\ mixed' = pick.mixed /\ meta' = meta /\ providers' = providers
      /\ \/ /\ strategy = "round_robin" /\ E = Auths /\ pick.auth # NoAuth
            /\ Picked(Mixed, pick.auth)
         \/ Restart
  BY DEF RequestMixed, Take
<1>2. /\ DOMAIN S = providers /\ providers \subseteq Providers /\ ShardSet(S, meta)
      /\ \A q \in providers \cap DOMAIN shard : KeptShard(S[q], shard[q])
  BY PreparedTurns
<1>3. mixed \in Nat /\ \A p \in providers : Tidy(S[p], meta)
  BY <1>2 DEF Turning, ShardSet
<1>4. pick = PickMixed(S, strategy, E)
  OBVIOUS
<1> HIDE DEF S, pick
<1>5. mixed' \in Nat
  BY <1>1, <1>2, <1>3, <1>4, MixedCounts
<1>6. DOMAIN shard' \subseteq Providers
  <2>1. MixedChoice(pick, S, strategy, E)
    BY <1>2, <1>3, <1>4, MixedFits
  <2>2. pick.shard = S \/ \E q \in providers : \E new : pick.shard = [S EXCEPT ![q] = new]
    BY <2>1, Zenon DEF MixedChoice
  <2> QED BY <1>1, <1>2, <2>2
<1>7. CASE Restart
  BY <1>5, <1>6, <1>7, RestartTurns
<1>8. ASSUME strategy = "round_robin", E = Auths, pick.auth # NoAuth, Picked(Mixed, pick.auth)
      PROVE  Turning'
  <2> DEFINE a == pick.auth
             h == served'
  <2>1. MixedTurn(pick, S, strategy)
    BY <1>2, <1>3, <1>4, <1>8, MixedTurns
  <2>2. turn' = Mixed /\ h \in [Auths -> Nat]
    BY <1>8, PickedCounts DEF Turning
  <2>3. PICK f \in [Auths -> Nat] :
           /\ OneMore(h, f, Auths, a)
           /\ \/ Zero(f, Auths)
              \/ f = served /\ Mixed = turn /\ Contest(Mixed, shard') = Contest(Mixed, shard)
    BY <1>8, PickedCounts DEF Turning
  <2> HIDE DEF h
  <2>4. \A x \in Auths : f[x] \in Nat
    OBVIOUS
  <2>5. ASSUME Zero(f, Auths) \/ MixedIsEven(S, f, mixed)
        PROVE  MixedIsEven(pick.shard, h, pick.mixed)
    BY <1>2, <1>3, <1>8, <2>1, <2>3, <2>4, <2>5, MixedPick
  <2>6. Contest(Mixed, pick.shard) = Contest(Mixed, S)
    <3>1. PICK g \in [Auths -> Nat] : \E c : Zero(g, Auths) /\ OneMore(c, g, Auths, a)
      BY FirstCounts
    <3>2. PICK c : Zero(g, Auths) /\ OneMore(c, g, Auths, a)
      BY <3>1
    <3>3. \A x \in Auths : g[x] \in Nat
      OBVIOUS
    <3> QED BY <1>2, <1>3, <1>8, <2>1, <3>2, <3>3, MixedPick
  <2>7. ASSUME f = served, Mixed = turn, Contest(Mixed, shard') = Contest(Mixed, shard)
        PROVE  MixedIsEven(S, f, mixed)
    <3>1. MixedIsEven(shard, f, mixed)
      <4>1. turn # NoTurn
        BY <2>7 DEF Mixed, NoTurn
      <4>2. \A p, ws : Single(p, ws) # Mixed
        BY ContestSingle
      <4> QED BY <2>7, <4>1, <4>2 DEF Turning
    <3>2. Contest(Mixed, S) = Contest(Mixed, shard)
      BY <1>1, <2>6, <2>7
    <3>3. DOMAIN S = DOMAIN shard
      BY <3>2, SameContest
    <3>4. ShardSet(shard, meta)
      BY FitsAreSet DEF Turning, ShardsTidy
    <3>5. \A p \in DOMAIN shard \cap DOMAIN S :
             /\ KeptShard(S[p], shard[p])
             /\ \A x \in DOMAIN shard[p].entries \cap DOMAIN S[p].entries :
                   x # a => meta[x].priority = meta[x].priority
      BY <1>2
    <3> QED BY <1>2, <1>3, <2>4, <3>1, <3>2, <3>4, <3>5, SameMixed
  <2>8. MixedIsEven(shard', served', mixed')
    BY <1>1, <2>3, <2>5, <2>7 DEF h
  <2> QED BY <1>5, <1>6, <2>2, <2>8 DEF Turning, h
<1> QED BY <1>1, <1>7, <1>8

LEMMA StepStays ==
    ASSUME Known, ShardsTidy, Turning, [SchedulerNext]_schedulerVars
    PROVE  Turning'
<1>1. CASE UNCHANGED schedulerVars
  BY <1>1 DEF schedulerVars, state, Turning
<1>2. CASE SchedulerNext
  <2>1. setup' = setup
    BY <1>2 DEF SchedulerNext
  <2>2. ASSUME NEW a \in Auths, NEW b \in setup.blocks, NEW m \in setup.metas[a],
               UpsertAuth(a, m, b)
        PROVE  Turning'
    BY <2>1, <2>2, UpsertStays
  <2>3. ASSUME NEW a \in Auths, RemoveAuth(a) PROVE Turning'
    BY <2>1, <2>3, RemoveStays
  <2>4. ASSUME Rebuild PROVE Turning'
    BY <2>4, RestartTurns DEF Rebuild
  <2>5. ASSUME SetSelector PROVE Turning'
    BY <2>5, RestartTurns DEF SetSelector, Turning
  <2>6. ASSUME NEW p, NEW preferWs, NEW s, NEW E, RequestSingle(p, preferWs, s, E)
        PROVE  Turning'
    BY <2>6, SingleStays
  <2>7. ASSUME NEW s, NEW E, RequestMixed(s, E) PROVE Turning'
    BY <2>1, <2>7, MixedStays
  <2>8. ASSUME Tick PROVE Turning'
    BY <2>1, <2>8, TickStays
  <2> QED BY <1>2, <2>2, <2>3, <2>4, <2>5, <2>6, <2>7, <2>8, Zenon DEF SchedulerNext
<1> QED BY <1>1, <1>2

-----------------------------------------------------------------------------
(* What turns is even.                                                     *)

EvenTop(sh, ws) ==
    LET k == HighestReady(sh, ws, Auths)
        v == sh.ready[k][ViewAt(sh, k, ws, Auths)]
    IN  IF k = NoPriority THEN TRUE
        ELSE IF v.parents = <<>> THEN EvenOver(Range(v.flat))
        ELSE /\ \A g \in DOMAIN v.items : EvenOver(Range(v.items[g]))
             /\ \A g, h \in DOMAIN v.items :
                  Sum(Range(v.items[g])) <= Sum(Range(v.items[h])) + 1
EvenMixed ==
    LET S == [p \in DOMAIN shard |->
                IF Best(shard) \in DOMAIN shard[p].ready
                THEN shard[p].ready[Best(shard)].all ELSE BuildView({}, meta)]
    IN  (\A p \in DOMAIN S : S[p].parents = <<>>) =>
          EvenOver(UNION {Range(S[p].flat) : p \in DOMAIN S})

LEMMA RotationParts ==
    ASSUME turn = NoTurn \/ (turn = Mixed /\ EvenMixed)
             \/ (turn # NoTurn /\ turn # Mixed /\ EvenTop(shard[turn[2]], turn[3]))
    PROVE  RotationIsEven
<1>1. Mixed # NoTurn
  BY DEF Mixed, NoTurn
<1>2. CASE turn = NoTurn
  BY <1>1, <1>2, Zenon DEF RotationIsEven
<1>3. CASE turn = Mixed /\ EvenMixed
  BY <1>1, <1>3, Zenon DEF RotationIsEven, EvenMixed
<1>4. CASE turn # NoTurn /\ turn # Mixed /\ EvenTop(shard[turn[2]], turn[3])
  BY <1>1, <1>4, Zenon DEF RotationIsEven, EvenTop
<1> QED BY <1>2, <1>3, <1>4

LEMMA TurnsAreEven ==
    ASSUME NEW T, NEW s \in Seq(T), NEW cursor, Turned(served, s, cursor)
    PROVE  EvenOver(Range(s))
<1>1. \A x, y \in Range(s) : served[x] <= served[y] + 1
  BY TurnedEven
<1> QED BY <1>1 DEF EvenOver

LEMMA TopTurnsEven ==
    ASSUME NEW sh, NEW M, Tidy(sh, M), NEW ws, TopIsEven(sh, ws, served)
    PROVE  EvenTop(sh, ws)
<1> DEFINE k == HighestReady(sh, ws, Auths)
           view == ViewAt(sh, k, ws, Auths)
           v == sh.ready[k][view]
           S == Shown(sh, M, k, view)
<1>1. CASE k = NoPriority
  BY <1>1, Zenon DEF EvenTop
<1>2. CASE k # NoPriority
  <2>1. EvenView(v, served)
    BY <1>2 DEF TopIsEven
  <2>2. Listing(v, S, M)
    BY <1>2, TopIs DEF TopShows
  <2> HIDE DEF v, S
  <2>3. CASE v.parents = <<>>
    <3>1. v.flat \in Seq(S) /\ Turned(served, v.flat, v.cursor)
      BY <2>1, <2>2, <2>3 DEF Listing, EvenView
    <3>2. EvenOver(Range(v.flat))
      BY <3>1, TurnsAreEven
    <3> QED BY <1>2, <2>3, <3>2, Zenon DEF EvenTop, v
  <2>4. CASE v.parents # <<>>
    <3>1. ASSUME NEW g \in DOMAIN v.items PROVE EvenOver(Range(v.items[g]))
      <4>1. v.items[g] \in Seq(S) /\ Turned(served, v.items[g], v.itemCursor[g])
        BY <2>1, <2>2, <2>4 DEF Listing, EvenView
      <4> QED BY <4>1, TurnsAreEven
    <3>2. ASSUME NEW g \in DOMAIN v.items, NEW h \in DOMAIN v.items
          PROVE  Sum(Range(v.items[g])) <= Sum(Range(v.items[h])) + 1
      <4> DEFINE f == Visits(v, served)
                 s == v.parents
                 D == DOMAIN v.items
      <4>1. s \in Seq(D) /\ Range(s) = D /\ Turned(f, s, v.parentCursor)
        BY <2>1, <2>2, <2>4 DEF Listing, EvenView
      <4>2. f[g] = Sum(Range(v.items[g])) /\ f[h] = Sum(Range(v.items[h]))
        BY DEF Visits, Sum
      <4> HIDE DEF f, s
      <4>3. \A x, y \in Range(s) : f[x] <= f[y] + 1
        BY <4>1, TurnedEven
      <4> QED BY <4>1, <4>2, <4>3
    <3> QED BY <1>2, <2>4, <3>1, <3>2, Zenon DEF EvenTop, v
  <2> QED BY <2>3, <2>4
<1> QED BY <1>1, <1>2

LEMMA MixedTurnsEven ==
    ASSUME ShardSet(shard, meta), MixedIsEven(shard, served, mixed)
    PROVE  EvenMixed
<1> DEFINE S == [p \in DOMAIN shard |->
                   IF Best(shard) \in DOMAIN shard[p].ready
                   THEN shard[p].ready[Best(shard)].all ELSE BuildView({}, meta)]
<1>1. \A p \in Contestants(shard) : p \in DOMAIN S /\ S[p] = TopOf(shard, p)
  BY DEF Contestants, TopOf
<1>2. \A p \in DOMAIN S \ Contestants(shard) : S[p] = BuildView({}, meta)
  BY DEF Contestants
<1>3. BuildView({}, meta).flat = InOrder({})
  BY DEF BuildView
<1>4. Range(InOrder({})) = {}
  <2> DEFINE none == {}
  <2>1. none \in SUBSET Nat /\ IsFiniteSet(none)
    BY FS_EmptySet
  <2> HIDE DEF none
  <2>2. Range(InOrder(none)) = none
    BY <2>1, InOrderLists
  <2> QED BY <2>2 DEF none
<1>5. EvenMixed <=> ((\A p \in DOMAIN S : S[p].parents = <<>>) =>
                        EvenOver(UNION {Range(S[p].flat) : p \in DOMAIN S}))
  BY Zenon DEF EvenMixed
<1> HIDE DEF S
<1>6. ASSUME \A p \in DOMAIN S : S[p].parents = <<>>
      PROVE  EvenOver(UNION {Range(S[p].flat) : p \in DOMAIN S})
  <2>1. Ungrouped(shard)
    BY <1>1, <1>6 DEF Ungrouped
  <2>2. \A p, q \in Contestants(shard) :
           \A x \in Range(TopOf(shard, p).flat), y \in Range(TopOf(shard, q).flat) :
              served[x] <= served[y] + 1
    BY <2>1, MixedEven
  <2>3. \A p \in DOMAIN S : \A x \in Range(S[p].flat) :
           p \in Contestants(shard) /\ x \in Range(TopOf(shard, p).flat)
    BY <1>1, <1>2, <1>3, <1>4
  <2>4. \A x, y \in UNION {Range(S[p].flat) : p \in DOMAIN S} : served[x] <= served[y] + 1
    BY <2>2, <2>3
  <2> QED BY <2>4 DEF EvenOver
<1> QED BY <1>5, <1>6

LEMMA TurningEven == ASSUME ShardsTidy, Turning PROVE RotationIsEven
<1>1. CASE turn = NoTurn
  BY <1>1, RotationParts
<1>2. ASSUME turn = Mixed, MixedIsEven(shard, served, mixed) PROVE RotationIsEven
  <2>1. ShardSet(shard, meta)
    BY FitsAreSet DEF Turning, ShardsTidy
  <2> QED BY <1>2, <2>1, MixedTurnsEven, RotationParts
<1>3. ASSUME NEW p \in DOMAIN shard, NEW ws, turn = Single(p, ws),
             TopIsEven(shard[p], ws, served)
      PROVE  RotationIsEven
  <2>1. turn # NoTurn /\ turn # Mixed /\ turn[2] = p /\ turn[3] = ws
    BY <1>3, ContestSingle
  <2>2. Tidy(shard[p], meta)
    BY DEF ShardsTidy, ShardFits
  <2>3. EvenTop(shard[p], ws)
    BY <1>3, <2>2, TopTurnsEven
  <2> QED BY <2>1, <2>3, RotationParts, Zenon
<1> QED BY <1>1, <1>2, <1>3 DEF Turning

\* As long as a run of unrestricted picks of one kind goes over the same views,
\* round robin is even: no credential is a turn behind another, with parents no
\* parent behind another and no credential behind those of its parent, and over
\* several providers none behind any of the others. The cursors live through
\* every rebuild of the indexes, promotion, upsert and removal that leaves what
\* they go over as it was (scheduler.go, pickRoundRobin, pickGroupedRoundRobin,
\* restoreReadyView and pickMixed).
THEOREM RotationStaysEven == SchedulerSpec => []RotationIsEven
<1>1. SchedulerInit => Known /\ ShardsTidy /\ Turning
  BY DEF SchedulerInit, Known, ShardsTidy, Turning, NoneServed
<1>2. Known /\ ShardsTidy /\ Turning /\ [SchedulerNext]_schedulerVars
        => (Known /\ ShardsTidy /\ Turning)'
  BY StepKeeps, StepStays
<1>3. Known /\ ShardsTidy /\ Turning => RotationIsEven
  BY TurningEven
<1> QED BY <1>1, <1>2, <1>3, PTL DEF SchedulerSpec

-----------------------------------------------------------------------------
(* The relay: types.                                                       *)

Places == {"idle", "store", "load", "check", "write", "undo", "wait", "done"}
Outcomes == {"none", "ok", "failed", "ctx"}
CallerRecord ==
    [pc : Places, collects : BOOLEAN, streams : BOOLEAN, got : Nat, outcome : Outcomes]
ChanRecord == [queue : Seq(MessageTypes), closed : BOOLEAN]
CleanerRecord ==
    [pc : {"idle", "range", "visit", "close", "hangup", "done"},
     id : Requests \cup {NoRequest}, keys : SUBSET Requests, seen : SUBSET Requests]

\* TypeOK in the parts an action disturbs.
FlagTypes == {listed, closed, conn} \subseteq BOOLEAN
SetTypes == pending \subseteq Requests /\ canceled \subseteq Requests /\ lost \subseteq Requests
ChanTypes == /\ chan \in [Requests -> ChanRecord]
             /\ \A r \in Requests : Len(chan[r].queue) <= Buffer
ReaderTypes ==
    /\ \/ reader = Reading
       \/ reader \in [pc : {"send", "delete", "off"}, id : Requests \cup {NoRequest},
                      msg : MessageTypes \cup {"none"}]
    /\ reader.pc \in {"send", "delete"} => reader.id \in Requests /\ reader.msg \in MessageTypes
CleanerTypes == /\ cleaner \in CleanerRecord
                /\ cleaner.pc \in {"visit", "close"} => cleaner.id \in Requests
CallerTypes == caller \in [Requests -> CallerRecord]
WatchTypes == watch \in [Requests -> {"on", "off"}]
ClientTypes ==
    client \in [Requests -> [phase : {"none", "asked", "streams", "ended"}, sent : Nat]]
PanicTypes == panic \in {"none", "send", "missing"}

\* Before its caller has looked at s.closed a request is where it was stored,
\* unless its channel is closed or cleanup has begun.
Unwritten ==
    \A r \in Requests :
        caller[r].pc \in {"load", "check"} /\ ~closed => r \in pending \/ chan[r].closed

\* Of those that have looked, cleanup visits all whose channels are open.
Listed ==
    \A r \in Requests :
        (closed /\ caller[r].pc \in {"write", "wait"}
            /\ cleaner.pc \in {"range", "visit", "close"})
          => r \in cleaner.keys \/ chan[r].closed

\* Whom cleanup has visited has a closed channel, but for the last one.
Visited ==
    \A r \in cleaner.seen :
        chan[r].closed \/ (cleaner.pc \in {"visit", "close"} /\ cleaner.id = r)

Begun == /\ closed <=> cleaner.pc # "idle"
         /\ cleaner.pc = "idle" => cleaner.seen = {}

\* No open channel that a caller waits on is left out.
Links == Unwritten /\ OpenIsPending /\ Listed /\ Visited /\ Begun

IInv == TypeOK /\ Links

-----------------------------------------------------------------------------
(* The parts of TypeOK, and what the operators on records do.              *)

LEMMA TypeParts ==
    TypeOK <=> /\ FlagTypes /\ SetTypes /\ ChanTypes /\ ReaderTypes /\ CleanerTypes
               /\ CallerTypes /\ WatchTypes /\ ClientTypes /\ PanicTypes
BY DEF TypeOK, FlagTypes, SetTypes, ChanTypes, ReaderTypes, CleanerTypes, CallerTypes,
       WatchTypes, ClientTypes, PanicTypes, CallerRecord, ChanRecord, CleanerRecord,
       Places, Outcomes

LEMMA TypePartsNext ==
    TypeOK' <=> /\ FlagTypes' /\ SetTypes' /\ ChanTypes' /\ ReaderTypes' /\ CleanerTypes'
                /\ CallerTypes' /\ WatchTypes' /\ ClientTypes' /\ PanicTypes'
BY TypeParts, PTL

LEMMA SeenAreRequests == CleanerTypes => cleaner.seen \subseteq Requests
BY DEF CleanerTypes, CleanerRecord

\* The callers but r are where they were.
Others(r) == \A s \in Requests : s # r => caller'[s] = caller[s]

LEMMA GotoStep ==
    ASSUME CallerTypes, NEW r \in Requests, NEW pc \in Places, Goto(r, pc)
    PROVE  CallerTypes' /\ caller'[r].pc = pc /\ Others(r)
BY DEF CallerTypes, CallerRecord, Goto, Others

LEMMA ReturnStep ==
    ASSUME CallerTypes, NEW r \in Requests, NEW o \in Outcomes, Return(r, o)
    PROVE  CallerTypes' /\ caller'[r].pc = "done" /\ Others(r)
BY DEF CallerTypes, CallerRecord, Return, Others, Places

\* A channel has other messages.
LEMMA QueueStep ==
    ASSUME ChanTypes, NEW r \in Requests, NEW q \in Seq(MessageTypes), Len(q) <= Buffer,
           chan' = [chan EXCEPT ![r].queue = q]
    PROVE  ChanTypes' /\ \A s \in Requests : chan'[s].closed = chan[s].closed
<1>1. \A s \in Requests : chan[s] \in ChanRecord
  BY DEF ChanTypes
<1>2. \A s \in Requests : chan'[s] = IF s = r THEN [chan[r] EXCEPT !.queue = q] ELSE chan[s]
  BY DEF ChanTypes
<1>3. chan'[r].queue = q /\ chan'[r].closed = chan[r].closed /\ chan'[r] \in ChanRecord
  BY <1>1, <1>2 DEF ChanRecord
<1>4. chan' \in [Requests -> ChanRecord]
  BY <1>1, <1>2, <1>3 DEF ChanTypes
<1> QED BY <1>2, <1>3, <1>4 DEF ChanTypes

\* Nobody's channel opens, and only that of r may close.
Closing(r) ==
    /\ \A s \in Requests : chan[s].closed => chan'[s].closed
    /\ \A s \in Requests : s # r => chan'[s] = chan[s]

LEMMA CloseStep ==
    ASSUME ChanTypes, NEW r \in Requests, Close(r)
    PROVE  ChanTypes' /\ Closing(r) /\ chan'[r].closed
BY DEF ChanTypes, ChanRecord, Close, Closing

LEMMA CloseIfPendingStep ==
    ASSUME ChanTypes, SetTypes, NEW r \in Requests, CloseIfPending(r), UNCHANGED <<canceled,
        lost>>
    PROVE  /\ ChanTypes' /\ SetTypes' /\ Closing(r) /\ pending' \subseteq pending
           /\ \A s \in pending : s \in pending' \/ chan'[s].closed
<1>1. CASE r \in pending
  BY <1>1, CloseStep DEF CloseIfPending, SetTypes
<1>2. CASE r \notin pending
  BY <1>2 DEF CloseIfPending, SetTypes, ChanTypes, Closing
<1> QED BY <1>1, <1>2

LEMMA OfferStep ==
    ASSUME ChanTypes, SetTypes, PanicTypes, NEW r \in Requests, NEW m \in MessageTypes,
           Offer(r, m), UNCHANGED <<canceled, pending>>
    PROVE  /\ ChanTypes' /\ SetTypes' /\ PanicTypes'
           /\ \A s \in Requests : chan'[s].closed = chan[s].closed
<1>1. CASE chan[r].closed
  BY <1>1 DEF Offer, ChanTypes, SetTypes, PanicTypes
<1>2. CASE ~chan[r].closed /\ Len(chan[r].queue) < Buffer
  <2>1. chan' = [chan EXCEPT ![r].queue = Append(@, m)] /\ UNCHANGED <<lost, panic>>
    BY <1>2 DEF Offer
  <2>2. chan[r].queue \in Seq(MessageTypes)
    BY DEF ChanTypes, ChanRecord
  <2>3. /\ Append(chan[r].queue, m) \in Seq(MessageTypes)
        /\ Len(Append(chan[r].queue, m)) = Len(chan[r].queue) + 1
    BY <2>2
  <2>4. Len(Append(chan[r].queue, m)) <= Buffer
    BY <1>2, <2>2, <2>3, RelayAssumption
  <2>5. \A q \in Seq(MessageTypes) :
          Len(q) <= Buffer /\ chan' = [chan EXCEPT ![r].queue = q]
            => ChanTypes' /\ \A s \in Requests : chan'[s].closed = chan[s].closed
    BY QueueStep
  <2>6. chan' = [chan EXCEPT ![r].queue = Append(chan[r].queue, m)]
    BY <2>1
  <2>7. ChanTypes' /\ \A s \in Requests : chan'[s].closed = chan[s].closed
    BY <2>3, <2>4, <2>5, <2>6
  <2> QED BY <2>1, <2>7 DEF SetTypes, PanicTypes
<1>3. CASE ~chan[r].closed /\ ~(Len(chan[r].queue) < Buffer)
  BY <1>3 DEF Offer, ChanTypes, SetTypes, PanicTypes
<1> QED BY <1>1, <1>2, <1>3

LEMMA StartCleanupStep ==
    ASSUME FlagTypes, SetTypes, CleanerTypes, StartCleanup, UNCHANGED conn,
           listed' \in BOOLEAN
    PROVE  /\ FlagTypes' /\ CleanerTypes'
           /\ closed' /\ cleaner'.pc = "range" /\ cleaner'.keys = pending
           /\ cleaner'.seen = cleaner.seen
BY DEF FlagTypes, SetTypes, CleanerTypes, CleanerRecord, StartCleanup

-----------------------------------------------------------------------------
\* The inductive invariant holds at the start ...
LEMMA InitIInv == Init => IInv
<1> SUFFICES ASSUME Init PROVE IInv
  OBVIOUS
<1> USE RelayAssumption DEF Init
<1>1. ChanTypes
  BY DEF ChanTypes, ChanRecord
<1>2. PICK c \in [Requests -> BOOLEAN] :
        caller = [r \in Requests |-> [pc |-> "idle", collects |-> c[r], streams |-> FALSE,
                                     got |-> 0, outcome |-> "none"]]
  <2>1. \A r \in Requests : \E b \in BOOLEAN :
          caller[r] = [pc |-> "idle", collects |-> b, streams |-> FALSE, got |-> 0,
                       outcome |-> "none"]
    OBVIOUS
  <2> DEFINE f == [r \in Requests |-> caller[r].collects]
  <2>2. f \in [Requests -> BOOLEAN]
    BY <2>1
  <2>3. DOMAIN caller = Requests /\ caller = [r \in Requests |-> caller[r]]
    OBVIOUS
  <2>4. caller = [r \in Requests |-> [pc |-> "idle", collects |-> f[r], streams |-> FALSE,
                                     got |-> 0, outcome |-> "none"]]
    BY <2>1, <2>3
  <2> QED BY <2>2, <2>4
<1>3. CallerTypes
  BY <1>2 DEF CallerTypes, CallerRecord, Places, Outcomes
<1>4. FlagTypes /\ SetTypes /\ WatchTypes /\ ClientTypes /\ PanicTypes
  <2>1. FlagTypes
    BY DEF FlagTypes
  <2>2. SetTypes
    BY DEF SetTypes
  <2>3. WatchTypes /\ ClientTypes /\ PanicTypes
    BY DEF WatchTypes, ClientTypes, PanicTypes
  <2> QED BY <2>1, <2>2, <2>3
<1>6. ReaderTypes
  BY DEF ReaderTypes, Reading
<1>7. CleanerTypes
  BY DEF CleanerTypes, CleanerRecord
<1>5. Links
  BY <1>2 DEF Links, Unwritten, OpenIsPending, Listed, Visited, Begun
<1> QED BY <1>1, <1>3, <1>4, <1>5, <1>6, <1>7, TypeParts DEF IInv

-----------------------------------------------------------------------------
(* One lemma for each action.                                              *)

LEMMA SendStep == ASSUME IInv, NEW r \in Requests, Send(r) PROVE IInv'
<1> USE DEF IInv, Send, session
<1>1. CallerTypes' /\ caller'[r].pc \in {"store", "done"} /\ Others(r)
  BY TypeParts, GotoStep, ReturnStep DEF Places, Outcomes
<1>2. (FlagTypes /\ SetTypes /\ ChanTypes /\ ReaderTypes /\ CleanerTypes /\ WatchTypes
    /\ ClientTypes /\ PanicTypes)'
  BY TypeParts DEF FlagTypes, SetTypes, ChanTypes, ReaderTypes, CleanerTypes, WatchTypes,
      ClientTypes, PanicTypes
<1>3. Links'
  BY <1>1, TypeParts DEF Links, Unwritten, OpenIsPending, Listed, Visited, Begun, Others
<1> QED BY <1>1, <1>2, <1>3, TypePartsNext

LEMMA StoreStep == ASSUME IInv, NEW r \in Requests, Store(r) PROVE IInv'
<1> USE DEF IInv, Store, session
<1>1. CallerTypes' /\ caller'[r].pc = "load" /\ Others(r)
  BY TypeParts, GotoStep DEF Places
<1>2. SetTypes'
  BY TypeParts DEF SetTypes
<1>3. (FlagTypes /\ ChanTypes /\ ReaderTypes /\ CleanerTypes /\ WatchTypes /\ ClientTypes
    /\ PanicTypes)'
  BY TypeParts DEF FlagTypes, ChanTypes, ReaderTypes, CleanerTypes, WatchTypes, ClientTypes,
      PanicTypes
<1>4. Links'
  BY <1>1, <1>2, TypeParts DEF Links, Unwritten, OpenIsPending, Listed, Visited, Begun, Others
<1> QED BY <1>1, <1>2, <1>3, <1>4, TypePartsNext

LEMMA LoadStep == ASSUME IInv, NEW r \in Requests, Load(r) PROVE IInv'
<1> USE DEF IInv, Load, session
<1>1. CallerTypes' /\ Others(r) /\ caller'[r].pc \in {"load", "check"}
  <2>1. CASE Goto(r, "check")
    BY <2>1, TypeParts, GotoStep DEF Places
  <2>2. CASE UNCHANGED caller
    BY <2>2, TypeParts DEF CallerTypes, Others
  <2> QED BY <2>1, <2>2
<1>2. PanicTypes'
  BY TypeParts DEF PanicTypes
<1>3. (FlagTypes /\ SetTypes /\ ChanTypes /\ ReaderTypes /\ CleanerTypes /\ WatchTypes
    /\ ClientTypes)'
  BY TypeParts DEF FlagTypes, SetTypes, ChanTypes, ReaderTypes, CleanerTypes, WatchTypes,
      ClientTypes
<1>4. Links'
  BY <1>1, <1>2, TypeParts DEF Links, Unwritten, OpenIsPending, Listed, Visited, Begun, Others
<1> QED BY <1>1, <1>2, <1>3, <1>4, TypePartsNext

LEMMA CheckClosedStep == ASSUME IInv, NEW r \in Requests, CheckClosed(r) PROVE IInv'
<1> USE DEF IInv, CheckClosed, session
<1>1. CallerTypes' /\ Others(r) /\ caller'[r].pc = (IF closed THEN "undo" ELSE "write")
  BY TypeParts, GotoStep DEF Places
<1>2. (FlagTypes /\ SetTypes /\ ChanTypes /\ ReaderTypes /\ CleanerTypes /\ WatchTypes
    /\ ClientTypes /\ PanicTypes)'
  BY TypeParts DEF FlagTypes, SetTypes, ChanTypes, ReaderTypes, CleanerTypes, WatchTypes,
      ClientTypes, PanicTypes
<1>3. Links'
  BY <1>1, TypeParts DEF Links, Unwritten, OpenIsPending, Listed, Visited, Begun, Others
<1> QED BY <1>1, <1>2, <1>3, TypePartsNext

LEMMA WriteStep == ASSUME IInv, NEW r \in Requests, Write(r) PROVE IInv'
<1> USE DEF IInv, Write, session
<1>1. CallerTypes' /\ caller'[r].pc \in {"wait", "undo"} /\ Others(r)
  BY TypeParts, GotoStep DEF Places
<1>2. WatchTypes' /\ ClientTypes'
  BY TypeParts DEF WatchTypes, ClientTypes
<1>3. (FlagTypes /\ SetTypes /\ ChanTypes /\ ReaderTypes /\ CleanerTypes /\ PanicTypes)'
  BY TypeParts DEF FlagTypes, SetTypes, ChanTypes, ReaderTypes, CleanerTypes, PanicTypes
<1>4. Links'
  BY <1>1, <1>2, TypeParts DEF Links, Unwritten, OpenIsPending, Listed, Visited, Begun, Others
<1> QED BY <1>1, <1>2, <1>3, <1>4, TypePartsNext

LEMMA UndoStep == ASSUME IInv, NEW r \in Requests, Undo(r) PROVE IInv'
<1> USE DEF IInv, Undo, session
<1>1. CallerTypes' /\ caller'[r].pc = "done" /\ Others(r)
  BY TypeParts, ReturnStep DEF Outcomes
<1>2. ChanTypes' /\ SetTypes' /\ Closing(r)
        /\ \A s \in pending : s \in pending' \/ chan'[s].closed
  BY TypeParts, CloseIfPendingStep
<1>3. (FlagTypes /\ ReaderTypes /\ CleanerTypes /\ WatchTypes /\ ClientTypes /\ PanicTypes)'
  BY TypeParts DEF FlagTypes, ReaderTypes, CleanerTypes, WatchTypes, ClientTypes, PanicTypes
<1>4. Links'
  BY <1>1, <1>2, TypeParts, SeenAreRequests DEF Links, Unwritten, OpenIsPending, Listed,
      Visited, Begun, Others, Closing, SetTypes
<1> QED BY <1>1, <1>2, <1>3, <1>4, TypePartsNext

LEMMA WatchStep == ASSUME IInv, NEW r \in Requests, Watch(r) PROVE IInv'
<1> USE DEF IInv, Watch, session
<1>1. WatchTypes'
  BY TypeParts DEF WatchTypes
<1>2. ChanTypes' /\ SetTypes' /\ Closing(r)
        /\ \A s \in pending : s \in pending' \/ chan'[s].closed
  <2>1. CASE CloseIfPending(r)
    BY <2>1, TypeParts, CloseIfPendingStep
  <2>2. CASE UNCHANGED <<chan, pending>>
    BY <2>2, TypeParts DEF ChanTypes, SetTypes, Closing
  <2> QED BY <2>1, <2>2
<1>3. (FlagTypes /\ ReaderTypes /\ CleanerTypes /\ CallerTypes /\ ClientTypes /\ PanicTypes)'
  BY TypeParts DEF FlagTypes, ReaderTypes, CleanerTypes, CallerTypes, ClientTypes, PanicTypes
<1>4. Links'
  BY <1>1, <1>2, TypeParts, SeenAreRequests DEF Links, Unwritten, OpenIsPending, Listed,
      Visited, Begun, Closing, SetTypes
<1> QED BY <1>1, <1>2, <1>3, <1>4, TypePartsNext

LEMMA ReceiveStep == ASSUME IInv, NEW r \in Requests, Receive(r) PROVE IInv'
<1> USE DEF IInv, Receive, session
<1>1. chan[r].queue \in Seq(MessageTypes) /\ chan[r].queue # <<>>
  BY TypeParts DEF ChanTypes, ChanRecord
<1>2. /\ Head(chan[r].queue) \in MessageTypes /\ Tail(chan[r].queue) \in Seq(MessageTypes)
      /\ Len(Tail(chan[r].queue)) = Len(chan[r].queue) - 1
  BY <1>1
<1>3. ChanTypes' /\ \A s \in Requests : chan'[s].closed = chan[s].closed
  <2>1. \A q \in Seq(MessageTypes) :
          Len(q) <= Buffer /\ chan' = [chan EXCEPT ![r].queue = q]
            => ChanTypes' /\ \A s \in Requests : chan'[s].closed = chan[s].closed
    BY TypeParts, QueueStep
  <2>2. Len(Tail(chan[r].queue)) <= Buffer
    BY <1>1, <1>2, TypeParts, RelayAssumption DEF ChanTypes
  <2>3. chan' = [chan EXCEPT ![r].queue = Tail(chan[r].queue)]
    OBVIOUS
  <2> QED BY <1>2, <2>1, <2>2, <2>3
<1>4. CallerTypes' /\ caller'[r].pc \in {"wait", "done"} /\ Others(r)
  <2>1. caller[r].pc = "wait" /\ caller[r] \in CallerRecord
    BY TypeParts DEF CallerTypes
  <2>2. CASE Head(chan[r].queue) \in {"http_response", "stream_end"}
    <3>1. Return(r, "ok")
      BY <2>2
    <3> QED BY <3>1, TypeParts, ReturnStep DEF Outcomes
  <2>3. CASE Head(chan[r].queue) = "error"
    <3>1. Return(r, "failed")
      BY <2>3
    <3> QED BY <3>1, TypeParts, ReturnStep DEF Outcomes
  <2>4. CASE Head(chan[r].queue) = "stream_start"
    <3>1. caller' = [caller EXCEPT ![r].streams = TRUE, ![r].got = 0]
      BY <2>4
    <3> QED BY <2>1, <3>1, TypeParts DEF CallerTypes, CallerRecord, Others
  <2>5. CASE Head(chan[r].queue) = "stream_chunk"
    <3>1. caller' = [caller EXCEPT ![r].streams = TRUE, ![r].got = @ + 1]
      BY <2>5
    <3> QED BY <2>1, <3>1, TypeParts DEF CallerTypes, CallerRecord, Others
  <2> QED BY <1>2, <2>2, <2>3, <2>4, <2>5 DEF MessageTypes
<1>5. (FlagTypes /\ SetTypes /\ ReaderTypes /\ CleanerTypes /\ WatchTypes /\ ClientTypes
    /\ PanicTypes)'
  BY TypeParts DEF FlagTypes, SetTypes, ReaderTypes, CleanerTypes, WatchTypes, ClientTypes,
      PanicTypes
<1>6. Links'
  BY <1>1, <1>2, <1>3, <1>4, TypeParts, SeenAreRequests DEF Links, Unwritten, OpenIsPending,
      Listed, Visited, Begun, Others
<1> QED BY <1>1, <1>2, <1>3, <1>4, <1>5, <1>6, TypePartsNext

LEMMA ReceiveEndStep == ASSUME IInv, NEW r \in Requests, ReceiveEnd(r) PROVE IInv'
<1> USE DEF IInv, ReceiveEnd, session
<1>1. CallerTypes' /\ caller'[r].pc = "done" /\ Others(r)
  <2>1. AtEnd(r) \in Outcomes /\ "ctx" \in Outcomes
    BY DEF AtEnd, Outcomes
  <2> QED BY <2>1, TypeParts, ReturnStep
<1>2. (FlagTypes /\ SetTypes /\ ChanTypes /\ ReaderTypes /\ CleanerTypes /\ WatchTypes
    /\ ClientTypes /\ PanicTypes)'
  BY TypeParts DEF FlagTypes, SetTypes, ChanTypes, ReaderTypes, CleanerTypes, WatchTypes,
      ClientTypes, PanicTypes
<1>3. Links'
  BY <1>1, TypeParts DEF Links, Unwritten, OpenIsPending, Listed, Visited, Begun, Others
<1> QED BY <1>1, <1>2, <1>3, TypePartsNext

LEMMA CancelStep == ASSUME IInv, NEW r \in Requests, Cancel(r) PROVE IInv'
<1> USE DEF IInv, Cancel, session
<1>1. SetTypes'
  BY TypeParts DEF SetTypes
<1>2. (FlagTypes /\ ChanTypes /\ ReaderTypes /\ CleanerTypes /\ CallerTypes /\ WatchTypes
    /\ ClientTypes /\ PanicTypes)'
  BY TypeParts DEF FlagTypes, ChanTypes, ReaderTypes, CleanerTypes, CallerTypes, WatchTypes,
      ClientTypes, PanicTypes
<1>3. Links'
  BY <1>1, TypeParts DEF Links, Unwritten, OpenIsPending, Listed, Visited, Begun
<1> QED BY <1>1, <1>2, <1>3, TypePartsNext

LEMMA ReadMessageStep == ASSUME IInv, NEW r \in Requests, ReadMessage(r) PROVE IInv'
<1> USE DEF IInv, ReadMessage, session
<1>1. PICK msg \in Messages(r) :
        /\ client' = [client EXCEPT ![r] =
              [phase |-> IF msg \in Terminal THEN "ended" ELSE "streams",
               sent |-> IF msg = "stream_chunk" THEN @.sent + 1 ELSE @.sent]]
        /\ reader' = IF r \in pending THEN [pc |-> "send", id |-> r, msg |-> msg]
                     ELSE Reading
  OBVIOUS
<1>2. msg \in MessageTypes
  BY DEF Messages, MessageTypes
<1>3. ClientTypes'
  BY <1>1, TypeParts DEF ClientTypes
<1>4. ReaderTypes'
  BY <1>1, <1>2 DEF ReaderTypes, Reading
<1>5. (FlagTypes /\ SetTypes /\ ChanTypes /\ CleanerTypes /\ CallerTypes /\ WatchTypes
    /\ PanicTypes)'
  BY TypeParts DEF FlagTypes, SetTypes, ChanTypes, CleanerTypes, CallerTypes, WatchTypes,
      PanicTypes
<1>6. Links'
  BY <1>1, <1>2, <1>3, <1>4, TypeParts DEF Links, Unwritten, OpenIsPending, Listed, Visited, Begun
<1> QED BY <1>1, <1>2, <1>3, <1>4, <1>5, <1>6, TypePartsNext

LEMMA DispatchSendStep == ASSUME IInv, DispatchSend PROVE IInv'
<1> USE DEF IInv, DispatchSend, session
<1>1. reader.id \in Requests /\ reader.msg \in MessageTypes
  BY TypeParts DEF ReaderTypes
<1>2. ChanTypes' /\ SetTypes' /\ PanicTypes'
    /\ \A s \in Requests : chan'[s].closed = chan[s].closed
  BY <1>1, TypeParts, OfferStep
<1>3. ReaderTypes'
  BY <1>1, TypeParts DEF ReaderTypes, Reading
<1>4. (FlagTypes /\ CleanerTypes /\ CallerTypes /\ WatchTypes /\ ClientTypes)'
  BY TypeParts DEF FlagTypes, CleanerTypes, CallerTypes, WatchTypes, ClientTypes
<1>5. Links'
  BY <1>1, <1>2, <1>3, TypeParts, SeenAreRequests DEF Links, Unwritten, OpenIsPending, Listed,
      Visited, Begun
<1> QED BY <1>1, <1>2, <1>3, <1>4, <1>5, TypePartsNext

LEMMA DispatchDeleteStep == ASSUME IInv, DispatchDelete PROVE IInv'
<1> USE DEF IInv, DispatchDelete, session
<1>1. ReaderTypes'
  BY TypeParts DEF ReaderTypes, Reading
<1>2. reader.id \in Requests
  BY TypeParts DEF ReaderTypes
<1>3. ChanTypes' /\ SetTypes' /\ Closing(reader.id)
        /\ \A s \in pending : s \in pending' \/ chan'[s].closed
  <2>1. \A q \in Requests : CloseIfPending(q)
          => ChanTypes' /\ SetTypes' /\ Closing(q)
                /\ \A s \in pending : s \in pending' \/ chan'[s].closed
    BY TypeParts, CloseIfPendingStep
  <2> QED BY <1>2, <2>1
<1>4. (FlagTypes /\ CleanerTypes /\ CallerTypes /\ WatchTypes /\ ClientTypes /\ PanicTypes)'
  BY TypeParts DEF FlagTypes, CleanerTypes, CallerTypes, WatchTypes, ClientTypes, PanicTypes
<1>5. Links'
  BY <1>1, <1>2, <1>3, TypeParts, SeenAreRequests DEF Links, Unwritten, OpenIsPending, Listed,
      Visited, Begun, Closing, SetTypes
<1> QED BY <1>1, <1>2, <1>3, <1>4, <1>5, TypePartsNext

LEMMA ReadFailsStep == ASSUME IInv, ReadFails PROVE IInv'
<1> USE DEF IInv, ReadFails, session
<1>1. ReaderTypes'
  BY TypeParts DEF ReaderTypes, Reading
<1>2. \/ FlagTypes' /\ CleanerTypes' /\ UNCHANGED <<closed, cleaner>>
      \/ /\ cleaner.pc = "idle"
         /\ FlagTypes' /\ CleanerTypes' /\ closed' /\ cleaner'.pc = "range"
             /\ cleaner'.keys = pending
         /\ cleaner'.seen = cleaner.seen
  <2>1. listed \in BOOLEAN
    BY TypeParts DEF FlagTypes
  <2>2. CASE cleaner.pc = "idle"
    BY <2>1, <2>2, TypeParts, StartCleanupStep
  <2>3. CASE cleaner.pc # "idle"
    BY <2>3, TypeParts DEF FlagTypes, CleanerTypes
  <2> QED BY <2>2, <2>3
<1>3. (SetTypes /\ ChanTypes /\ CallerTypes /\ WatchTypes /\ ClientTypes /\ PanicTypes)'
  BY TypeParts DEF SetTypes, ChanTypes, CallerTypes, WatchTypes, ClientTypes, PanicTypes
<1>4. Links'
  BY <1>1, <1>2, TypeParts DEF Links, Unwritten, OpenIsPending, Listed, Visited, Begun
<1> QED BY <1>1, <1>2, <1>3, <1>4, TypePartsNext

LEMMA HeartbeatFailsStep == ASSUME IInv, HeartbeatFails PROVE IInv'
<1> USE DEF IInv, HeartbeatFails, session
<1>1. FlagTypes' /\ CleanerTypes' /\ closed' /\ cleaner'.pc = "range" /\ cleaner'.keys = pending
        /\ cleaner'.seen = cleaner.seen
  <2>1. listed \in BOOLEAN
    BY TypeParts DEF FlagTypes
  <2> QED BY <2>1, TypeParts, StartCleanupStep
<1>2. (SetTypes /\ ChanTypes /\ ReaderTypes /\ CallerTypes /\ WatchTypes /\ ClientTypes
    /\ PanicTypes)'
  BY TypeParts DEF SetTypes, ChanTypes, ReaderTypes, CallerTypes, WatchTypes, ClientTypes,
      PanicTypes
<1>3. Links'
  BY <1>1, TypeParts DEF Links, Unwritten, OpenIsPending, Listed, Visited, Begun
<1> QED BY <1>1, <1>2, <1>3, TypePartsNext

LEMMA StopStep == ASSUME IInv, Stop PROVE IInv'
<1> USE DEF IInv, Stop, session
<1>1. FlagTypes' /\ CleanerTypes' /\ closed' /\ cleaner'.pc = "range" /\ cleaner'.keys = pending
        /\ cleaner'.seen = cleaner.seen
  BY TypeParts, StartCleanupStep
<1>2. (SetTypes /\ ChanTypes /\ ReaderTypes /\ CallerTypes /\ WatchTypes /\ ClientTypes
    /\ PanicTypes)'
  BY TypeParts DEF SetTypes, ChanTypes, ReaderTypes, CallerTypes, WatchTypes, ClientTypes,
      PanicTypes
<1>3. Links'
  BY <1>1, TypeParts DEF Links, Unwritten, OpenIsPending, Listed, Visited, Begun
<1> QED BY <1>1, <1>2, <1>3, TypePartsNext

LEMMA RangeNextStep == ASSUME IInv, RangeNext PROVE IInv'
<1> USE DEF IInv, RangeNext, session
<1>1. PICK q \in pending \ cleaner.seen :
        cleaner' = [cleaner EXCEPT !.pc = "visit", !.id = q, !.seen = @ \cup {q}]
  OBVIOUS
<1>2. CleanerTypes'
  BY <1>1, TypeParts DEF CleanerTypes, CleanerRecord, SetTypes
<1>3. /\ cleaner.pc = "range" /\ cleaner'.pc = "visit" /\ cleaner'.id = q
      /\ cleaner'.seen = cleaner.seen \cup {q} /\ cleaner'.keys = cleaner.keys
  BY <1>1, TypeParts DEF CleanerTypes, CleanerRecord
<1>4. (FlagTypes /\ SetTypes /\ ChanTypes /\ ReaderTypes /\ CallerTypes /\ WatchTypes
    /\ ClientTypes /\ PanicTypes)'
  BY TypeParts DEF FlagTypes, SetTypes, ChanTypes, ReaderTypes, CallerTypes, WatchTypes,
      ClientTypes, PanicTypes
<1>5. Links'
  BY <1>1, <1>2, <1>3, TypeParts DEF Links, Unwritten, OpenIsPending, Listed, Visited, Begun
<1> QED BY <1>1, <1>2, <1>3, <1>4, <1>5, TypePartsNext

LEMMA VisitStep == ASSUME IInv, Visit PROVE IInv'
<1> USE DEF IInv, Visit, session
<1>1. cleaner.id \in Requests /\ "error" \in MessageTypes
  BY TypeParts DEF CleanerTypes, MessageTypes
<1>2. ChanTypes' /\ SetTypes' /\ PanicTypes'
    /\ \A s \in Requests : chan'[s].closed = chan[s].closed
  BY <1>1, TypeParts, OfferStep
<1>3. CleanerTypes' /\ cleaner'.pc = "close"
        /\ cleaner'.id = cleaner.id /\ cleaner'.seen = cleaner.seen
            /\ cleaner'.keys = cleaner.keys
  BY <1>1, TypeParts DEF CleanerTypes, CleanerRecord
<1>4. (FlagTypes /\ ReaderTypes /\ CallerTypes /\ WatchTypes /\ ClientTypes)'
  BY TypeParts DEF FlagTypes, ReaderTypes, CallerTypes, WatchTypes, ClientTypes
<1>5. Links'
  BY <1>1, <1>2, <1>3, TypeParts, SeenAreRequests DEF Links, Unwritten, OpenIsPending, Listed,
      Visited, Begun
<1> QED BY <1>1, <1>2, <1>3, <1>4, <1>5, TypePartsNext

LEMMA VisitCloseStep == ASSUME IInv, VisitClose PROVE IInv'
<1> USE DEF IInv, VisitClose, session
<1>1. CleanerTypes' /\ cleaner'.pc = "range"
        /\ cleaner'.id = cleaner.id /\ cleaner'.seen = cleaner.seen
            /\ cleaner'.keys = cleaner.keys
  BY TypeParts DEF CleanerTypes, CleanerRecord
<1>2. cleaner.id \in Requests
  BY TypeParts DEF CleanerTypes
<1>3. ChanTypes' /\ Closing(cleaner.id) /\ chan'[cleaner.id].closed
  <2>1. \A q \in Requests : Close(q) => ChanTypes' /\ Closing(q) /\ chan'[q].closed
    BY TypeParts, CloseStep
  <2> QED BY <1>2, <2>1
<1>4. (FlagTypes /\ SetTypes /\ ReaderTypes /\ CallerTypes /\ WatchTypes /\ ClientTypes
    /\ PanicTypes)'
  BY TypeParts DEF FlagTypes, SetTypes, ReaderTypes, CallerTypes, WatchTypes, ClientTypes,
      PanicTypes
<1>5. Links'
  BY <1>1, <1>2, <1>3, TypeParts, SeenAreRequests DEF Links, Unwritten, OpenIsPending, Listed,
      Visited, Begun, Closing, SetTypes
<1> QED BY <1>1, <1>2, <1>3, <1>4, <1>5, TypePartsNext

LEMMA ResetStep == ASSUME IInv, Reset PROVE IInv'
<1> USE DEF IInv, Reset, session
<1>1. CleanerTypes' /\ cleaner'.pc = "hangup"
        /\ cleaner'.id = cleaner.id /\ cleaner'.seen = cleaner.seen
            /\ cleaner'.keys = cleaner.keys
  BY TypeParts DEF CleanerTypes, CleanerRecord
<1>2. SetTypes'
  BY TypeParts DEF SetTypes
<1>3. (FlagTypes /\ ChanTypes /\ ReaderTypes /\ CallerTypes /\ WatchTypes /\ ClientTypes
    /\ PanicTypes)'
  BY TypeParts DEF FlagTypes, ChanTypes, ReaderTypes, CallerTypes, WatchTypes, ClientTypes,
      PanicTypes
<1>4. Links'
  BY <1>1, <1>2, TypeParts DEF Links, Unwritten, OpenIsPending, Listed, Visited, Begun
<1> QED BY <1>1, <1>2, <1>3, <1>4, TypePartsNext

LEMMA HangUpStep == ASSUME IInv, HangUp PROVE IInv'
<1> USE DEF IInv, HangUp, session
<1>1. CleanerTypes' /\ cleaner'.pc = "done"
        /\ cleaner'.id = cleaner.id /\ cleaner'.seen = cleaner.seen
            /\ cleaner'.keys = cleaner.keys
  BY TypeParts DEF CleanerTypes, CleanerRecord
<1>2. FlagTypes'
  BY TypeParts DEF FlagTypes
<1>3. (SetTypes /\ ChanTypes /\ ReaderTypes /\ CallerTypes /\ WatchTypes /\ ClientTypes
    /\ PanicTypes)'
  BY TypeParts DEF SetTypes, ChanTypes, ReaderTypes, CallerTypes, WatchTypes, ClientTypes,
      PanicTypes
<1>4. Links'
  BY <1>1, <1>2, TypeParts DEF Links, Unwritten, OpenIsPending, Listed, Visited, Begun
<1> QED BY <1>1, <1>2, <1>3, <1>4, TypePartsNext

-----------------------------------------------------------------------------
LEMMA NextStep == IInv /\ [Next]_vars => IInv'
<1> SUFFICES ASSUME IInv, [Next]_vars PROVE IInv'
  OBVIOUS
<1>1. CASE UNCHANGED vars
  BY <1>1 DEF IInv, Links, vars, session, TypeOK, Unwritten, OpenIsPending, Listed, Visited,
              Begun
<1>2. ASSUME NEW r \in Requests, Caller(r) PROVE IInv'
  BY <1>2, SendStep, StoreStep, LoadStep, CheckClosedStep, WriteStep, UndoStep, ReceiveStep,
     ReceiveEndStep DEF Caller
<1>3. ASSUME NEW r \in Requests, Watcher(r) \/ Client(r) PROVE IInv'
  BY <1>3, WatchStep, CancelStep, ReadMessageStep DEF Watcher, Client
<1>4. CASE Reader
  BY <1>4, DispatchSendStep, DispatchDeleteStep DEF Reader
<1>5. CASE Cleaner
  BY <1>5, RangeNextStep, VisitStep, VisitCloseStep, ResetStep, HangUpStep DEF Cleaner
<1>6. CASE Failure
  BY <1>6, ReadFailsStep, HeartbeatFailsStep, StopStep DEF Failure
<1> QED BY <1>1, <1>2, <1>3, <1>4, <1>5, <1>6 DEF Next

\* ... and in every reachable state.
LEMMA IInvHolds == Spec => []IInv
<1> QED BY InitIInv, NextStep, PTL DEF Spec

\* The session, its requests and their channels keep their types and bounds:
\* no channel holds more than Buffer messages.
THEOREM TypeCorrect == Spec => []TypeOK
<1>1. IInv => TypeOK
  BY DEF IInv
<1> QED BY <1>1, IInvHolds, PTL

\* Every open channel that a caller waits on can be found by those who must
\* end it, for any number of requests: the order of request (store, then look
\* at s.closed) and of cleanup (close, range, then reset) suffices.
THEOREM WaitersCanBeFound == Spec => []OpenIsPending
<1>1. IInv => OpenIsPending
  BY DEF IInv, Links
<1> QED BY <1>1, IInvHolds, PTL

-----------------------------------------------------------------------------
(* What arrives of an answer.                                              *)

\* The messages of q before the k-th have no error among them.
Clean(q, k) == \A j \in 1 .. (k - 1) : q[j] # "error"
AllClean(q) == Clean(q, Len(q) + 1)

\* Whether the start of the stream is still to be received, and not a chunk.
Starts(q) == IF q # <<>> /\ q[1] = "stream_start" THEN 1 ELSE 0
InHand(hand) == IF hand = "stream_chunk" THEN 1 ELSE 0

\* q tells its caller that there is nothing more to come.
Over(q, phase) == ~AllClean(q) \/ (phase = "ended" /\ \E k \in DOMAIN q : q[k] \in Terminal)

\* What a caller has got, what waits in its channel and what the reader has in
\* hand for it are all the client has sent, up to the first error; and the
\* channel ends only when the caller has been told so.
Whole(q, ended, got, phase, sent, hand, visited) ==
    /\ phase \in {"none", "asked"} =>
          got = 0 /\ sent = 0 /\ hand = "none" /\ \A k \in DOMAIN q : q[k] = "error"
    /\ q # <<>> /\ q[1] = "stream_start" => got = 0
    /\ \A k \in DOMAIN q : Clean(q, k) /\ q[k] = "stream_start" => k = 1
    /\ \A k \in DOMAIN q : Clean(q, k) /\ q[k] \in {"http_response", "stream_end"} =>
          phase = "ended" /\ got + (k - 1 - Starts(q)) = sent
    /\ AllClean(q) /\ (phase = "streams" \/ hand \in MessageTypes) =>
          got + (Len(q) - Starts(q)) + InHand(hand) = sent
    /\ hand \in MessageTypes => (hand \in Terminal <=> phase = "ended")
    /\ hand = "stream_start" /\ AllClean(q) => q = <<>> /\ got = 0 /\ sent = 0
    /\ ended \/ visited \/ hand = "delete" => Over(q, phase)

\* What the reader has in hand for r.
Hand(r) ==
    IF reader.id # r THEN "none"
    ELSE IF reader.pc = "send" THEN reader.msg
    ELSE IF reader.pc = "delete" THEN "delete" ELSE "none"

Visiting(r) == cleaner.pc = "close" /\ cleaner.id = r
Live(r) == r \notin canceled \cup lost /\ caller[r].pc # "done"

Delivery(r) ==
    Live(r) => Whole(chan[r].queue, chan[r].closed, caller[r].got, client[r].phase,
                     client[r].sent, Hand(r), Visiting(r))
Asked(r) == client[r].phase # "none" => caller[r].pc \in {"wait", "done"}

LEMMA CleanTail ==
    ASSUME NEW q \in Seq(MessageTypes), q # <<>>, q[1] # "error"
    PROVE  /\ \A k \in DOMAIN Tail(q) : Clean(Tail(q), k) => Clean(q, k + 1)
           /\ AllClean(Tail(q)) => AllClean(q)
<1> DEFINE t == Tail(q)
<1>1. /\ Len(q) \in Nat /\ DOMAIN q = 1 .. Len(q) /\ Len(t) = Len(q) - 1 /\ DOMAIN t = 1 .. Len(t)
      /\ \A j \in 1 .. Len(t) : t[j] = q[j + 1]
  OBVIOUS
<1> HIDE DEF t
<1>2. ASSUME NEW k \in 1 .. Len(q), Clean(t, k) PROVE Clean(q, k + 1)
  <2> SUFFICES ASSUME NEW j \in 1 .. k, q[j] = "error" PROVE FALSE
    BY DEF Clean
  <2>1. j # 1
    OBVIOUS
  <2>2. j - 1 \in 1 .. (k - 1) /\ j - 1 \in 1 .. Len(t)
    BY <1>1, <2>1
  <2>3. t[j - 1] = q[j]
    BY <1>1, <2>2
  <2> QED BY <1>2, <2>2, <2>3 DEF Clean
<1>3. \A k \in DOMAIN t : Clean(t, k) => Clean(q, k + 1)
  BY <1>1, <1>2
<1>4. Len(q) \in 1 .. Len(q) /\ Len(t) + 1 = Len(q)
  BY <1>1
<1>5. AllClean(t) => AllClean(q)
  BY <1>2, <1>4 DEF AllClean
<1> QED BY <1>3, <1>5 DEF t

\* The caller receives a message of the stream.
LEMMA WholeReceive ==
    ASSUME NEW q \in Seq(MessageTypes), NEW ended, NEW got \in Nat, NEW phase,
           NEW sent \in Nat, NEW hand, NEW visited, NEW more \in Nat,
           Whole(q, ended, got, phase, sent, hand, visited), q # <<>>,
           \/ Head(q) = "stream_start" /\ more = 0
           \/ Head(q) = "stream_chunk" /\ more = got + 1
    PROVE  Whole(Tail(q), ended, more, phase, sent, hand, visited)
<1> DEFINE t == Tail(q)
<1>1. /\ Len(q) \in Nat /\ DOMAIN q = 1 .. Len(q) /\ Len(t) = Len(q) - 1 /\ DOMAIN t = 1 .. Len(t)
      /\ \A j \in 1 .. Len(t) : t[j] = q[j + 1]
      /\ Head(q) = q[1] /\ 1 \in DOMAIN q /\ t \in Seq(MessageTypes)
  OBVIOUS
<1>2. q[1] \in {"stream_start", "stream_chunk"}
  BY <1>1
<1>3. (\A k \in DOMAIN t : Clean(t, k) => Clean(q, k + 1)) /\ (AllClean(t) => AllClean(q))
  BY <1>2, CleanTail
<1> HIDE DEF t
<1>4. \A k \in DOMAIN t : k + 1 \in DOMAIN q /\ t[k] = q[k + 1]
  BY <1>1
<1>5. phase \notin {"none", "asked"}
  BY <1>1, <1>2 DEF Whole
<1>6. t # <<>> => t[1] # "stream_start"
  <2> SUFFICES ASSUME t # <<>>, t[1] = "stream_start" PROVE FALSE
    OBVIOUS
  <2>1. 1 \in DOMAIN t
    BY <1>1
  <2>2. 2 \in DOMAIN q /\ q[2] = "stream_start"
    BY <1>4, <2>1
  <2>3. Clean(q, 2)
    BY <1>2 DEF Clean
  <2> QED BY <2>2, <2>3 DEF Whole
<1>7. Starts(t) = 0 /\ more = got + (1 - Starts(q)) /\ Starts(q) \in {0, 1}
  <2>1. Starts(t) = 0
    BY <1>6 DEF Starts
  <2>2. CASE q[1] = "stream_start"
    <3>1. got = 0 /\ Starts(q) = 1
      BY <2>2 DEF Whole, Starts
    <3> QED BY <1>1, <2>1, <2>2, <3>1
  <2>3. CASE q[1] = "stream_chunk"
    BY <1>1, <2>1, <2>3 DEF Starts
  <2> QED BY <1>2, <2>2, <2>3
<1>8. \A k \in DOMAIN t : Clean(t, k) /\ t[k] = "stream_start" => k = 1
  <2> SUFFICES ASSUME NEW k \in DOMAIN t, Clean(t, k), t[k] = "stream_start" PROVE FALSE
    OBVIOUS
  <2>1. k + 1 = 1
    BY <1>3, <1>4 DEF Whole
  <2> QED BY <1>1, <2>1
<1>9. \A k \in DOMAIN t : Clean(t, k) /\ t[k] \in {"http_response", "stream_end"} =>
        phase = "ended" /\ more + (k - 1 - Starts(t)) = sent
  <2> SUFFICES ASSUME NEW k \in DOMAIN t, Clean(t, k), t[k] \in {"http_response", "stream_end"}
               PROVE  phase = "ended" /\ more + (k - 1 - Starts(t)) = sent
    OBVIOUS
  <2>1. phase = "ended" /\ got + ((k + 1) - 1 - Starts(q)) = sent
    BY <1>3, <1>4 DEF Whole
  <2> QED BY <1>1, <1>7, <2>1
<1>10. AllClean(t) /\ (phase = "streams" \/ hand \in MessageTypes) =>
          more + (Len(t) - Starts(t)) + InHand(hand) = sent
  <2> SUFFICES ASSUME AllClean(t), phase = "streams" \/ hand \in MessageTypes
               PROVE  more + (Len(t) - Starts(t)) + InHand(hand) = sent
    OBVIOUS
  <2>1. got + (Len(q) - Starts(q)) + InHand(hand) = sent
    BY <1>3 DEF Whole
  <2>2. InHand(hand) \in {0, 1}
    BY DEF InHand
  <2> QED BY <1>1, <1>7, <2>1, <2>2
<1>11. ~(hand = "stream_start" /\ AllClean(t))
  BY <1>3 DEF Whole
<1>12. Over(q, phase) => Over(t, phase)
  <2> SUFFICES ASSUME AllClean(t), NEW k \in DOMAIN q, q[k] \in Terminal, Over(q, phase)
               PROVE  \E j \in DOMAIN t : t[j] \in Terminal
    BY <1>3 DEF Over
  <2>1. k # 1
    BY <1>2 DEF Terminal
  <2>2. k - 1 \in DOMAIN t /\ t[k - 1] = q[k]
    BY <1>1, <2>1
  <2> QED BY <2>2
<1> QED BY <1>5, <1>6, <1>8, <1>9, <1>10, <1>11, <1>12 DEF Whole, t

LEMMA CleanAppend ==
    ASSUME NEW q \in Seq(MessageTypes), NEW m \in MessageTypes
    PROVE  /\ \A k \in DOMAIN q : Clean(Append(q, m), k) <=> Clean(q, k)
           /\ Clean(Append(q, m), Len(q) + 1) <=> AllClean(q)
           /\ AllClean(Append(q, m)) <=> AllClean(q) /\ m # "error"
<1> DEFINE a == Append(q, m)
<1>1. /\ Len(q) \in Nat /\ DOMAIN q = 1 .. Len(q) /\ Len(a) = Len(q) + 1
      /\ \A j \in 1 .. Len(q) : a[j] = q[j]
      /\ a[Len(q) + 1] = m
  OBVIOUS
<1> HIDE DEF a
<1>2. \A k \in 1 .. (Len(q) + 1) : Clean(a, k) <=> Clean(q, k)
  BY <1>1 DEF Clean
<1>3. AllClean(a) <=> AllClean(q) /\ m # "error"
  BY <1>1 DEF AllClean, Clean
<1>4. Len(q) + 1 \in 1 .. (Len(q) + 1) /\ \A k \in DOMAIN q : k \in 1 .. (Len(q) + 1)
  BY <1>1
<1> QED BY <1>2, <1>3, <1>4 DEF a, AllClean

\* The reader puts what it has in hand into the channel.
LEMMA WholeSend ==
    ASSUME NEW q \in Seq(MessageTypes), NEW ended, NEW got \in Nat, NEW phase,
           NEW sent \in Nat, NEW m \in MessageTypes, NEW visited, NEW hand,
           Whole(q, ended, got, phase, sent, m, visited),
           hand = IF m \in Terminal THEN "delete" ELSE "none"
    PROVE  Whole(Append(q, m), ended, got, phase, sent, hand, visited)
<1> DEFINE a == Append(q, m)
<1>1. /\ Len(q) \in Nat /\ DOMAIN q = 1 .. Len(q) /\ Len(a) = Len(q) + 1 /\ DOMAIN a = 1 .. Len(a)
      /\ \A j \in 1 .. Len(q) : a[j] = q[j]
      /\ a[Len(q) + 1] = m /\ a # <<>>
  OBVIOUS
<1>2. /\ \A k \in DOMAIN q : Clean(a, k) <=> Clean(q, k)
      /\ Clean(a, Len(q) + 1) <=> AllClean(q)
      /\ AllClean(a) <=> AllClean(q) /\ m # "error"
  BY CleanAppend
<1> HIDE DEF a
<1>3. phase \notin {"none", "asked"} /\ hand \notin MessageTypes
    /\ (m \in Terminal <=> phase = "ended")
  BY DEF Whole, MessageTypes, Terminal
<1>4. \A k \in DOMAIN a : k \in DOMAIN q \/ k = Len(q) + 1
  BY <1>1
<1>5. m = "stream_start" /\ AllClean(q) => q = <<>> /\ Len(q) = 0 /\ got = 0 /\ sent = 0
  BY DEF Whole
<1>6. q = <<>> => AllClean(q) /\ Len(q) = 0
  BY <1>1 DEF AllClean, Clean
<1>7. q # <<>> => a[1] = q[1] /\ Starts(a) = Starts(q)
  BY <1>1 DEF Starts
<1>8. q = <<>> => a[1] = m /\ Starts(q) = 0 /\ Starts(a) = IF m = "stream_start" THEN 1 ELSE 0
  BY <1>1, <1>6 DEF Starts
<1>9. Starts(q) \in {0, 1}
  BY DEF Starts
<1>10. a[1] = "stream_start" => got = 0
  BY <1>5, <1>6, <1>7, <1>8 DEF Whole
<1>11. \A k \in DOMAIN a : Clean(a, k) /\ a[k] = "stream_start" => k = 1
  <2> SUFFICES ASSUME NEW k \in DOMAIN a, Clean(a, k), a[k] = "stream_start" PROVE k = 1
    OBVIOUS
  <2>1. CASE k \in DOMAIN q
    BY <1>1, <1>2, <2>1 DEF Whole
  <2>2. CASE k = Len(q) + 1
    BY <1>1, <1>2, <1>5, <2>2
  <2> QED BY <1>4, <2>1, <2>2
<1>12. AllClean(q) => got + (Len(q) - Starts(q)) + InHand(m) = sent
  BY DEF Whole
<1>13. \A k \in DOMAIN a : Clean(a, k) /\ a[k] \in {"http_response", "stream_end"} =>
          phase = "ended" /\ got + (k - 1 - Starts(a)) = sent
  <2> SUFFICES ASSUME NEW k \in DOMAIN a, Clean(a, k), a[k] \in {"http_response", "stream_end"}
               PROVE  phase = "ended" /\ got + (k - 1 - Starts(a)) = sent
    OBVIOUS
  <2>1. CASE k \in DOMAIN q
    <3>1. q # <<>>
      BY <1>1, <2>1
    <3> QED BY <1>1, <1>2, <1>7, <2>1, <3>1 DEF Whole
  <2>2. CASE k = Len(q) + 1
    <3>1. m \in {"http_response", "stream_end"} /\ AllClean(q)
      BY <1>1, <1>2, <2>2
    <3>2. phase = "ended" /\ InHand(m) = 0 /\ Starts(a) = Starts(q)
      BY <1>3, <1>7, <1>8, <3>1 DEF Terminal, InHand
    <3> QED BY <1>1, <1>9, <1>12, <2>2, <3>1, <3>2
  <2> QED BY <1>4, <2>1, <2>2
<1>14. AllClean(a) /\ phase = "streams" => got + (Len(a) - Starts(a)) + InHand(hand) = sent
  <2> SUFFICES ASSUME AllClean(a), phase = "streams"
               PROVE  got + (Len(a) - Starts(a)) + InHand(hand) = sent
    OBVIOUS
  <2>1. m \in {"stream_start", "stream_chunk"} /\ AllClean(q) /\ InHand(hand) = 0
    BY <1>2, <1>3 DEF MessageTypes, Terminal, InHand
  <2>2. CASE m = "stream_start"
    BY <1>1, <1>5, <1>8, <2>1, <2>2
  <2>3. CASE m = "stream_chunk"
    <3>1. Starts(a) = Starts(q) /\ InHand(m) = 1
      BY <1>7, <1>8, <2>3 DEF InHand
    <3> QED BY <1>1, <1>9, <1>12, <2>1, <3>1
  <2> QED BY <2>1, <2>2, <2>3
<1>15. Over(q, phase) => Over(a, phase)
  BY <1>1, <1>2 DEF Over
<1>16. hand = "delete" => Over(a, phase)
  BY <1>1, <1>3 DEF Over
<1>17. hand # "stream_start"
  OBVIOUS
<1> QED BY <1>3, <1>10, <1>11, <1>13, <1>14, <1>15, <1>16, <1>17 DEF Whole, a

\* Cleanup puts its error into the channel.
LEMMA WholeError ==
    ASSUME NEW q \in Seq(MessageTypes), NEW ended, NEW got \in Nat, NEW phase,
           NEW sent \in Nat, NEW hand, NEW visited, NEW again,
           Whole(q, ended, got, phase, sent, hand, visited)
    PROVE  Whole(Append(q, "error"), ended, got, phase, sent, hand, again)
<1> DEFINE a == Append(q, "error")
<1>1. /\ Len(q) \in Nat /\ DOMAIN q = 1 .. Len(q) /\ Len(a) = Len(q) + 1 /\ DOMAIN a = 1 .. Len(a)
      /\ \A j \in 1 .. Len(q) : a[j] = q[j]
      /\ a[Len(q) + 1] = "error" /\ a # <<>>
  OBVIOUS
<1>2. /\ \A k \in DOMAIN q : Clean(a, k) <=> Clean(q, k)
      /\ ~AllClean(a)
  BY CleanAppend DEF MessageTypes
<1> HIDE DEF a
<1>3. \A k \in DOMAIN a : k \in DOMAIN q \/ a[k] = "error"
  BY <1>1
<1>4. Starts(a) = Starts(q)
  BY <1>1 DEF Starts
<1>5. a[1] = "stream_start" => q # <<>> /\ q[1] = "stream_start"
  BY <1>1
<1>6. Over(a, phase)
  BY <1>2 DEF Over
<1> QED BY <1>1, <1>2, <1>3, <1>4, <1>5, <1>6 DEF Whole, a

\* The client sends a message, for a request that can be found or cannot.
LEMMA WholeRead ==
    ASSUME NEW q \in Seq(MessageTypes), NEW ended, NEW got \in Nat,
           NEW phase \in {"asked", "streams"}, NEW sent \in Nat, NEW visited,
           NEW m \in MessageTypes, NEW hand, NEW next, NEW more,
           Whole(q, ended, got, phase, sent, "none", visited),
           phase = "asked" => m # "stream_chunk" /\ m # "stream_end",
           phase = "streams" => m \in {"error", "stream_end", "stream_chunk"},
           next = IF m \in Terminal THEN "ended" ELSE "streams",
           more = IF m = "stream_chunk" THEN sent + 1 ELSE sent,
           hand = m \/ (hand = "none" /\ ended)
    PROVE  Whole(q, ended, got, next, more, hand, visited)
<1>1. Len(q) \in Nat /\ DOMAIN q = 1 .. Len(q) /\ Starts(q) \in {0, 1}
  BY DEF Starts
<1>2. Over(q, phase) <=> ~AllClean(q)
  BY DEF Over
<1>3. \A k \in DOMAIN q : ~(Clean(q, k) /\ q[k] \in {"http_response", "stream_end"})
  BY DEF Whole
<1>4. CASE phase = "asked"
  <2>1. got = 0 /\ sent = 0 /\ more = 0 /\ \A k \in DOMAIN q : q[k] = "error"
    BY <1>4 DEF Whole
  <2>2. AllClean(q) => q = <<>> /\ Len(q) = 0 /\ Starts(q) = 0
    BY <1>1, <2>1 DEF AllClean, Clean, Starts
  <2>3. hand = "none" => ~AllClean(q)
    BY <1>2 DEF Whole, MessageTypes
  <2>4. InHand(hand) = 0
    BY <1>4 DEF InHand
  <2>5. q # <<>> => q[1] # "stream_start"
    BY <1>1, <2>1
  <2> QED BY <1>1, <1>2, <1>3, <1>4, <2>1, <2>2, <2>3, <2>4, <2>5
          DEF Whole, Over, MessageTypes, Terminal
<1>5. CASE phase = "streams"
  <2>1. AllClean(q) => got + (Len(q) - Starts(q)) = sent
    <3>1. AllClean(q) => got + (Len(q) - Starts(q)) + 0 = sent
      BY <1>5 DEF Whole, InHand
    <3> QED BY <1>1, <3>1
  <2>2. hand = "none" => ~AllClean(q)
    BY <1>2 DEF Whole, MessageTypes
  <2>3. AllClean(q) => got + (Len(q) - Starts(q)) + InHand(hand) = more
    BY <1>1, <1>5, <2>1, <2>2 DEF InHand
  <2> QED BY <1>1, <1>2, <1>3, <1>5, <2>2, <2>3 DEF Whole, Over, MessageTypes, Terminal
<1> QED BY <1>4, <1>5

\* Who has returned has an outcome; SuccessIsWhole is about those with "ok".
Answered(r) ==
    /\ caller[r].outcome # "none" => caller[r].pc = "done"
    /\ caller[r].outcome = "ok" =>
          \/ r \in canceled \cup lost
          \/ client[r].phase = "ended" /\ caller[r].got = client[r].sent

Kept(r) == Delivery(r) /\ Asked(r) /\ Answered(r)
AllKept == \A r \in Requests : Kept(r)

\* No step forgets that a request was canceled or has lost a message.
Grows == canceled \subseteq canceled' /\ lost \subseteq lost'

Unmoved(r) == UNCHANGED <<chan[r], client[r], Hand(r), Visiting(r)>>

LEMMA WholeEnds ==
    ASSUME NEW q, NEW ended, NEW got, NEW phase, NEW sent, NEW hand, NEW visited,
           Whole(q, ended, got, phase, sent, hand, visited),
           NEW ended2, NEW visited2, NEW hand2,
           hand2 = hand \/ (hand = "delete" /\ hand2 = "none"),
           ended2 \/ visited2 \/ hand2 = "delete" => Over(q, phase)
    PROVE  Whole(q, ended2, got, phase, sent, hand2, visited2)
<1>1. "none" \notin MessageTypes /\ "delete" \notin MessageTypes
  BY DEF MessageTypes
<1>2. CASE hand2 = hand
  BY <1>2 DEF Whole
<1>3. CASE hand = "delete" /\ hand2 = "none"
  BY <1>1, <1>3 DEF Whole, InHand
<1> QED BY <1>2, <1>3

LEMMA UnmovedKeeps ==
    ASSUME NEW r \in Requests, Kept(r), Unmoved(r), UNCHANGED caller[r], Grows
    PROVE  Kept(r)'
BY DEF Kept, Unmoved, Grows, Delivery, Asked, Answered, Live

LEMMA PlaceKeeps ==
    ASSUME NEW r \in Requests, Kept(r), Unmoved(r), Grows,
           caller[r].pc \notin {"wait", "done"}, caller'[r].pc # "done",
           caller'[r].got = caller[r].got, caller'[r].outcome = caller[r].outcome
    PROVE  Kept(r)'
BY DEF Kept, Unmoved, Grows, Delivery, Asked, Answered, Live

LEMMA FailureKeeps ==
    ASSUME NEW r \in Requests, caller'[r].pc = "done", caller'[r].outcome # "ok"
    PROVE  Kept(r)'
BY DEF Kept, Delivery, Asked, Answered, Live

LEMMA GotoMoves ==
    ASSUME CallerTypes, NEW r \in Requests, NEW pc \in Places, Goto(r, pc)
    PROVE  /\ caller'[r].pc = pc /\ Others(r)
           /\ caller'[r].got = caller[r].got /\ caller'[r].outcome = caller[r].outcome
BY DEF CallerTypes, CallerRecord, Goto, Others

LEMMA ReturnMoves ==
    ASSUME CallerTypes, NEW r \in Requests, NEW o \in Outcomes, Return(r, o)
    PROVE  /\ caller'[r].pc = "done" /\ Others(r)
           /\ caller'[r].got = caller[r].got /\ caller'[r].outcome = o
<1>1. caller[r] \in CallerRecord
  BY DEF CallerTypes
<1>2. caller' = [caller EXCEPT ![r] = [[caller[r] EXCEPT !.pc = "done"] EXCEPT !.outcome = o]]
  BY DEF Return, CallerTypes
<1>3. [caller[r] EXCEPT !.pc = "done"] \in CallerRecord
        /\ [caller[r] EXCEPT !.pc = "done"].got = caller[r].got
        /\ [caller[r] EXCEPT !.pc = "done"].pc = "done"
  BY <1>1 DEF CallerRecord, Places
<1> DEFINE c == [caller[r] EXCEPT !.pc = "done"]
<1>4. c \in CallerRecord /\ c.got = caller[r].got /\ c.pc = "done"
        /\ caller' = [caller EXCEPT ![r] = [c EXCEPT !.outcome = o]]
  BY <1>2, <1>3
<1> HIDE DEF c
<1>5. [c EXCEPT !.outcome = o].got = c.got /\ [c EXCEPT !.outcome = o].pc = c.pc
        /\ [c EXCEPT !.outcome = o].outcome = o
  BY <1>4 DEF CallerRecord
<1> QED BY <1>4, <1>5 DEF CallerTypes, Others

-----------------------------------------------------------------------------
LEMMA InitKept == Init => AllKept
<1> SUFFICES ASSUME Init, NEW r \in Requests PROVE Kept(r)
  BY DEF AllKept
<1>1. chan[r].queue = <<>> /\ chan[r].closed = FALSE /\ Hand(r) = "none" /\ Visiting(r) = FALSE
        /\ client[r].phase = "none" /\ client[r].sent = 0
  BY RelayAssumption DEF Init, Hand, Visiting, Reading
<1>2. caller[r].pc = "idle" /\ caller[r].got = 0 /\ caller[r].outcome = "none"
  BY DEF Init
<1>3. Whole(<<>>, FALSE, 0, "none", 0, "none", FALSE)
  BY DEF Whole, MessageTypes
<1> QED BY <1>1, <1>2, <1>3 DEF Kept, Delivery, Asked, Answered

\* The steps of a caller that leave its channel alone.
LEMMA CallerKeeps ==
    ASSUME IInv, AllKept, NEW r \in Requests,
           Send(r) \/ Store(r) \/ Load(r) \/ CheckClosed(r)
    PROVE  AllKept'
<1>1. Grows /\ \A s \in Requests : Unmoved(s)
  BY DEF Send, Store, Load, CheckClosed, session, Grows, Unmoved, Hand, Visiting
<1>2. \/ \E pc \in Places \ {"done"} : Goto(r, pc)
      \/ Return(r, "failed")
      \/ UNCHANGED caller
  BY DEF Send, Store, Load, CheckClosed, Places
<1>3. caller[r].pc \notin {"wait", "done"}
  BY DEF Send, Store, Load, CheckClosed
<1>4. CallerTypes
  BY TypeParts DEF IInv
<1>5. ASSUME NEW pc \in Places \ {"done"}, Goto(r, pc) PROVE AllKept'
  BY <1>1, <1>3, <1>4, <1>5, GotoMoves, PlaceKeeps, UnmovedKeeps DEF AllKept, Others
<1>6. CASE Return(r, "failed")
  BY <1>1, <1>4, <1>6, ReturnMoves, FailureKeeps, UnmovedKeeps DEF AllKept, Others, Outcomes
<1>7. CASE UNCHANGED caller
  BY <1>1, <1>7, UnmovedKeeps DEF AllKept
<1> QED BY <1>2, <1>5, <1>6, <1>7

LEMMA WriteKeeps ==
    ASSUME IInv, AllKept, NEW r \in Requests, Write(r)
    PROVE  AllKept'
<1>1. CallerTypes /\ client \in [Requests -> [phase : {"none", "asked", "streams", "ended"},
    sent : Nat]]
  BY TypeParts DEF IInv, ClientTypes
<1>2. CASE Goto(r, "undo") /\ UNCHANGED client
  <2>1. Grows /\ \A s \in Requests : Unmoved(s)
    BY <1>2 DEF Write, session, Grows, Unmoved, Hand, Visiting
  <2>2. caller[r].pc = "write" /\ "undo" \in Places
    BY DEF Write, Places
  <2> QED BY <1>1, <1>2, <2>1, <2>2, GotoMoves, PlaceKeeps, UnmovedKeeps DEF AllKept, Others
<1>3. CASE Goto(r, "wait") /\ client' = [client EXCEPT ![r].phase = "asked"]
  <2>1. Grows /\ \A s \in Requests : s # r => Unmoved(s)
    BY <1>1, <1>3 DEF Write, session, Grows, Unmoved, Hand, Visiting
  <2>2. caller[r].pc = "write" /\ "wait" \in Places
    BY DEF Write, Places
  <2>3. Others(r) /\ caller'[r].pc = "wait" /\ caller'[r].got = caller[r].got
          /\ caller'[r].outcome = caller[r].outcome
    BY <1>1, <1>3, <2>2, GotoMoves
  <2>4. client'[r].phase = "asked" /\ client'[r].sent = client[r].sent
    BY <1>1, <1>3
  <2>5. UNCHANGED <<chan[r], Hand(r), Visiting(r), canceled, lost>>
    BY DEF Write, session, Hand, Visiting
  <2>6. client[r].phase = "none"
    BY <1>1, <2>2 DEF AllKept, Kept, Asked
  <2>7. Live(r)' => Live(r)
    BY <2>2, <2>5 DEF Live
  <2>8. Delivery(r)'
    <3>1. \A q, ended, got, sent, hand, visited :
            Whole(q, ended, got, "none", sent, hand, visited)
              => Whole(q, ended, got, "asked", sent, hand, visited)
      BY DEF Whole, Over
    <3> QED BY <2>3, <2>4, <2>5, <2>6, <2>7, <3>1 DEF AllKept, Kept, Delivery
  <2>9. Kept(r)'
    BY <2>2, <2>3, <2>8 DEF AllKept, Kept, Asked, Answered
  <2> QED BY <2>1, <2>3, <2>9, UnmovedKeeps DEF AllKept, Others
<1> QED BY <1>2, <1>3 DEF Write

\* A channel is closed when its caller returns or its context is done.
LEMMA UndoKeeps ==
    ASSUME IInv, AllKept, NEW r \in Requests, Undo(r)
    PROVE  AllKept'
<1>1. CallerTypes /\ ChanTypes /\ SetTypes
  BY TypeParts DEF IInv
<1>2. Return(r, "failed") /\ CloseIfPending(r) /\ UNCHANGED <<client, reader, cleaner,
    canceled, lost>>
  BY DEF Undo
<1>3. Closing(r)
  BY <1>1, <1>2, CloseIfPendingStep
<1>4. Grows /\ \A s \in Requests : s # r => Unmoved(s)
  BY <1>2, <1>3 DEF Grows, Unmoved, Hand, Visiting, Closing
<1> QED BY <1>1, <1>2, <1>4, ReturnMoves, FailureKeeps, UnmovedKeeps DEF AllKept, Others, Outcomes

LEMMA WatchKeeps ==
    ASSUME IInv, AllKept, NEW r \in Requests, Watch(r)
    PROVE  AllKept'
<1>1. ChanTypes /\ SetTypes /\ Grows
  BY TypeParts DEF IInv, Watch, Grows
<1>2. CASE UNCHANGED chan
  <2>1. \A s \in Requests : Unmoved(s) /\ UNCHANGED caller[s]
    BY <1>2 DEF Watch, session, Unmoved, Hand, Visiting
  <2> QED BY <1>1, <2>1, UnmovedKeeps DEF AllKept
<1>3. CASE r \in canceled /\ CloseIfPending(r)
  <2>1. Closing(r)
    BY <1>1, <1>3, CloseIfPendingStep DEF Watch
  <2>2. \A s \in Requests : (s # r => Unmoved(s)) /\ UNCHANGED caller[s]
    BY <2>1 DEF Watch, session, Unmoved, Hand, Visiting, Closing
  <2>3. Kept(r)'
    BY <1>3 DEF Watch, AllKept, Kept, Delivery, Live, Asked, Answered
  <2> QED BY <1>1, <2>2, <2>3, UnmovedKeeps DEF AllKept
<1> QED BY <1>2, <1>3 DEF Watch

LEMMA ReceiveKeeps ==
    ASSUME IInv, AllKept, NEW r \in Requests, Receive(r)
    PROVE  AllKept'
<1>1. CallerTypes /\ ChanTypes /\ ClientTypes
  BY TypeParts DEF IInv
<1> DEFINE q == chan[r].queue
<1>2. q \in Seq(MessageTypes) /\ q # <<>> /\ caller[r].got \in Nat /\ client[r].sent \in Nat
        /\ caller[r] \in CallerRecord /\ caller[r].pc = "wait" /\ Head(q) = q[1] /\ 1 \in DOMAIN q
        /\ q[1] \in MessageTypes
  BY <1>1 DEF Receive, ChanTypes, ChanRecord, CallerTypes, CallerRecord, ClientTypes
<1>3. chan' = [chan EXCEPT ![r].queue = Tail(q)] /\ UNCHANGED <<client, reader, cleaner,
    canceled, lost>>
  BY DEF Receive
<1>4. Grows /\ \A s \in Requests : s # r => Unmoved(s)
  BY <1>1, <1>3 DEF Grows, Unmoved, Hand, Visiting, ChanTypes
<1>5. chan'[r].queue = Tail(q) /\ chan'[r].closed = chan[r].closed
  BY <1>1, <1>3 DEF ChanTypes, ChanRecord
<1>6. CASE q[1] \in {"http_response", "stream_end"}
  <2>1. Return(r, "ok")
    BY <1>2, <1>6 DEF Receive
  <2>2. Others(r) /\ caller'[r].pc = "done" /\ caller'[r].got = caller[r].got
    BY <1>1, <2>1, ReturnMoves DEF Outcomes
  <2>3. Live(r) => client[r].phase = "ended" /\ caller[r].got = client[r].sent
    <3> SUFFICES ASSUME Live(r)
                 PROVE  client[r].phase = "ended" /\ caller[r].got = client[r].sent
      OBVIOUS
    <3>1. Clean(q, 1) /\ Starts(q) = 0
      BY <1>6 DEF Clean, Starts
    <3>2. client[r].phase = "ended" /\ caller[r].got + (1 - 1 - Starts(q)) = client[r].sent
      BY <1>2, <1>6, <3>1 DEF AllKept, Kept, Delivery, Whole
    <3> QED BY <1>2, <3>1, <3>2
  <2>4. Kept(r)'
    BY <1>2, <1>3, <2>2, <2>3 DEF Kept, Delivery, Live, Asked, Answered
  <2> QED BY <1>4, <2>2, <2>4, UnmovedKeeps DEF AllKept, Others
<1>7. CASE q[1] = "error"
  <2>1. Return(r, "failed")
    BY <1>2, <1>7 DEF Receive
  <2> QED BY <1>1, <1>4, <2>1, ReturnMoves, FailureKeeps, UnmovedKeeps
          DEF AllKept, Others, Outcomes
<1>8. ASSUME NEW more \in Nat, caller' = [caller EXCEPT ![r].streams = TRUE, ![r].got = more],
             \/ Head(q) = "stream_start" /\ more = 0
             \/ Head(q) = "stream_chunk" /\ more = caller[r].got + 1
      PROVE  AllKept'
  <2> DEFINE c == [caller[r] EXCEPT !.streams = TRUE]
  <2>1. c \in CallerRecord /\ c.pc = caller[r].pc /\ c.outcome = caller[r].outcome
    BY <1>2 DEF CallerRecord
  <2>2. caller' = [caller EXCEPT ![r] = [c EXCEPT !.got = more]]
    BY <1>1, <1>8 DEF CallerTypes
  <2> HIDE DEF c
  <2>3. Others(r) /\ caller'[r] = [c EXCEPT !.got = more]
    BY <1>1, <2>2 DEF CallerTypes, Others
  <2>4. caller'[r].got = more /\ caller'[r].pc = caller[r].pc
          /\ caller'[r].outcome = caller[r].outcome
    BY <2>1, <2>3 DEF CallerRecord
  <2>5. Hand(r)' = Hand(r) /\ Visiting(r)' = Visiting(r) /\ (Live(r)' <=> Live(r))
    BY <1>3, <2>4 DEF Hand, Visiting, Live
  <2>6. Live(r) => Whole(Tail(q), chan[r].closed, more, client[r].phase, client[r].sent, Hand(r),
                         Visiting(r))
    BY <1>2, <1>8, WholeReceive DEF AllKept, Kept, Delivery
  <2>7. Delivery(r)'
    BY <1>3, <1>5, <2>4, <2>5, <2>6 DEF Delivery
  <2>8. Kept(r)'
    BY <1>2, <1>3, <2>4, <2>7 DEF AllKept, Kept, Asked, Answered
  <2> QED BY <1>4, <2>3, <2>8, UnmovedKeeps DEF AllKept, Others
<1>9. CASE q[1] = "stream_start"
  <2>1. caller' = [caller EXCEPT ![r].streams = TRUE, ![r].got = 0]
    BY <1>2, <1>9 DEF Receive
  <2> QED BY <1>2, <1>8, <1>9, <2>1
<1>10. CASE q[1] = "stream_chunk"
  <2>1. caller' = [caller EXCEPT ![r].streams = TRUE, ![r].got = caller[r].got + 1]
    BY <1>1, <1>2, <1>10 DEF Receive, CallerTypes
  <2>2. caller[r].got + 1 \in Nat
    BY <1>2
  <2> QED BY <1>2, <1>8, <1>10, <2>1, <2>2
<1> QED BY <1>2, <1>6, <1>7, <1>9, <1>10 DEF MessageTypes

\* A channel that ends without having told its caller is that of a canceled
\* request or has lost a message.
LEMMA ReceiveEndKeeps ==
    ASSUME IInv, AllKept, NEW r \in Requests, ReceiveEnd(r)
    PROVE  AllKept'
<1>1. CallerTypes /\ Grows /\ \A s \in Requests : Unmoved(s)
  BY TypeParts DEF IInv, ReceiveEnd, session, Grows, Unmoved, Hand, Visiting
<1>2. PICK o \in Outcomes :
        /\ Return(r, o)
        /\ o = "ok" => chan[r].queue = <<>> /\ chan[r].closed
  BY DEF ReceiveEnd, AtEnd, Outcomes
<1>3. Others(r) /\ caller'[r].pc = "done" /\ caller'[r].outcome = o
  BY <1>1, <1>2, ReturnMoves
<1>4. o = "ok" => r \in canceled \cup lost
  <2> SUFFICES ASSUME o = "ok", r \notin canceled \cup lost PROVE FALSE
    OBVIOUS
  <2>1. Live(r)
    BY DEF ReceiveEnd, Live
  <2>2. Over(<<>>, client[r].phase)
    BY <1>2, <2>1 DEF AllKept, Kept, Delivery, Whole
  <2>3. AllClean(<<>>)
    BY DEF AllClean, Clean
  <2> QED BY <2>2, <2>3 DEF Over
<1>5. Kept(r)'
  BY <1>1, <1>3, <1>4 DEF Grows, Kept, Delivery, Live, Asked, Answered
<1> QED BY <1>1, <1>3, <1>5, UnmovedKeeps DEF AllKept, Others

\* What fails, and the steps of cleanup that touch no channel.
LEMMA QuietKeeps ==
    ASSUME IInv, AllKept,
           \/ \E r \in Requests : Cancel(r)
           \/ ReadFails \/ HeartbeatFails \/ Stop
           \/ RangeNext \/ Reset \/ HangUp
    PROVE  AllKept'
<1>1. CleanerTypes /\ ReaderTypes
  BY TypeParts DEF IInv
<1>2. UNCHANGED <<chan, client, caller>> /\ Grows
  BY DEF Cancel, ReadFails, HeartbeatFails, Stop, RangeNext, Reset, HangUp, session, Grows
<1>3. \A s \in Requests : UNCHANGED Hand(s)
  <2>1. CASE ReadFails
    BY <1>1, <2>1 DEF ReadFails, Hand, ReaderTypes, Reading
  <2>2. CASE UNCHANGED reader
    BY <2>2 DEF Hand
  <2> QED BY <2>1, <2>2 DEF Cancel, HeartbeatFails, Stop, RangeNext, Reset, HangUp
<1>4. cleaner'.pc = "close" <=> cleaner.pc = "close"
  BY <1>1 DEF CleanerTypes, CleanerRecord, Cancel, ReadFails, HeartbeatFails, Stop, RangeNext,
              Reset, HangUp, StartCleanup
<1>5. cleaner.pc = "close" => UNCHANGED cleaner
  BY DEF Cancel, ReadFails, HeartbeatFails, Stop, RangeNext, Reset, HangUp, StartCleanup
<1>6. \A s \in Requests : UNCHANGED Visiting(s)
  BY <1>4, <1>5 DEF Visiting
<1> QED BY <1>2, <1>3, <1>6, UnmovedKeeps DEF AllKept, Unmoved

LEMMA ReadMessageKeeps ==
    ASSUME IInv, AllKept, NEW r \in Requests, ReadMessage(r)
    PROVE  AllKept'
<1>1. ClientTypes /\ ChanTypes /\ CallerTypes
  BY TypeParts DEF IInv
<1>2. PICK msg \in Messages(r) :
        /\ client' = [client EXCEPT ![r] =
              [phase |-> IF msg \in Terminal THEN "ended" ELSE "streams",
               sent |-> IF msg = "stream_chunk" THEN @.sent + 1 ELSE @.sent]]
        /\ reader' = IF r \in pending THEN [pc |-> "send", id |-> r, msg |-> msg]
                     ELSE Reading
  BY DEF ReadMessage
<1>3. /\ msg \in MessageTypes /\ client[r].phase \in {"asked", "streams"}
      /\ client[r].phase = "asked" => msg # "stream_chunk" /\ msg # "stream_end"
      /\ client[r].phase = "streams" => msg \in {"error", "stream_end", "stream_chunk"}
  BY DEF Messages, MessageTypes
<1>4. reader.pc = "read" /\ UNCHANGED <<chan, caller, cleaner, canceled, lost>>
  BY DEF ReadMessage
<1>5. \A s \in Requests : Hand(s) = "none"
  BY <1>4 DEF Hand
<1>6. \A s \in Requests : s # r => Hand(s)' = "none"
  BY <1>2, RelayAssumption DEF Hand, Reading
<1>7. Grows /\ \A s \in Requests : s # r => Unmoved(s)
  BY <1>1, <1>2, <1>4, <1>5, <1>6 DEF Grows, Unmoved, Visiting, ClientTypes
<1>8. /\ client'[r].phase = IF msg \in Terminal THEN "ended" ELSE "streams"
      /\ client'[r].sent = IF msg = "stream_chunk" THEN client[r].sent + 1 ELSE client[r].sent
  BY <1>1, <1>2 DEF ClientTypes
<1>9. caller[r].pc \in {"wait", "done"}
  BY <1>3 DEF AllKept, Kept, Asked
<1>10. Delivery(r)'
  <2> SUFFICES ASSUME Live(r)
               PROVE  Whole(chan[r].queue, chan[r].closed, caller[r].got, client'[r].phase,
                            client'[r].sent, Hand(r)', Visiting(r))
    BY <1>4 DEF Delivery, Live, Visiting
  <2>1. Hand(r)' = msg \/ (Hand(r)' = "none" /\ chan[r].closed)
    <3>1. CASE r \in pending
      BY <1>2, <3>1 DEF Hand
    <3>2. CASE r \notin pending
      <4>1. chan[r].closed
        BY <1>9, <3>2 DEF Live, IInv, Links, OpenIsPending
      <4> QED BY <1>2, <3>2, <4>1 DEF Hand, Reading
    <3> QED BY <3>1, <3>2
  <2>2. chan[r].queue \in Seq(MessageTypes) /\ caller[r].got \in Nat /\ client[r].sent \in Nat
    BY <1>1 DEF ChanTypes, ChanRecord, CallerTypes, CallerRecord, ClientTypes
  <2>3. Whole(chan[r].queue, chan[r].closed, caller[r].got, client[r].phase, client[r].sent,
              "none", Visiting(r))
    BY <1>5 DEF AllKept, Kept, Delivery
  <2> DEFINE phase == client[r].phase
             next  == client'[r].phase
             more  == client'[r].sent
             hand  == Hand(r)'
  <2>4. /\ next = IF msg \in Terminal THEN "ended" ELSE "streams"
        /\ more = IF msg = "stream_chunk" THEN client[r].sent + 1 ELSE client[r].sent
    BY <1>8
  <2>5. /\ phase \in {"asked", "streams"} /\ msg \in MessageTypes
        /\ phase = "asked" => msg # "stream_chunk" /\ msg # "stream_end"
        /\ phase = "streams" => msg \in {"error", "stream_end", "stream_chunk"}
    BY <1>3
  <2>6. hand = msg \/ (hand = "none" /\ chan[r].closed)
    BY <2>1
  <2>7. Whole(chan[r].queue, chan[r].closed, caller[r].got, phase, client[r].sent, "none",
              Visiting(r))
    BY <2>3
  <2> DEFINE q    == chan[r].queue
             over == chan[r].closed
             got  == caller[r].got
             sent == client[r].sent
             seen == Visiting(r)
  <2>8. q \in Seq(MessageTypes) /\ got \in Nat /\ sent \in Nat
    BY <2>2
  <2>9. Whole(q, over, got, phase, sent, "none", seen)
    BY <2>7
  <2> HIDE DEF phase, next, more, hand, q, over, got, sent, seen
  <2>10. Whole(q, over, got, next, more, hand, seen)
    <3>1. hand = msg \/ (hand = "none" /\ over)
      BY <2>6 DEF over
    <3>2. more = IF msg = "stream_chunk" THEN sent + 1 ELSE sent
      BY <2>4 DEF sent
    <3> QED BY <2>4, <2>5, <2>8, <2>9, <3>1, <3>2, WholeRead
  <2> QED BY <2>10 DEF next, more, hand, q, over, got, sent, seen
<1>11. Kept(r)'
  BY <1>3, <1>4, <1>9, <1>10 DEF AllKept, Kept, Asked, Answered
<1> QED BY <1>4, <1>7, <1>11, UnmovedKeeps DEF AllKept

LEMMA DispatchSendKeeps ==
    ASSUME IInv, AllKept, DispatchSend
    PROVE  AllKept'
<1>1. ClientTypes /\ ChanTypes /\ CallerTypes /\ ReaderTypes
  BY TypeParts DEF IInv
<1>2. PICK r \in Requests, m \in MessageTypes :
        /\ reader.id = r /\ reader.msg = m /\ reader.pc = "send" /\ Offer(r, m)
        /\ reader' = IF m \in Terminal THEN [reader EXCEPT !.pc = "delete"] ELSE Reading
  BY <1>1 DEF DispatchSend, ReaderTypes
<1>3. UNCHANGED <<client, caller, cleaner, canceled>>
  BY DEF DispatchSend
<1>4. Hand(r) = m /\ Hand(r)' = (IF m \in Terminal THEN "delete" ELSE "none")
        /\ \A s \in Requests : s # r => Hand(s) = "none" /\ Hand(s)' = "none"
  <2>1. reader \in [pc : {"send", "delete", "off"}, id : Requests \cup {NoRequest},
                    msg : MessageTypes \cup {"none"}]
    BY <1>1, <1>2 DEF ReaderTypes, Reading
  <2>2. [reader EXCEPT !.pc = "delete"].id = r /\ [reader EXCEPT !.pc = "delete"].pc = "delete"
    BY <1>2, <2>1
  <2> QED BY <1>2, <2>2, RelayAssumption DEF Hand, Reading
<1>5. lost \subseteq lost'
  BY <1>2 DEF Offer
<1>6. \A s \in Requests : s # r => chan'[s] = chan[s]
  BY <1>1, <1>2 DEF Offer, ChanTypes
<1>7. Grows /\ \A s \in Requests : s # r => Unmoved(s)
  BY <1>3, <1>4, <1>5, <1>6 DEF Grows, Unmoved, Visiting
<1>8. Delivery(r)'
  <2> SUFFICES ASSUME r \notin canceled \cup lost', caller[r].pc # "done"
               PROVE  Whole(chan'[r].queue, chan'[r].closed, caller[r].got, client[r].phase,
                            client[r].sent, Hand(r)', Visiting(r))
    BY <1>3 DEF Delivery, Live, Visiting
  <2> DEFINE q == chan[r].queue
  <2>1. q \in Seq(MessageTypes) /\ caller[r].got \in Nat /\ client[r].sent \in Nat
    BY <1>1 DEF ChanTypes, ChanRecord, CallerTypes, CallerRecord, ClientTypes
  <2>2. Whole(q, chan[r].closed, caller[r].got, client[r].phase, client[r].sent, m, Visiting(r))
    BY <1>4, <1>5 DEF AllKept, Kept, Delivery, Live
  <2>3. CASE chan[r].closed
    <3>1. UNCHANGED chan
      BY <1>2, <2>3 DEF Offer
    <3>2. Over(q, client[r].phase)
      BY <2>2, <2>3 DEF Whole
    <3>3. Whole(q, chan[r].closed, caller[r].got, client[r].phase, client[r].sent, Hand(r)',
                Visiting(r))
      <4>1. Hand(r)' \notin MessageTypes /\ Hand(r)' # "stream_start"
        BY <1>4 DEF MessageTypes
      <4>2. client[r].phase \notin {"none", "asked"}
        BY <2>2 DEF Whole, MessageTypes
      <4>3. client[r].phase = "streams" => ~AllClean(q)
        BY <3>2 DEF Over
      <4> QED BY <2>2, <3>2, <4>1, <4>2, <4>3 DEF Whole
    <3> QED BY <3>1, <3>3
  <2>4. CASE ~chan[r].closed
    <3>1. chan' = [chan EXCEPT ![r].queue = Append(q, m)]
      BY <1>2, <2>4 DEF Offer
    <3>2. chan'[r].queue = Append(q, m) /\ chan'[r].closed = chan[r].closed
      BY <1>1, <3>1 DEF ChanTypes, ChanRecord
    <3> QED BY <1>4, <2>1, <2>2, <3>2, WholeSend
  <2> QED BY <2>3, <2>4
<1>9. Kept(r)'
  BY <1>3, <1>5, <1>8 DEF AllKept, Kept, Asked, Answered
<1> QED BY <1>3, <1>7, <1>9, UnmovedKeeps DEF AllKept

LEMMA DispatchDeleteKeeps ==
    ASSUME IInv, AllKept, DispatchDelete
    PROVE  AllKept'
<1>1. ChanTypes /\ SetTypes /\ ReaderTypes
  BY TypeParts DEF IInv
<1>2. PICK r \in Requests : reader.id = r /\ CloseIfPending(r)
  BY <1>1 DEF DispatchDelete, ReaderTypes
<1>3. reader.pc = "delete" /\ reader' = Reading /\ UNCHANGED <<client, caller, cleaner,
    canceled, lost>>
  BY DEF DispatchDelete
<1>4. Closing(r)
  BY <1>1, <1>2, <1>3, CloseIfPendingStep
<1>5. Hand(r) = "delete" /\ Hand(r)' = "none"
        /\ \A s \in Requests : s # r => Hand(s) = "none" /\ Hand(s)' = "none"
  BY <1>2, <1>3, RelayAssumption DEF Hand, Reading
<1>6. Grows /\ \A s \in Requests : s # r => Unmoved(s)
  BY <1>3, <1>4, <1>5 DEF Grows, Unmoved, Visiting, Closing
<1>7. chan'[r].queue = chan[r].queue
  BY <1>1, <1>2 DEF CloseIfPending, Close, ChanTypes, ChanRecord
<1>8. Delivery(r)'
  <2> SUFFICES ASSUME Live(r)
               PROVE  Whole(chan[r].queue, chan'[r].closed, caller[r].got, client[r].phase,
                            client[r].sent, "none", Visiting(r))
    BY <1>3, <1>5, <1>7 DEF Delivery, Live, Visiting
  <2>1. Whole(chan[r].queue, chan[r].closed, caller[r].got, client[r].phase, client[r].sent,
              "delete", Visiting(r))
    BY <1>5 DEF AllKept, Kept, Delivery
  <2>2. Over(chan[r].queue, client[r].phase)
    BY <2>1 DEF Whole
  <2> QED BY <2>1, <2>2, WholeEnds
<1>9. Kept(r)'
  BY <1>3, <1>8 DEF AllKept, Kept, Asked, Answered
<1> QED BY <1>3, <1>6, <1>9, UnmovedKeeps DEF AllKept

LEMMA VisitKeeps ==
    ASSUME IInv, AllKept, Visit
    PROVE  AllKept'
<1>1. ClientTypes /\ ChanTypes /\ CallerTypes /\ CleanerTypes
  BY TypeParts DEF IInv
<1>2. PICK r \in Requests : cleaner.id = r /\ Offer(r, "error")
  BY <1>1 DEF Visit, CleanerTypes
<1>3. cleaner.pc = "visit" /\ UNCHANGED <<client, caller, reader, canceled>>
        /\ cleaner'.pc = "close" /\ cleaner'.id = r
  BY <1>1, <1>2 DEF Visit, CleanerTypes, CleanerRecord
<1>4. Visiting(r) = FALSE /\ Visiting(r)' = TRUE
        /\ \A s \in Requests : s # r => Visiting(s) = FALSE /\ Visiting(s)' = FALSE
  BY <1>3 DEF Visiting
<1>5. lost \subseteq lost' /\ \A s \in Requests : s # r => chan'[s] = chan[s]
  BY <1>1, <1>2 DEF Offer, ChanTypes
<1>6. Grows /\ \A s \in Requests : s # r => Unmoved(s)
  BY <1>3, <1>4, <1>5 DEF Grows, Unmoved, Hand
<1>7. Delivery(r)'
  <2> SUFFICES ASSUME r \notin canceled \cup lost', caller[r].pc # "done"
               PROVE  Whole(chan'[r].queue, chan'[r].closed, caller[r].got, client[r].phase,
                            client[r].sent, Hand(r), TRUE)
    BY <1>3, <1>4 DEF Delivery, Live, Hand
  <2> DEFINE q == chan[r].queue
  <2>1. q \in Seq(MessageTypes) /\ caller[r].got \in Nat /\ client[r].sent \in Nat
    BY <1>1 DEF ChanTypes, ChanRecord, CallerTypes, CallerRecord, ClientTypes
  <2>2. Whole(q, chan[r].closed, caller[r].got, client[r].phase, client[r].sent, Hand(r), FALSE)
    BY <1>4, <1>5 DEF AllKept, Kept, Delivery, Live
  <2>3. CASE chan[r].closed
    <3>1. UNCHANGED chan
      BY <1>2, <2>3 DEF Offer
    <3>2. Over(q, client[r].phase)
      BY <2>2, <2>3 DEF Whole
    <3> QED BY <2>2, <2>3, <3>1, <3>2 DEF Whole
  <2>4. CASE ~chan[r].closed
    <3>1. chan' = [chan EXCEPT ![r].queue = Append(q, "error")]
      BY <1>2, <2>4 DEF Offer
    <3>2. chan'[r].queue = Append(q, "error") /\ chan'[r].closed = chan[r].closed
      BY <1>1, <3>1 DEF ChanTypes, ChanRecord
    <3> QED BY <2>1, <2>2, <3>2, WholeError
  <2> QED BY <2>3, <2>4
<1>8. Kept(r)'
  BY <1>3, <1>5, <1>7 DEF AllKept, Kept, Asked, Answered
<1> QED BY <1>3, <1>6, <1>8, UnmovedKeeps DEF AllKept

LEMMA VisitCloseKeeps ==
    ASSUME IInv, AllKept, VisitClose
    PROVE  AllKept'
<1>1. ChanTypes /\ CleanerTypes
  BY TypeParts DEF IInv
<1>2. PICK r \in Requests : cleaner.id = r /\ Close(r)
  BY <1>1 DEF VisitClose, CleanerTypes
<1>3. cleaner.pc = "close" /\ cleaner'.pc = "range" /\ UNCHANGED <<client, caller, reader,
    canceled, lost>>
  BY <1>1 DEF VisitClose, CleanerTypes, CleanerRecord
<1>4. Visiting(r) = TRUE /\ Visiting(r)' = FALSE
        /\ \A s \in Requests : s # r => Visiting(s) = FALSE /\ Visiting(s)' = FALSE
  BY <1>2, <1>3 DEF Visiting
<1>5. chan'[r].queue = chan[r].queue /\ \A s \in Requests : s # r => chan'[s] = chan[s]
  BY <1>1, <1>2 DEF Close, ChanTypes, ChanRecord
<1>6. Grows /\ \A s \in Requests : s # r => Unmoved(s)
  BY <1>3, <1>4, <1>5 DEF Grows, Unmoved, Hand
<1>7. Delivery(r)'
  <2> SUFFICES ASSUME Live(r)
               PROVE  Whole(chan[r].queue, chan'[r].closed, caller[r].got, client[r].phase,
                            client[r].sent, Hand(r), FALSE)
    BY <1>3, <1>4, <1>5 DEF Delivery, Live, Hand
  <2>1. Whole(chan[r].queue, chan[r].closed, caller[r].got, client[r].phase, client[r].sent,
              Hand(r), TRUE)
    BY <1>4 DEF AllKept, Kept, Delivery
  <2>2. Over(chan[r].queue, client[r].phase)
    BY <2>1 DEF Whole
  <2> QED BY <2>1, <2>2, WholeEnds
<1>8. Kept(r)'
  BY <1>3, <1>7 DEF AllKept, Kept, Asked, Answered
<1> QED BY <1>3, <1>6, <1>8, UnmovedKeeps DEF AllKept

LEMMA NextKeeps == IInv /\ AllKept /\ [Next]_vars => AllKept'
<1> SUFFICES ASSUME IInv, AllKept, [Next]_vars PROVE AllKept'
  OBVIOUS
<1>1. CASE UNCHANGED vars
  BY <1>1 DEF vars, AllKept, Kept, Delivery, Asked, Answered, Live, Hand, Visiting
<1>2. ASSUME NEW r \in Requests, Caller(r) PROVE AllKept'
  BY <1>2, CallerKeeps, WriteKeeps, UndoKeeps, ReceiveKeeps, ReceiveEndKeeps DEF Caller
<1>3. ASSUME NEW r \in Requests, Watcher(r) \/ Client(r) PROVE AllKept'
  BY <1>3, WatchKeeps, QuietKeeps, ReadMessageKeeps DEF Watcher, Client
<1>4. CASE Reader
  BY <1>4, DispatchSendKeeps, DispatchDeleteKeeps DEF Reader
<1>5. CASE Cleaner
  BY <1>5, QuietKeeps, VisitKeeps, VisitCloseKeeps DEF Cleaner
<1>6. CASE Failure
  BY <1>6, QuietKeeps DEF Failure
<1> QED BY <1>1, <1>2, <1>3, <1>4, <1>5, <1>6 DEF Next

\* A caller is told of success only when it has got all the client has sent,
\* for any number of requests, chunks and places in a channel: the queue of a
\* channel, the reader's hand and what was received add up to what was sent
\* until the first error, and every end of a channel is announced in it.
THEOREM SuccessMeansWhole == Spec => []SuccessIsWhole
<1>1. AllKept => SuccessIsWhole
  BY DEF AllKept, Kept, Answered, SuccessIsWhole
<1> QED BY <1>1, InitKept, NextKeeps, IInvHolds, PTL DEF Spec

=============================================================================
