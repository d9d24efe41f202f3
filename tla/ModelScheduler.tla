---------------------------- MODULE ModelScheduler ----------------------------
(***************************************************************************)
(* authScheduler of sdk/cliproxy/auth/scheduler.go for one model: the shard *)
(* of each provider with its entries and the indexes kept beside them (the *)
(* ready views of every priority with their rotation cursors, the waiting  *)
(* entries), and the weighted rotation over several providers. Everything  *)
(* here runs under s.mu: an action is one call.                            *)
(*                                                                         *)
(* Credentials, providers and parents are numbers: their order is the      *)
(* order of the names. A time is what is left of it, 0 once it has passed, *)
(* NoTime for the zero time.Time. A cursor counts from 0 as in the code.   *)
(***************************************************************************)
EXTENDS Integers, FiniteSets, Sequences, FiniteSetsExt, Functions

CONSTANTS Auths,     \* credential identifiers, in the order of their names
          Providers, \* providers, in the order a mixed request lists them
          Setups,    \* deployments: the providers in use, the scheduling fields
                     \* each credential may have, and its block states (a bound)
          Eligible,  \* the sets of credentials requests may use (a bound)
          MaxServed, \* length of the windows the rotation is judged on
          NoAuth, NoParent, NoTime

ASSUME NamesAssumption ==
  /\ Auths \subseteq Nat /\ IsFiniteSet(Auths)
  /\ Providers \subseteq Nat \ {0} /\ IsFiniteSet(Providers)
ASSUME NoneAssumption == NoAuth \notin Auths /\ NoParent \notin Nat /\ NoTime \notin Nat
ASSUME SetupsAssumption ==
  \A w \in Setups :
    /\ w.providers \subseteq Providers
    /\ w.blocks \subseteq [off : BOOLEAN, retry : Nat \cup {NoTime},
                          recover : Nat \cup {NoTime}, exceeded : BOOLEAN]
    /\ \A a \in Auths :
         w.metas[a] \subseteq [provider : w.providers, priority : Nat,
                             parent : Nat \cup {NoParent}, ws : BOOLEAN,
                             supported : BOOLEAN]

VARIABLES setup,     \* the deployment, which never changes
          meta,      \* scheduledAuthMeta of the credentials the scheduler has
          block,     \* what isAuthBlockedForModel reads of their records
          providers, \* providers with a providerScheduler
          shard,     \* modelShards[model] of the providers that have built it
          mixed,     \* mixedCursors of the list of all providers
          turn,      \* history: the kind of pick the current window is of
          served     \* history: how often it picked each credential

state == <<meta, block, providers, shard, mixed>>
schedulerVars == <<setup, state, turn, served>>

After(t) == t # NoTime /\ t > 0
IsBlocked(b) == b.off \/ After(b.retry)

InOrder(S) ==
  [i \in 1..Cardinality(S) |-> CHOOSE a \in S : Cardinality({b \in S : b <= a}) = i]

-----------------------------------------------------------------------------
(* Entries and indexes                                                      *)

\* The state of an entry: what isAuthBlockedForModel answers.
Evaluated(b) ==
  IF b.off THEN [state |-> "disabled", retry |-> NoTime]
  ELSE IF After(b.retry)
       THEN [state |-> IF b.exceeded THEN "cooldown" ELSE "blocked",
             retry |-> IF After(b.recover) THEN b.recover ELSE b.retry]
       ELSE [state |-> "ready", retry |-> NoTime]

\* buildReadyView: grouped when everyone has a parent and there are several.
BuildView(S, M) ==
  LET parents == {M[a].parent : a \in S}
      groups == IF NoParent \notin parents /\ Cardinality(parents) > 1
                THEN parents ELSE {}
  IN  [flat |-> InOrder(S), cursor |-> 0,
       parents |-> InOrder(groups), parentCursor |-> 0,
       items |-> [g \in groups |-> InOrder({a \in S : M[a].parent = g})],
       itemCursor |-> [g \in groups |-> 0]]
BuildBucket(S, M) ==
  [all |-> BuildView(S, M), ws |-> BuildView({a \in S : M[a].ws}, M)]

Normal(cursor, size) == IF size = 0 THEN 0 ELSE cursor % size
Restored(v, old) ==
  [v EXCEPT !.cursor = Normal(old.cursor, Len(v.flat)),
            !.parentCursor = Normal(old.parentCursor, Len(v.parents)),
            !.itemCursor = [g \in DOMAIN v.items |->
               IF g \in DOMAIN old.items
               THEN Normal(old.itemCursor[g], Len(v.items[g])) ELSE 0]]

InState(sh, S) == {a \in DOMAIN sh.entries : sh.entries[a].state \in S}

\* Mutant of RebuildIndexes: an entry whose quota is spent does not wait.
RebuildBlockedOnly(sh, M) ==
  LET free == InState(sh, {"ready"})
      At(k) == {a \in free : M[a].priority = k}
  IN  [sh EXCEPT !.ready = [k \in {M[a].priority : a \in free} |->
                              BuildBucket(At(k), M)],
                 !.waiting = InState(sh, {"blocked"})]

RebuildIndexes(sh, M) ==
  LET free == InState(sh, {"ready"})
      Bucket(k) ==
        LET new == BuildBucket({a \in free : M[a].priority = k}, M)
        IN  IF k \in DOMAIN sh.ready
            THEN [all |-> Restored(new.all, sh.ready[k].all),
                  ws |-> Restored(new.ws, sh.ready[k].ws)]
            ELSE new
  IN  [sh EXCEPT !.ready = [k \in {M[a].priority : a \in free} |-> Bucket(k)],
                 !.waiting = InState(sh, {"cooldown", "blocked"})]

\* Whether an entry keeps its place in the indexes. Mutant: a credential
\* that gets another parent stays where it was.
SamePlaceNoParent(old, new) == old.priority = new.priority /\ old.ws = new.ws
SamePlace(old, new) ==
  /\ old.priority = new.priority /\ old.parent = new.parent
  /\ old.ws = new.ws

With(f, x, y) == [z \in DOMAIN f \cup {x} |-> IF z = x THEN y ELSE f[z]]
Without(f, x) == Restrict(f, DOMAIN f \ {x})

UpsertEntry(sh, a, M, b) ==
  LET put == [sh EXCEPT !.entries = With(@, a, Evaluated(b))]
  IN  IF a \in DOMAIN sh.entries /\ sh.entries[a] = Evaluated(b)
         /\ SamePlace(meta[a], M[a])
      THEN put ELSE RebuildIndexes(put, M)
RemoveEntry(sh, a, M) ==
  IF a \in DOMAIN sh.entries
  THEN RebuildIndexes([sh EXCEPT !.entries = Without(@, a)], M) ELSE sh

Due(sh) == {a \in sh.waiting : sh.entries[a].retry = 0}
PromoteExpired(sh) ==
  IF Due(sh) = {} THEN sh
  ELSE RebuildIndexes(
         [sh EXCEPT !.entries = [a \in DOMAIN @ |->
            IF a \in Due(sh) THEN Evaluated(block[a]) ELSE @[a]]], meta)

NoShard == [entries |-> [a \in {} |-> 0], ready |-> [k \in {} |-> 0], waiting |-> {}]
MembersOf(p) == {a \in DOMAIN meta : meta[a].provider = p /\ meta[a].supported}
EnsureModel(p) ==
  IF p \in DOMAIN shard THEN PromoteExpired(shard[p])
  ELSE RebuildIndexes([NoShard EXCEPT !.entries =
                         [a \in MembersOf(p) |-> Evaluated(block[a])]], meta)

-----------------------------------------------------------------------------
(* Picking. E is the set of credentials the request may use: those it has   *)
(* not tried, or the one it is pinned to.                                   *)

\* The position whose element is picked: the first in E from the cursor on.
Position(s, cursor, E) ==
  LET n == Len(s)
      Index(k) == ((((cursor % n) + k) % n) + 1)
  IN  Index(Min({k \in 0..(n - 1) : s[Index(k)] \in E}))

HasMatch(v, E) == Range(v.flat) \cap E # {}
PickFirst(v, E) == [auth |-> v.flat[Position(v.flat, 0, E)], view |-> v]
PickFlat(v, E) ==
  LET k == Position(v.flat, v.cursor, E)
  IN  [auth |-> v.flat[k], view |-> [v EXCEPT !.cursor = k]]
PickGrouped(v, E) ==
  LET able == {g \in DOMAIN v.items : Range(v.items[g]) \cap E # {}}
      k == Position(v.parents, v.parentCursor, able)
      g == v.parents[k]
      i == Position(v.items[g], v.itemCursor[g], E)
  IN  [auth |-> v.items[g][i],
       view |-> [v EXCEPT !.parentCursor = k, !.itemCursor[g] = i]]
PickFrom(v, strategy, E) ==
  IF strategy = "fill_first" THEN PickFirst(v, E)
  ELSE IF Len(v.parents) > 1 THEN PickGrouped(v, E)
  ELSE PickFlat(v, E)

NoPriority == -1
Matching(sh, view, E) == {k \in DOMAIN sh.ready : HasMatch(sh.ready[k][view], E)}
HighestReady(sh, preferWs, E) ==
  IF preferWs /\ Matching(sh, "ws", E) # {} THEN Max(Matching(sh, "ws", E))
  ELSE IF Matching(sh, "all", E) # {} THEN Max(Matching(sh, "all", E))
  ELSE NoPriority

ViewAt(sh, k, preferWs, E) ==
  IF preferWs /\ HasMatch(sh.ready[k].ws, E) THEN "ws" ELSE "all"
PickAt(sh, k, preferWs, strategy, E) ==
  LET view == ViewAt(sh, k, preferWs, E)
      pick == PickFrom(sh.ready[k][view], strategy, E)
  IN  [auth |-> pick.auth, shard |-> [sh EXCEPT !.ready[k][view] = pick.view]]

Nothing(shards) == [auth |-> NoAuth, shard |-> shards, mixed |-> mixed]

\* The shards a pick works on are built, and their expired entries promoted.
Prepared == [p \in providers |-> EnsureModel(p)]

PickSingle(p, shards, preferWs, strategy, E) ==
  LET k == HighestReady(shards[p], preferWs, E)
      pick == PickAt(shards[p], k, preferWs, strategy, E)
  IN  CASE p \notin providers -> Nothing(shard)
        [] p \in providers /\ k = NoPriority -> Nothing(With(shard, p, shards[p]))
        [] OTHER -> [auth |-> pick.auth, shard |-> With(shard, p, pick.shard),
                     mixed |-> mixed]

\* The slot after a pick by the provider whose turn it was, or by another one
\* that stepped in. Mutant: the slot never moves on within a segment.
SlotAfterStart(own, slot, start) == start + 1
SlotAfter(own, slot, start) == IF own THEN slot + 1 ELSE start + 1

\* The weight of a provider is the size of its ready bucket of the best
\* priority; a slot of the rotation belongs to the provider in whose segment
\* it lies.
PickMixed(shards, strategy, E) ==
  LET best == Max({HighestReady(shards[p], FALSE, E) : p \in providers}
                  \cup {NoPriority})
      Able(p) == best \in Matching(shards[p], "all", E)
      weight == [p \in Providers |->
                   IF p \in providers /\ best \in DOMAIN shards[p].ready
                   THEN Len(shards[p].ready[best].all.flat) ELSE 0]
      Start(p) == SumFunctionOnSet(weight, {q \in Providers : q < p})
      slot == mixed % SumFunctionOnSet(weight, Providers)
      first == CHOOSE p \in Providers :
                 Start(p) <= slot /\ slot < Start(p) + weight[p]
      After1(p) == IF p >= first THEN p ELSE p + Max(Providers)
      chosen == IF strategy = "fill_first"
                THEN Min({p \in providers : Able(p)})
                ELSE CHOOSE p \in providers :
                       /\ Able(p)
                       /\ \A q \in providers : Able(q) => After1(p) <= After1(q)
      pick == PickAt(shards[chosen], best, FALSE, strategy, E)
  IN  IF best = NoPriority THEN Nothing(shards)
      ELSE [auth |-> pick.auth,
            shard |-> [shards EXCEPT ![chosen] = pick.shard],
            mixed |-> IF strategy = "fill_first" THEN mixed
                      ELSE SlotAfter(chosen = first, slot, Start(chosen))]

-----------------------------------------------------------------------------
(* The windows on which the rotation is judged: picks of one kind, without  *)
(* restriction, as long as the views they rotate over stay as they are.     *)

NoTurn == <<>>
Mixed == <<"mixed">>
Members(v) == <<v.flat, v.parents, v.items>>
TopView(sh, ws) ==
  LET k == HighestReady(sh, ws, Auths)
  IN  IF k = NoPriority THEN <<>>
      ELSE Members(sh.ready[k][ViewAt(sh, k, ws, Auths)])
Best(S) == Max({HighestReady(S[p], FALSE, Auths) : p \in DOMAIN S} \cup {NoPriority})
Contest(t, S) ==
  CASE t = NoTurn -> <<>>
    [] t = Mixed -> [p \in DOMAIN S |-> IF Best(S) \in DOMAIN S[p].ready
                                          THEN Members(S[p].ready[Best(S)].all)
                                          ELSE <<>>]
    [] OTHER -> IF t[2] \in DOMAIN S THEN TopView(S[t[2]], t[3]) ELSE <<>>

NoneServed == [a \in Auths |-> 0]
Served == SumFunctionOnSet(served, Auths)
Picked(t, a) ==
  /\ turn' = t
  /\ served' = IF t = turn /\ Contest(t, shard') = Contest(t, shard)
                  /\ Served < MaxServed
               THEN [served EXCEPT ![a] = @ + 1]
               ELSE [NoneServed EXCEPT ![a] = 1]
Restart == turn' = NoTurn /\ served' = NoneServed
Undisturbed ==
  IF Contest(turn, shard') = Contest(turn, shard)
  THEN UNCHANGED <<turn, served>> ELSE Restart

-----------------------------------------------------------------------------
(* The operations                                                           *)

\* The credential may have moved to another provider.
Moved(a, m) == a \in DOMAIN meta /\ meta[a].provider # m.provider

UpsertAuth(a, m, b) ==
  LET M == With(meta, a, m)
  IN  /\ meta' = M
      /\ block' = With(block, a, b)
      /\ providers' = providers \cup {m.provider}
      /\ shard' = [p \in DOMAIN shard |->
           CASE p = m.provider /\ m.supported -> UpsertEntry(shard[p], a, M, b)
             [] p = m.provider /\ ~m.supported -> RemoveEntry(shard[p], a, M)
             [] p # m.provider /\ Moved(a, m) -> RemoveEntry(shard[p], a, M)
             [] OTHER -> shard[p]]
      /\ Undisturbed
      /\ UNCHANGED mixed

RemoveAuth(a) ==
  /\ a \in DOMAIN meta
  /\ meta' = Without(meta, a)
  /\ block' = Without(block, a)
  /\ shard' = [p \in DOMAIN shard |-> RemoveEntry(shard[p], a, meta)]
  /\ Undisturbed
  /\ UNCHANGED <<providers, mixed>>

\* rebuild, from the records the manager has at this moment.
Rebuild ==
  /\ shard' = [p \in {} |-> NoShard]
  /\ providers' = {meta[a].provider : a \in DOMAIN meta}
  /\ mixed' = 0
  /\ Restart
  /\ UNCHANGED <<meta, block>>

SetSelector ==
  /\ mixed' = 0
  /\ Restart
  /\ UNCHANGED <<meta, block, providers, shard>>

Take(pick) ==
  /\ shard' = pick.shard
  /\ mixed' = pick.mixed
  /\ UNCHANGED <<meta, block, providers>>

\* A plugin may choose the strategy of a request.
RequestSingle(p, preferWs, strategy, E) ==
  \E pick \in {PickSingle(p, Prepared, preferWs, strategy, E)} :
    /\ Take(pick)
    /\ IF strategy = "round_robin" /\ E = Auths /\ pick.auth # NoAuth
       THEN Picked(<<"single", p, preferWs>>, pick.auth) ELSE Restart

\* A request that lists one provider is a single one.
RequestMixed(strategy, E) ==
  \E pick \in {PickMixed(Prepared, strategy, E)} :
    /\ Cardinality(setup.providers) > 1
    /\ Take(pick)
    /\ IF strategy = "round_robin" /\ E = Auths /\ pick.auth # NoAuth
       THEN Picked(Mixed, pick.auth) ELSE Restart

Less(t) == IF t = NoTime \/ t = 0 THEN t ELSE t - 1
Sooner(entry) == [entry EXCEPT !.retry = Less(@)]
Later(sh) ==
  [sh EXCEPT !.entries = [a \in DOMAIN sh.entries |-> Sooner(sh.entries[a])]]
Tick ==
  /\ block' = [a \in DOMAIN block |->
       [block[a] EXCEPT !.retry = Less(@), !.recover = Less(@)]]
  /\ shard' = [p \in DOMAIN shard |-> Later(shard[p])]
  /\ UNCHANGED <<meta, providers, mixed, turn, served>>

SchedulerInit ==
  /\ setup \in Setups
  /\ meta = [a \in {} |-> NoAuth]
  /\ block = [a \in {} |-> NoAuth]
  /\ providers = {}
  /\ shard = [p \in {} |-> NoShard]
  /\ mixed = 0
  /\ turn = NoTurn
  /\ served = NoneServed

Strategies == {"round_robin", "fill_first"}
SchedulerNext ==
  /\ \/ \E a \in Auths, b \in setup.blocks :
          \E m \in setup.metas[a] : UpsertAuth(a, m, b)
     \/ \E a \in Auths : RemoveAuth(a)
     \/ Rebuild
     \/ SetSelector
     \/ \E p \in setup.providers, preferWs \in BOOLEAN, s \in Strategies,
          E \in Eligible : RequestSingle(p, preferWs, s, E)
     \/ \E s \in Strategies, E \in Eligible : RequestMixed(s, E)
     \/ Tick
  /\ UNCHANGED setup
SchedulerSpec == SchedulerInit /\ [][SchedulerNext]_schedulerVars

-----------------------------------------------------------------------------
(* Properties                                                               *)

\* The indexes are those a rebuild from the entries would give, whatever the
\* upserts that found nothing to reorder skipped, and the entries are exactly
\* the provider's credentials that support the model.
IndexAgrees ==
  \A p \in DOMAIN shard :
    LET sh == shard[p]
        new == RebuildIndexes([sh EXCEPT !.ready = [k \in {} |-> 0]], meta)
    IN  /\ DOMAIN sh.entries = MembersOf(p)
        /\ sh.waiting = new.waiting
        /\ DOMAIN sh.ready = DOMAIN new.ready
        /\ \A k \in DOMAIN sh.ready :
              /\ Members(sh.ready[k].all) = Members(new.ready[k].all)
              /\ Members(sh.ready[k].ws) = Members(new.ready[k].ws)

\* What a request could be given: a credential that is not blocked and for
\* which no recovery of a quota is pending.
Usable(E) ==
  {a \in E \cap DOMAIN meta :
     meta[a].supported /\ ~IsBlocked(block[a]) /\ ~After(block[a].recover)}

\* a is a right answer to a request that may use the credentials of E and
\* could be given those of U.
RightAnswer(a, E, U, preferWs) ==
  IF a = NoAuth THEN U = {}
  ELSE /\ a \in E \cap DOMAIN meta /\ meta[a].supported /\ ~IsBlocked(block[a])
       /\ IF preferWs /\ meta[a].ws
          THEN \A b \in U : meta[b].ws => meta[b].priority <= meta[a].priority
          ELSE \A b \in U : /\ meta[b].priority <= meta[a].priority
                            /\ ~(preferWs /\ meta[b].ws)

\* Whatever the upserts, promotions and rebuilds so far, and however much
\* time has passed unnoticed, the next request of any kind is given a
\* credential that is not blocked, of the highest priority there is (of those
\* with websockets, when it prefers them), and fails only when none is left.
PicksAreRight ==
  \A S \in {Prepared} : \A s \in Strategies, E \in SUBSET Auths :
    /\ \A p \in setup.providers, preferWs \in BOOLEAN :
         RightAnswer(PickSingle(p, S, preferWs, s, E).auth, E,
                     Usable(E) \cap MembersOf(p), preferWs)
    /\ Cardinality(setup.providers) > 1 =>
         RightAnswer(PickMixed(S, s, E).auth, E, Usable(E), FALSE)

Sum(S) == SumFunctionOnSet(served, S)
EvenOver(S) == \A a, b \in S : served[a] <= served[b] + 1

\* While the views stay as they are the rotation is even: no credential is a
\* turn behind another, and with groups no group behind another and none
\* within its group. Entries that change without moving, other shards and
\* lower priorities do not disturb it.
RotationIsEven ==
  CASE turn = NoTurn -> TRUE
    [] turn = Mixed ->
         LET S == [p \in DOMAIN shard |->
                     IF Best(shard) \in DOMAIN shard[p].ready
                     THEN shard[p].ready[Best(shard)].all ELSE BuildView({}, meta)]
         IN  (\A p \in DOMAIN S : S[p].parents = <<>>) =>
               EvenOver(UNION {Range(S[p].flat) : p \in DOMAIN S})
    [] OTHER ->
         LET sh == shard[turn[2]]
             k == HighestReady(sh, turn[3], Auths)
             v == sh.ready[k][ViewAt(sh, k, turn[3], Auths)]
         IN  IF k = NoPriority THEN TRUE
             ELSE IF v.parents = <<>> THEN EvenOver(Range(v.flat))
             ELSE /\ \A g \in DOMAIN v.items : EvenOver(Range(v.items[g]))
                  /\ \A g, h \in DOMAIN v.items :
                       Sum(Range(v.items[g])) <= Sum(Range(v.items[h])) + 1

=============================================================================
