------------------------------ MODULE Conductor ------------------------------
(***************************************************************************)
(* The auth manager of sdk/cliproxy/auth (conductor.go) and the two views  *)
(* derived from it: the scheduler that requests pick credentials from      *)
(* (scheduler.go) and the global model registry (internal/registry).       *)
(* Each of the three has a mutex of its own and no operation holds two of  *)
(* them while it changes both (the failing branch of refreshAuth excepted),*)
(* so an operation is a sequence of critical sections and the operations   *)
(* of other goroutines run in between.                                     *)
(*                                                                         *)
(* A goroutine is a member of Procs; job[p] says where its operation is.   *)
(* An auth record keeps of ModelStates what routing depends on: the models *)
(* that have a state, those whose state carries an error, and until when   *)
(* each one is blocked (AuthCooldown models how that is computed).         *)
(* One provider; the choice among ready credentials is left open           *)
(* (ModelScheduler models it).                                             *)
(***************************************************************************)
EXTENDS Naturals, FiniteSets

CONSTANTS Auths,      \* credential identifiers
          Models,     \* canonical model keys
          Procs,      \* goroutines: requests, refresh workers, service, API
          Cooldowns,  \* durations a failed result may block a model for
          MaxTime,    \* bound on the clock
          Operations, \* the kinds of operation an instance runs (a bound)
          NoAuth      \* no credential (a nil *Auth)

AuthRec == [disabled : BOOLEAN, tracked : SUBSET Models,
            failed : SUBSET Models, until : [Models -> Nat]]

ASSUME CooldownsAssumption == Cooldowns \subseteq Nat
ASSUME MaxTimeAssumption == MaxTime \in Nat
ASSUME NoAuthAssumption == NoAuth \notin AuthRec \cup Auths \cup Models

VARIABLES now,        \* the wall clock
          auths,      \* Manager.auths: the records, under m.mu
          registered, \* registry.clientModels: models per client
          suspended,  \* registry marks (SuspendedClients, QuotaExceededClients)
          schedAuth,  \* scheduledAuth.auth: what the scheduler holds, under s.mu
          aliased,    \* entries that point to the very object in Manager.auths
          supports,   \* scheduledAuthMeta.supportedModelSet
          shards,     \* models whose shard has been built
          ready,      \* models for which the entry is in state Ready
          retryAt,    \* scheduledAuth.nextRetryAt per model
          job,        \* where each goroutine is
          snap,       \* the records a goroutine holds outside the locks
          live,       \* goroutines whose held record is the manager's object
          stale       \* history: auths whose updates were applied out of order

manager == <<auths>>
registry == <<registered, suspended>>
entries == <<supports, shards, ready, retryAt>>
scheduler == <<schedAuth, aliased, entries>>
vars == <<now, manager, registry, scheduler, job, snap, live, stale>>

-----------------------------------------------------------------------------
Zero == [m \in Models |-> 0]
NoAuths == [a \in Auths |-> NoAuth]
CleanRec(d) == [disabled |-> d, tracked |-> {}, failed |-> {}, until |-> Zero]

UpsertPcs == {"mark_upsert", "apply_upsert", "reconcile_upsert",
              "entry_upsert", "update_upsert", "inventory_upsert",
              "remove_sched"}
Pcs == UpsertPcs \cup
       {"idle", "exec", "mark_registry", "sync_read", "sync_rebuild", "repick",
        "apply_commit", "inventory", "models", "reconcile_read", "reconcile_commit",
        "latest", "unregister", "entry_read", "remove_commit", "update_commit"}

Job == [pc : Pcs, auth : Auths \cup {NoAuth}, model : Models \cup {NoAuth},
        tail : {"none", "resume", "suspend"}, supported : SUBSET Models,
        found : BOOLEAN,
        round : {"none", "first", "second"}]
IdleJob == [pc |-> "idle", auth |-> NoAuth, model |-> NoAuth, tail |-> "none",
            supported |-> {}, found |-> FALSE, round |-> "none"]

\* The auths for which p holds a record it has not yet given the scheduler.
Pending(p) == IF job[p].pc \in UpsertPcs THEN {job[p].auth}
              ELSE IF job[p].pc = "sync_rebuild" THEN Auths ELSE {}
Rivals(p, a) == {q \in Procs \ {p} : a \in Pending(q)}

\* isAuthBlockedForModel for a non-empty model.
Blocked(r, m, t) == r.disabled \/ (m \in r.tracked /\ r.until[m] > t)
Schedulable(r) == r # NoAuth /\ ~r.disabled
MirrorOf(r) == IF Schedulable(r) THEN r ELSE NoAuth

\* What a result does to the record it belongs to. The aggregation that
\* follows clears the retry time of every model whose block has elapsed.
Expire(r, t) == [r EXCEPT !.until =
                   [m \in Models |-> IF r.until[m] <= t THEN 0 ELSE r.until[m]]]
\* Mutant of Succeeded: the retry time is deleted instead of zeroed.
SucceededDeletes(r, m, t) ==
  [r EXCEPT !.tracked = @ \ {m}, !.failed = @ \ {m},
            !.until = [x \in Models \ {m} |-> r.until[x]]]
Succeeded(r, m, t) ==
  Expire([r EXCEPT !.tracked = @ \cup {m}, !.failed = @ \ {m},
                   !.until = [@ EXCEPT ![m] = 0]], t)
Failed(r, m, c, t) ==
  Expire([r EXCEPT !.tracked = @ \cup {m}, !.failed = @ \cup {m},
                   !.until = [@ EXCEPT ![m] = IF c = 0 THEN 0 ELSE t + c]], t)

\* ReconcileRegistryModelStates on one record.
Reconciled(r, supported) ==
  [r EXCEPT !.tracked = @ \cap supported, !.failed = {}, !.until = Zero]

\* Update keeps the current model states when the new record brings none and
\* neither of the two is disabled.
Inherit(new, old) ==
  IF ~old.disabled /\ ~new.disabled /\ new.tracked = {}
  THEN [new EXCEPT !.tracked = old.tracked, !.failed = old.failed,
                   !.until = old.until]
  ELSE new

-----------------------------------------------------------------------------
MayStart(p, kind) == job[p].pc = "idle" /\ kind \in Operations
Goto(p, l) == job' = [job EXCEPT ![p].pc = l]
Finish(p) == job' = [job EXCEPT ![p] = IdleJob]
Forget(p) == snap' = [snap EXCEPT ![p] = NoAuths]

\* Mutant of Mutate: p clones the record before it changes it.
MutateCloneFirst(p, a, r) ==
  /\ auths' = [auths EXCEPT ![a] = r]
  /\ schedAuth' = IF a \in aliased THEN [schedAuth EXCEPT ![a] = r]
                                   ELSE schedAuth
  /\ snap' = [q \in Procs |-> IF q \in live /\ job[q].auth = a
                              THEN [snap[q] EXCEPT ![a] = r]
                              ELSE IF q = p THEN [snap[q] EXCEPT ![a] = auths[a]]
                              ELSE snap[q]]
  /\ stale' = IF Rivals(p, a) \ live # {} THEN stale \cup {a}
                                          ELSE stale \ {a}
  /\ UNCHANGED <<now, registry, aliased, entries, live>>

\* A commit under m.mu that changes the object in Manager.auths in place.
\* Everyone who holds that object sees the change, p keeps a clone.
Mutate(p, a, r) ==
  /\ auths' = [auths EXCEPT ![a] = r]
  /\ schedAuth' = IF a \in aliased THEN [schedAuth EXCEPT ![a] = r]
                                   ELSE schedAuth
  /\ snap' = [q \in Procs |->
                IF q = p \/ (q \in live /\ job[q].auth = a)
                THEN [snap[q] EXCEPT ![a] = r] ELSE snap[q]]
  /\ stale' = IF Rivals(p, a) \ live # {} THEN stale \cup {a}
                                          ELSE stale \ {a}
  /\ UNCHANGED <<now, registry, aliased, entries, live>>

\* A commit under m.mu that puts a new object in Manager.auths; p keeps that
\* object, and whoever held the previous one keeps it as it was.
Replace(p, a, r) ==
  /\ auths' = [auths EXCEPT ![a] = r]
  /\ aliased' = aliased \ {a}
  /\ live' = {q \in live : job[q].auth # a} \cup {p}
  /\ snap' = [snap EXCEPT ![p] = [NoAuths EXCEPT ![a] = r]]
  /\ stale' = IF Rivals(p, a) # {} THEN stale \cup {a} ELSE stale \ {a}
  /\ UNCHANGED <<now, registry, schedAuth, entries>>

\* Mutant of SchedulerPut: an entry that exists keeps the model set it was
\* built with.
SchedulerPutOldModels(a, r, alias) ==
  LET here == Schedulable(r)
      set == IF schedAuth[a] # NoAuth THEN supports[a] ELSE registered[a]
  IN  /\ schedAuth' = [schedAuth EXCEPT ![a] = MirrorOf(r)]
      /\ aliased' = IF here /\ alias THEN aliased \cup {a} ELSE aliased \ {a}
      /\ supports' = [supports EXCEPT ![a] = IF here THEN set ELSE {}]
      /\ ready' = [ready EXCEPT ![a] =
           IF here THEN {m \in shards \cap set : ~Blocked(r, m, now)} ELSE {}]
      /\ UNCHANGED <<shards, retryAt>>

\* upsertAuth and removeAuth under s.mu: the entry is evaluated in every
\* shard already built, with the registry's models of this moment.
SchedulerPut(a, r, alias) ==
  LET here == Schedulable(r)
      open == IF here THEN shards \cap registered[a] ELSE {}
  IN  /\ schedAuth' = [schedAuth EXCEPT ![a] = MirrorOf(r)]
      /\ aliased' = IF here /\ alias THEN aliased \cup {a} ELSE aliased \ {a}
      /\ supports' = [supports EXCEPT ![a] = IF here THEN registered[a] ELSE {}]
      /\ ready' = [ready EXCEPT ![a] = {m \in open : ~Blocked(r, m, now)}]
      /\ retryAt' = [retryAt EXCEPT ![a] =
           [m \in Models |-> IF m \in open /\ Blocked(r, m, now)
                             THEN r.until[m] ELSE 0]]
      /\ UNCHANGED shards

\* RegisterClient, or UnregisterClient when S is empty: the client's marks on
\* the models of both registrations go, and a model nobody registers any more
\* takes all its marks with it.
RegisterClient(a, S) ==
  LET new == [registered EXCEPT ![a] = S]
      kept == [suspended EXCEPT ![a] = @ \ (S \cup registered[a])]
  IN  /\ registered' = new
      /\ suspended' = [b \in Auths |->
           {m \in kept[b] : \E c \in Auths : m \in new[c]}]

-----------------------------------------------------------------------------
(* Picking a credential, and the synchronisation that follows a failed pick *)

\* ensureModelLocked builds the shard or promotes the entries whose retry
\* time has elapsed.
Reevaluated(a, m) ==
  \/ m \notin shards
  \/ m \notin ready[a] /\ retryAt[a][m] # 0 /\ retryAt[a][m] <= now
Listed(a, m) == schedAuth[a] # NoAuth /\ m \in supports[a]
\* Mutant of ReadyNow: an entry is listed as ready without a look at its
\* record.
ReadyUnseen(a, m) == Listed(a, m) /\ (Reevaluated(a, m) \/ m \in ready[a])
ReadyNow(a, m) ==
  /\ Listed(a, m)
  /\ IF Reevaluated(a, m) THEN ~Blocked(schedAuth[a], m, now)
                          ELSE m \in ready[a]
EnsureModel(m) ==
  /\ shards' = shards \cup {m}
  /\ ready' = [a \in Auths |-> IF ReadyNow(a, m) THEN ready[a] \cup {m}
                                                 ELSE ready[a] \ {m}]
  /\ retryAt' = [a \in Auths |->
       IF Listed(a, m) /\ Reevaluated(a, m)
       THEN [retryAt[a] EXCEPT ![m] = IF ReadyNow(a, m) THEN 0
                                      ELSE schedAuth[a].until[m]]
       ELSE retryAt[a]]
  /\ UNCHANGED <<schedAuth, aliased, supports>>

\* eligible: the auths the request has not tried and is not pinned away from.
PickOrElse(p, m, otherwise) ==
  /\ EnsureModel(m)
  /\ \E eligible \in SUBSET Auths :
       \/ \E a \in eligible :
            /\ ReadyNow(a, m)
            /\ job' = [job EXCEPT ![p] = [IdleJob EXCEPT !.pc = "exec",
                                              !.auth = a, !.model = m]]
       \/ /\ \A a \in eligible : ~ReadyNow(a, m)
          /\ job' = [job EXCEPT ![p] = IF otherwise = "idle" THEN IdleJob
                       ELSE [IdleJob EXCEPT !.pc = otherwise, !.model = m]]
  /\ UNCHANGED <<now, manager, registry, snap, live, stale>>

Pick(p, m) == MayStart(p, "request") /\ PickOrElse(p, m, "sync_read")
Repick(p) == job[p].pc = "repick" /\ PickOrElse(p, job[p].model, "idle")

\* SetSelector ends in the same synchronisation.
SetSelector(p) ==
  /\ MayStart(p, "selector")
  /\ Goto(p, "sync_read")
  /\ UNCHANGED <<now, manager, registry, scheduler, snap, live, stale>>

\* syncScheduler: snapshotAuths clones every record, rebuild starts afresh.
SyncRead(p) ==
  /\ job[p].pc = "sync_read"
  /\ snap' = [snap EXCEPT ![p] = auths]
  /\ stale' = {a \in stale : Rivals(p, a) # {}}
  /\ Goto(p, "sync_rebuild")
  /\ UNCHANGED <<now, manager, registry, scheduler, live>>

SyncRebuild(p) ==
  /\ job[p].pc = "sync_rebuild"
  /\ schedAuth' = [a \in Auths |-> MirrorOf(snap[p][a])]
  /\ supports' = [a \in Auths |-> IF Schedulable(snap[p][a])
                                  THEN registered[a] ELSE {}]
  /\ aliased' = {}
  /\ shards' = {}
  /\ ready' = [a \in Auths |-> {}]
  /\ retryAt' = [a \in Auths |-> Zero]
  /\ IF job[p].model = NoAuth THEN Finish(p) ELSE Goto(p, "repick")
  /\ Forget(p)
  /\ UNCHANGED <<now, manager, registry, live, stale>>

-----------------------------------------------------------------------------
(* MarkResult: commit under m.mu, then the scheduler, then the registry     *)

\* The request is abandoned (the client left): no result is recorded.
Abandon(p) ==
  /\ job[p].pc = "exec"
  /\ Finish(p)
  /\ UNCHANGED <<now, manager, registry, scheduler, snap, live, stale>>

\* The credential was removed meanwhile: nothing to record.
MarkMissing(p) ==
  /\ job[p].pc = "exec" /\ auths[job[p].auth] = NoAuth
  /\ Finish(p)
  /\ UNCHANGED <<now, manager, registry, scheduler, snap, live, stale>>

MarkWith(p, r, tail) ==
  /\ Mutate(p, job[p].auth, r)
  /\ job' = [job EXCEPT ![p].pc = "mark_upsert", ![p].tail = tail]

MarkResult(p) ==
  LET a == job[p].auth
      m == job[p].model
  IN  /\ job[p].pc = "exec" /\ auths[a] # NoAuth
      /\ \/ MarkWith(p, Succeeded(auths[a], m, now), "resume")
         \/ \E c \in Cooldowns, tail \in {"none", "suspend"} :
              MarkWith(p, Failed(auths[a], m, c, now), tail)
         \/ MarkWith(p, auths[a], "none")   \* request-scoped 404

MarkUpsert(p) ==
  /\ job[p].pc = "mark_upsert"
  /\ SchedulerPut(job[p].auth, snap[p][job[p].auth], FALSE)
  /\ IF job[p].tail = "none" THEN Finish(p) ELSE Goto(p, "mark_registry")
  /\ Forget(p)
  /\ UNCHANGED <<now, manager, registry, live, stale>>

\* ClearModelQuotaExceeded with ResumeClientModel, or SetModelQuotaExceeded
\* with SuspendClientModel; a mark needs a registration of the model, by any
\* client.
MarkRegistry(p) ==
  LET a == job[p].auth
      m == job[p].model
  IN  /\ job[p].pc = "mark_registry"
      /\ suspended' =
           IF job[p].tail = "resume"
           THEN [suspended EXCEPT ![a] = @ \ {m}]
           ELSE IF \E b \in Auths : m \in registered[b]
                THEN [suspended EXCEPT ![a] = @ \cup {m}] ELSE suspended
      /\ Finish(p)
      /\ UNCHANGED <<now, manager, registered, scheduler, snap, live, stale>>

-----------------------------------------------------------------------------
(* Update by a goroutine that took a clone earlier: refreshAuth after the   *)
(* network call, prepareRequestAuth, and the management handlers            *)

CloneForUpdate(p, a) ==
  /\ MayStart(p, "update") /\ auths[a] # NoAuth
  /\ job' = [job EXCEPT ![p].pc = "update_commit", ![p].auth = a]
  /\ snap' = [snap EXCEPT ![p] = [NoAuths EXCEPT ![a] = auths[a]]]
  /\ UNCHANGED <<now, manager, registry, scheduler, live, stale>>

\* Update: a no-op when the auth is gone. The handlers may flip Disabled.
UpdateCommit(p) ==
  LET a == job[p].auth
      mine == snap[p][a]
  IN  /\ job[p].pc = "update_commit" /\ auths[a] # NoAuth
      /\ \E d \in BOOLEAN :
           Replace(p, a, Inherit([mine EXCEPT !.disabled = d], auths[a]))
      /\ Goto(p, "update_upsert")

UpdateMissing(p) ==
  /\ job[p].pc = "update_commit"
  /\ auths[job[p].auth] = NoAuth
  /\ Finish(p) /\ Forget(p)
  /\ UNCHANGED <<now, manager, registry, scheduler, live, stale>>

\* The failing branch of refreshAuth: record the error and upsert the entry
\* while m.mu is still held. A cancelled refresh changes nothing.
RefreshFailed(p) ==
  LET a == job[p].auth
  IN  /\ job[p].pc = "update_commit" /\ auths[a] # NoAuth
      /\ SchedulerPut(a, auths[a], FALSE)
      /\ stale' = IF Rivals(p, a) # {} THEN stale ELSE stale \ {a}
      /\ Finish(p) /\ Forget(p)
      /\ UNCHANGED <<now, manager, registry, live>>

UpdateUpsert(p) ==
  /\ job[p].pc = "update_upsert"
  /\ SchedulerPut(job[p].auth, snap[p][job[p].auth], p \in live)
  /\ live' = live \ {p}
  /\ Finish(p) /\ Forget(p)
  /\ UNCHANGED <<now, manager, registry, stale>>

-----------------------------------------------------------------------------
(* The service's pipeline for an added or modified auth                     *)

\* prepareCoreAuthForModelRegistration reads the current record and merges.
ApplyRead(p, a) ==
  /\ MayStart(p, "pipeline")
  /\ \E d \in BOOLEAN :
       snap' = [snap EXCEPT ![p] = [NoAuths EXCEPT ![a] =
                 IF auths[a] = NoAuth THEN CleanRec(d)
                 ELSE Inherit(CleanRec(d), auths[a])]]
  /\ job' = [job EXCEPT ![p].pc = "apply_commit", ![p].auth = a,
                        ![p].found = (auths[a] # NoAuth)]
  /\ UNCHANGED <<now, manager, registry, scheduler, live, stale>>

\* Update if the auth was found, Register otherwise; an Update that finds it
\* gone changes nothing and the pipeline goes on.
ApplyCommit(p) ==
  LET a == job[p].auth
      mine == snap[p][a]
  IN  /\ job[p].pc = "apply_commit"
      /\ job[p].found => auths[a] # NoAuth
      /\ Replace(p, a, IF job[p].found THEN Inherit(mine, auths[a]) ELSE mine)
      /\ Goto(p, "apply_upsert")

ApplyMissing(p) ==
  /\ job[p].pc = "apply_commit" /\ job[p].found /\ auths[job[p].auth] = NoAuth
  /\ Goto(p, "inventory")
  /\ UNCHANGED <<now, manager, registry, scheduler, snap, live, stale>>

ApplyUpsert(p) ==
  /\ job[p].pc = "apply_upsert"
  /\ SchedulerPut(job[p].auth, snap[p][job[p].auth], p \in live)
  /\ live' = live \ {p}
  /\ Goto(p, "inventory")
  /\ UNCHANGED <<now, manager, registry, snap, stale>>

\* refreshLiveModelInventory asks some providers which models the credential
\* has and writes the record the pipeline holds back with Update.
InventoryCommit(p) ==
  LET a == job[p].auth
  IN  /\ job[p].pc = "inventory" /\ auths[a] # NoAuth
      /\ Replace(p, a, Inherit(snap[p][a], auths[a]))
      /\ Goto(p, "inventory_upsert")

\* The provider is not asked, or Update finds the auth gone.
InventorySkip(p) ==
  /\ job[p].pc = "inventory"
  /\ Goto(p, "models")
  /\ UNCHANGED <<now, manager, registry, scheduler, snap, live, stale>>

InventoryUpsert(p) ==
  /\ job[p].pc = "inventory_upsert"
  /\ SchedulerPut(job[p].auth, snap[p][job[p].auth], p \in live)
  /\ live' = live \ {p}
  /\ Goto(p, "models")
  /\ UNCHANGED <<now, manager, registry, snap, stale>>

\* registerModelsForAuth: RegisterClient with the models of the record the
\* pipeline holds, UnregisterClient when it is disabled or has none.
RegisterModels(p) ==
  LET a == job[p].auth
  IN  /\ job[p].pc = "models"
      /\ \E S \in SUBSET Models :
           /\ snap[p][a].disabled => S = {}
           /\ RegisterClient(a, S)
      /\ Goto(p, "reconcile_read")
      /\ UNCHANGED <<now, manager, scheduler, snap, live, stale>>

\* ReconcileRegistryModelStates reads the registry before it takes m.mu.
ReconcileRead(p) ==
  /\ job[p].pc = "reconcile_read"
  /\ job' = [job EXCEPT ![p].pc = "reconcile_commit",
                        ![p].supported = registered[job[p].auth]]
  /\ UNCHANGED <<now, manager, registry, scheduler, snap, live, stale>>

AfterReconcile(p) == IF job[p].round = "first" THEN "latest" ELSE "entry_read"

ReconcileCommit(p) ==
  LET a == job[p].auth
  IN  /\ job[p].pc = "reconcile_commit" /\ auths[a] # NoAuth
      /\ Reconciled(auths[a], job[p].supported) # auths[a]
      /\ Mutate(p, a, Reconciled(auths[a], job[p].supported))
      /\ Goto(p, "reconcile_upsert")

ReconcileNothing(p) ==
  LET a == job[p].auth
  IN  /\ job[p].pc = "reconcile_commit"
      /\ auths[a] # NoAuth =>
           Reconciled(auths[a], job[p].supported) = auths[a]
      /\ Goto(p, AfterReconcile(p))
      /\ UNCHANGED <<now, manager, registry, scheduler, snap, live, stale>>

\* Mutant of ReconcileUpsert: the reconciled record stays in the manager.
ReconcileNoUpsert(p) ==
  /\ job[p].pc = "reconcile_upsert"
  /\ Goto(p, AfterReconcile(p))
  /\ UNCHANGED <<now, manager, registry, scheduler, snap, live, stale>>

ReconcileUpsert(p) ==
  /\ job[p].pc = "reconcile_upsert"
  /\ SchedulerPut(job[p].auth, snap[p][job[p].auth], FALSE)
  /\ Goto(p, AfterReconcile(p))
  /\ UNCHANGED <<now, manager, registry, snap, live, stale>>

\* refreshModelRegistrationForAuth, started by a new model catalog: register
\* and reconcile, then read the auth again and register once more, or
\* unregister it when it is gone or disabled.
CatalogRefresh(p, a) ==
  /\ MayStart(p, "pipeline") /\ Schedulable(auths[a])
  /\ job' = [job EXCEPT ![p].pc = "inventory", ![p].auth = a,
                        ![p].round = "first"]
  /\ snap' = [snap EXCEPT ![p] = [NoAuths EXCEPT ![a] = auths[a]]]
  /\ UNCHANGED <<now, manager, registry, scheduler, live, stale>>

LatestAuth(p) ==
  LET a == job[p].auth
  IN  /\ job[p].pc = "latest"
      /\ job' = [job EXCEPT ![p].round = "second",
                            ![p].pc = IF Schedulable(auths[a]) THEN "inventory"
                                      ELSE "unregister"]
      /\ snap' = [snap EXCEPT ![p][a] = auths[a]]
      /\ UNCHANGED <<now, manager, registry, scheduler, live, stale>>

UnregisterLatest(p) ==
  LET a == job[p].auth
  IN  /\ job[p].pc = "unregister"
      /\ RegisterClient(a, {})
      /\ Goto(p, "entry_read")
      /\ UNCHANGED <<now, manager, scheduler, snap, live, stale>>

\* RefreshSchedulerEntry; RefreshSchedulerAll runs it for every auth.
RefreshEntry(p, a) ==
  /\ MayStart(p, "pipeline")
  /\ job' = [job EXCEPT ![p].pc = "entry_read", ![p].auth = a]
  /\ UNCHANGED <<now, manager, registry, scheduler, snap, live, stale>>

EntryRead(p) ==
  LET a == job[p].auth
  IN  /\ job[p].pc = "entry_read" /\ auths[a] # NoAuth
      /\ snap' = [snap EXCEPT ![p] = [NoAuths EXCEPT ![a] = auths[a]]]
      /\ stale' = IF Rivals(p, a) # {} THEN stale ELSE stale \ {a}
      /\ Goto(p, "entry_upsert")
      /\ UNCHANGED <<now, manager, registry, scheduler, live>>

EntryMissing(p) ==
  /\ job[p].pc = "entry_read" /\ auths[job[p].auth] = NoAuth
  /\ Finish(p) /\ Forget(p)
  /\ UNCHANGED <<now, manager, registry, scheduler, live, stale>>

EntryUpsert(p) ==
  /\ job[p].pc = "entry_upsert"
  /\ SchedulerPut(job[p].auth, snap[p][job[p].auth], FALSE)
  /\ Finish(p) /\ Forget(p)
  /\ UNCHANGED <<now, manager, registry, live, stale>>

-----------------------------------------------------------------------------
(* applyCoreAuthRemoval: UnregisterClient, then Manager.Remove              *)

RemovalUnregister(p, a) ==
  /\ MayStart(p, "removal")
  /\ RegisterClient(a, {})
  /\ job' = [job EXCEPT ![p].pc = "remove_commit", ![p].auth = a]
  /\ UNCHANGED <<now, manager, scheduler, snap, live, stale>>

\* removeAuth of the management API: Manager.Remove alone; the registry
\* follows when the watcher reports the deleted file.
ManagementRemove(p, a) ==
  /\ MayStart(p, "management") /\ auths[a] # NoAuth
  /\ job' = [job EXCEPT ![p].pc = "remove_commit", ![p].auth = a]
  /\ UNCHANGED <<now, manager, registry, scheduler, snap, live, stale>>

RemoveCommit(p) ==
  LET a == job[p].auth
  IN  /\ job[p].pc = "remove_commit" /\ auths[a] # NoAuth
      /\ auths' = [auths EXCEPT ![a] = NoAuth]
      /\ aliased' = aliased \ {a}
      /\ live' = {q \in live : job[q].auth # a}
      /\ snap' = [snap EXCEPT ![p] = NoAuths]
      /\ stale' = IF Rivals(p, a) # {} THEN stale \cup {a} ELSE stale \ {a}
      /\ Goto(p, "remove_sched")
      /\ UNCHANGED <<now, registry, schedAuth, entries>>

RemoveMissing(p) ==
  /\ job[p].pc = "remove_commit" /\ auths[job[p].auth] = NoAuth
  /\ Finish(p)
  /\ UNCHANGED <<now, manager, registry, scheduler, snap, live, stale>>

RemoveUnschedule(p) ==
  /\ job[p].pc = "remove_sched"
  /\ SchedulerPut(job[p].auth, NoAuth, FALSE)
  /\ Finish(p) /\ Forget(p)
  /\ UNCHANGED <<now, manager, registry, live, stale>>

-----------------------------------------------------------------------------
Tick ==
  /\ now < MaxTime
  /\ now' = now + 1
  /\ UNCHANGED <<manager, registry, scheduler, job, snap, live, stale>>

Init ==
  /\ now = 1
  /\ auths = NoAuths
  /\ registered = [a \in Auths |-> {}]
  /\ suspended = [a \in Auths |-> {}]
  /\ schedAuth = NoAuths
  /\ aliased = {}
  /\ supports = [a \in Auths |-> {}]
  /\ shards = {}
  /\ ready = [a \in Auths |-> {}]
  /\ retryAt = [a \in Auths |-> Zero]
  /\ job = [p \in Procs |-> IdleJob]
  /\ snap = [p \in Procs |-> NoAuths]
  /\ live = {}
  /\ stale = {}

Request(p) ==
  \/ \E m \in Models : Pick(p, m)
  \/ Repick(p)
  \/ Abandon(p) \/ MarkMissing(p) \/ MarkResult(p)
  \/ MarkUpsert(p) \/ MarkRegistry(p)
Synchronise(p) == SetSelector(p) \/ SyncRead(p) \/ SyncRebuild(p)
Updater(p) ==
  \/ \E a \in Auths : CloneForUpdate(p, a)
  \/ UpdateCommit(p) \/ UpdateMissing(p) \/ RefreshFailed(p) \/ UpdateUpsert(p)
Pipeline(p) ==
  \/ \E a \in Auths : ApplyRead(p, a) \/ CatalogRefresh(p, a) \/ RefreshEntry(p, a)
  \/ ApplyCommit(p) \/ ApplyMissing(p) \/ ApplyUpsert(p)
  \/ InventoryCommit(p) \/ InventorySkip(p) \/ InventoryUpsert(p)
  \/ RegisterModels(p)
  \/ ReconcileRead(p) \/ ReconcileCommit(p) \/ ReconcileNothing(p)
  \/ ReconcileUpsert(p)
  \/ LatestAuth(p) \/ UnregisterLatest(p)
  \/ EntryRead(p) \/ EntryMissing(p) \/ EntryUpsert(p)
Removal(p) ==
  \/ \E a \in Auths : RemovalUnregister(p, a) \/ ManagementRemove(p, a)
  \/ RemoveCommit(p) \/ RemoveMissing(p) \/ RemoveUnschedule(p)

Next ==
  \/ Tick
  \/ \E p \in Procs :
       Synchronise(p) \/ Request(p) \/ Updater(p) \/ Pipeline(p) \/ Removal(p)
Spec == Init /\ [][Next]_vars

-----------------------------------------------------------------------------
(* The type invariant of the manager, the scheduler and the goroutines.     *)
TypeOK ==
  /\ now \in Nat
  /\ auths \in [Auths -> AuthRec \cup {NoAuth}]
  /\ registered \in [Auths -> SUBSET Models]
  /\ suspended \in [Auths -> SUBSET Models]
  /\ schedAuth \in [Auths -> AuthRec \cup {NoAuth}]
  /\ aliased \subseteq Auths
  /\ supports \in [Auths -> SUBSET Models]
  /\ shards \subseteq Models
  /\ ready \in [Auths -> SUBSET Models]
  /\ retryAt \in [Auths -> [Models -> Nat]]
  /\ job \in [Procs -> Job]
  /\ snap \in [Procs -> [Auths -> AuthRec \cup {NoAuth}]]
  /\ live \subseteq Procs
  /\ stale \subseteq Auths

-----------------------------------------------------------------------------
AtRest == \A p \in Procs : job[p].pc = "idle"
Settled(a) == \A p \in Procs : a \notin Pending(p)

\* Once nobody holds an unapplied record of an auth, the scheduler's entry is
\* the manager's record (and a removed or disabled auth has none), unless two
\* updates of that auth crossed and no update or synchronisation of it has
\* run alone since: commit under m.mu, apply under s.mu.
MirrorAgrees ==
  \A a \in Auths : Settled(a) /\ a \notin stale => schedAuth[a] = MirrorOf(auths[a])

\* The order in which uncrossed updates are applied cannot matter: everyone
\* who still has to apply a record holds the manager's current one.
HeldIsCurrent ==
  \A p \in Procs : \A a \in Pending(p) : a \notin stale => snap[p][a] = auths[a]

\* Where a goroutine is on its way from changing the registration of an auth
\* to the upsert that reads it.
Registering(p, a) ==
  /\ job[p].auth = a
  /\ \/ job[p].pc \in {"reconcile_read", "reconcile_commit", "reconcile_upsert",
                        "latest", "models", "unregister", "entry_read",
                        "entry_upsert", "remove_commit", "remove_sched"}
     \/ job[p].pc \in {"inventory", "inventory_upsert"} /\ job[p].round = "second"

\* The model set an entry was built with is the registry's, once the pipeline
\* that changed the registry has refreshed the entry.
SupportAgrees ==
  \A a \in Auths :
    /\ schedAuth[a] # NoAuth /\ Settled(a) /\ a \notin stale
    /\ \A p \in Procs : ~Registering(p, a)
    => supports[a] = registered[a]

\* A request is given only a credential the manager knows, enabled and not
\* blocked for the model, whenever its updates have been applied in order.
PickIsUsable ==
  [][\A p \in Procs :
       LET a == job'[p].auth
           m == job'[p].model
       IN  /\ job[p].pc # "exec" /\ job'[p].pc = "exec"
           /\ Settled(a) /\ a \notin stale
           => auths[a] # NoAuth /\ ~Blocked(auths[a], m, now)]_vars

-----------------------------------------------------------------------------
(* What comments in the code say of the scheduler's entries. It fails: the  *)
(* run of Conductor_removed.cfg exhibits how.                               *)

\* conductor.go:1518 says Remove deletes an auth from runtime state, and
\* scheduler.go:226 that removeAuth deletes it from every shard: a removed
\* auth has no entry once every operation has returned.
RemovedIsForgotten ==
  AtRest => \A a \in Auths : auths[a] = NoAuth => schedAuth[a] = NoAuth

=============================================================================
