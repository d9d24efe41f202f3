--------------------------- MODULE ConductorProofs ---------------------------
(***************************************************************************)
(* Proofs about Conductor, for every set of auths, models and goroutines   *)
(* and every bound: type correctness, and that the scheduler's entry of an *)
(* auth is the manager's record whenever nothing of it is in flight and    *)
(* its updates have not crossed. The last part, "Routing", is about what a *)
(* request may rely on: that it is given a usable credential, and that the *)
(* models of an entry are the registry's.                                  *)
(***************************************************************************)
EXTENDS Conductor, TLAPS

(* What a goroutine's place says of the rest of its job and of its records. *)
JobOK(j, held) ==
  /\ j.pc \notin {"idle", "sync_read", "sync_rebuild", "repick"}
       => j.auth \in Auths
  /\ j.pc \in {"exec", "repick", "mark_upsert", "mark_registry"}
       => j.model \in Models
  /\ j.pc \in {"update_commit", "apply_commit", "apply_upsert", "inventory"}
       => held[j.auth] # NoAuth
PcOK == \A p \in Procs : JobOK(job[p], snap[p])

TypeInv == TypeOK /\ PcOK

-----------------------------------------------------------------------------
(* The helpers of the model and the sets they stay in.                      *)

LEMMA ExpireType ==
  ASSUME NEW r \in AuthRec, NEW t \in Nat
  PROVE  Expire(r, t) \in AuthRec
BY DEF AuthRec, Expire

LEMMA SucceededType ==
  ASSUME NEW r \in AuthRec, NEW m \in Models, NEW t \in Nat
  PROVE  Succeeded(r, m, t) \in AuthRec
BY DEF AuthRec, Succeeded, Expire

LEMMA FailedType ==
  ASSUME NEW r \in AuthRec, NEW m \in Models, NEW c \in Nat, NEW t \in Nat
  PROVE  Failed(r, m, c, t) \in AuthRec
<1> DEFINE u == [r.until EXCEPT ![m] = IF c = 0 THEN 0 ELSE t + c]
           f == [r EXCEPT !.tracked = @ \cup {m}, !.failed = @ \cup {m},
                          !.until = u]
<1>1. u \in [Models -> Nat]
  BY DEF AuthRec
<1>2. f \in AuthRec
  <2> HIDE DEF u
  <2> QED BY <1>1 DEF AuthRec
<1>3. Failed(r, m, c, t) = Expire(f, t)
  BY DEF Failed
<1> QED BY <1>2, <1>3, ExpireType

LEMMA ReconciledType ==
  ASSUME NEW r \in AuthRec, NEW S \in SUBSET Models
  PROVE  Reconciled(r, S) \in AuthRec
BY DEF AuthRec, Reconciled, Zero

LEMMA InheritType ==
  ASSUME NEW r \in AuthRec, NEW old \in AuthRec
  PROVE  Inherit(r, old) \in AuthRec
BY DEF AuthRec, Inherit

LEMMA CleanType == ASSUME NEW d \in BOOLEAN PROVE CleanRec(d) \in AuthRec
BY DEF AuthRec, CleanRec, Zero

LEMMA RecordIsSomeone == \A r \in AuthRec : r # NoAuth
BY NoAuthAssumption

LEMMA MirrorType ==
  ASSUME NEW r \in AuthRec \cup {NoAuth}
  PROVE  MirrorOf(r) \in AuthRec \cup {NoAuth}
BY DEF MirrorOf

LEMMA NoAuthsType == NoAuths \in [Auths -> AuthRec \cup {NoAuth}]
BY DEF NoAuths

\* Goto moves p and nobody else, and keeps the rest of p's job.
LEMMA GotoType ==
  ASSUME TypeOK, NEW p \in Procs, NEW l \in Pcs, Goto(p, l)
  PROVE  /\ job' \in [Procs -> Job]
         /\ \A q \in Procs \ {p} : job'[q] = job[q]
         /\ job'[p] = [job[p] EXCEPT !.pc = l]
         /\ job'[p].pc = l
         /\ job'[p].auth = job[p].auth
         /\ job'[p].model = job[p].model
BY DEF TypeOK, Goto, Job

LEMMA FinishType ==
  ASSUME TypeOK, NEW p \in Procs, Finish(p)
  PROVE  /\ job' \in [Procs -> Job]
         /\ \A q \in Procs \ {p} : job'[q] = job[q]
         /\ job'[p].pc = "idle"
BY DEF TypeOK, Finish, Job, IdleJob, Pcs

LEMMA ForgetType ==
  ASSUME TypeOK, NEW p \in Procs, Forget(p)
  PROVE  /\ snap' \in [Procs -> [Auths -> AuthRec \cup {NoAuth}]]
         /\ \A q \in Procs \ {p} : snap'[q] = snap[q]
BY NoAuthsType DEF TypeOK, Forget

LEMMA MutateType ==
  ASSUME TypeOK, NEW p \in Procs, NEW a \in Auths, NEW r \in AuthRec,
         Mutate(p, a, r)
  PROVE  /\ auths' \in [Auths -> AuthRec \cup {NoAuth}]
         /\ schedAuth' \in [Auths -> AuthRec \cup {NoAuth}]
         /\ snap' \in [Procs -> [Auths -> AuthRec \cup {NoAuth}]]
         /\ \A q \in Procs : \A b \in Auths :
              snap'[q][b] # snap[q][b] => snap'[q][b] = r /\ b = a
         /\ stale' \subseteq Auths
<1>1. auths' = [auths EXCEPT ![a] = r]
      /\ schedAuth' \in {schedAuth, [schedAuth EXCEPT ![a] = r]}
      /\ stale' \in {stale \cup {a}, stale \ {a}}
  BY DEF Mutate
<1>2. snap' = [q \in Procs |->
                IF q = p \/ (q \in live /\ job[q].auth = a)
                THEN [snap[q] EXCEPT ![a] = r] ELSE snap[q]]
  BY DEF Mutate
<1>3. \A q \in Procs : snap'[q] \in {snap[q], [snap[q] EXCEPT ![a] = r]}
  BY <1>2
<1>4. ASSUME NEW q \in Procs
      PROVE  /\ snap'[q] \in [Auths -> AuthRec \cup {NoAuth}]
             /\ \A b \in Auths : snap'[q][b] # snap[q][b]
                  => snap'[q][b] = r /\ b = a
  <2>1. snap[q] \in [Auths -> AuthRec \cup {NoAuth}]
    BY DEF TypeOK
  <2>2. [snap[q] EXCEPT ![a] = r] \in [Auths -> AuthRec \cup {NoAuth}]
    BY <2>1
  <2> QED BY <1>3, <2>1, <2>2
<1>5. snap' \in [Procs -> [Auths -> AuthRec \cup {NoAuth}]]
  BY <1>2, <1>4
<1>6. auths' \in [Auths -> AuthRec \cup {NoAuth}]
  BY <1>1 DEF TypeOK
<1>7. schedAuth' \in [Auths -> AuthRec \cup {NoAuth}] /\ stale' \subseteq Auths
  BY <1>1 DEF TypeOK
<1> QED BY <1>4, <1>5, <1>6, <1>7

LEMMA ReplaceType ==
  ASSUME TypeOK, NEW p \in Procs, NEW a \in Auths, NEW r \in AuthRec,
         Replace(p, a, r)
  PROVE  /\ auths' \in [Auths -> AuthRec \cup {NoAuth}]
         /\ aliased' \subseteq Auths
         /\ live' \subseteq Procs
         /\ snap' \in [Procs -> [Auths -> AuthRec \cup {NoAuth}]]
         /\ \A q \in Procs \ {p} : snap'[q] = snap[q]
         /\ stale' \subseteq Auths
BY NoAuthsType DEF Replace, TypeOK

LEMMA SchedulerPutType ==
  ASSUME TypeOK, NEW a \in Auths, NEW r \in AuthRec \cup {NoAuth},
         NEW alias \in BOOLEAN, SchedulerPut(a, r, alias)
  PROVE  /\ schedAuth' \in [Auths -> AuthRec \cup {NoAuth}]
         /\ aliased' \subseteq Auths
         /\ supports' \in [Auths -> SUBSET Models]
         /\ shards' \subseteq Models
         /\ ready' \in [Auths -> SUBSET Models]
         /\ retryAt' \in [Auths -> [Models -> Nat]]
<1> DEFINE open == IF Schedulable(r) THEN shards \cap registered[a] ELSE {}
           times == [m \in Models |-> IF m \in open /\ Blocked(r, m, now)
                                      THEN r.until[m] ELSE 0]
<1>1. schedAuth' = [schedAuth EXCEPT ![a] = MirrorOf(r)]
      /\ aliased' \in {aliased \cup {a}, aliased \ {a}}
      /\ supports' \in {[supports EXCEPT ![a] = registered[a]],
                        [supports EXCEPT ![a] = {}]}
      /\ shards' = shards
      /\ ready' = [ready EXCEPT ![a] = {m \in open : ~Blocked(r, m, now)}]
      /\ retryAt' = [retryAt EXCEPT ![a] = times]
  BY DEF SchedulerPut
<1>2. times \in [Models -> Nat]
  <2>1. CASE Schedulable(r)
    <3>1. r \in AuthRec
      BY <2>1 DEF Schedulable
    <3> QED BY <3>1 DEF AuthRec
  <2>2. CASE ~Schedulable(r)
    BY <2>2
  <2> QED BY <2>1, <2>2
<1>3. {m \in open : ~Blocked(r, m, now)} \subseteq Models
  BY DEF TypeOK
<1>4. ready' \in [Auths -> SUBSET Models]
  BY <1>1, <1>3 DEF TypeOK
<1>5. retryAt' \in [Auths -> [Models -> Nat]]
  BY <1>1, <1>2 DEF TypeOK
<1> HIDE DEF open, times
<1> QED BY <1>1, <1>4, <1>5, MirrorType DEF TypeOK

LEMMA RegisterClientType ==
  ASSUME TypeOK, NEW a \in Auths, NEW S \in SUBSET Models, RegisterClient(a, S)
  PROVE  /\ registered' \in [Auths -> SUBSET Models]
         /\ suspended' \in [Auths -> SUBSET Models]
BY DEF RegisterClient, TypeOK

LEMMA EnsureModelType ==
  ASSUME TypeOK, NEW m \in Models, EnsureModel(m)
  PROVE  /\ shards' \subseteq Models
         /\ ready' \in [Auths -> SUBSET Models]
         /\ retryAt' \in [Auths -> [Models -> Nat]]
<1>1. shards' = shards \cup {m} /\ ready' \in [Auths -> SUBSET Models]
  BY DEF EnsureModel, TypeOK
<1>2. ASSUME NEW a \in Auths, Listed(a, m)
      PROVE  schedAuth[a].until[m] \in Nat
  BY <1>2 DEF Listed, TypeOK, AuthRec
<1>3. ASSUME NEW a \in Auths
      PROVE  (IF Listed(a, m) /\ Reevaluated(a, m)
              THEN [retryAt[a] EXCEPT ![m] = IF ReadyNow(a, m) THEN 0
                                             ELSE schedAuth[a].until[m]]
              ELSE retryAt[a]) \in [Models -> Nat]
  BY <1>2 DEF TypeOK
<1>4. retryAt' \in [Auths -> [Models -> Nat]]
  BY <1>3 DEF EnsureModel
<1> QED BY <1>1, <1>4 DEF TypeOK

-----------------------------------------------------------------------------
(* Type correctness, one lemma per group of actions.                        *)

\* What a step of p leaves alone: the jobs of the others, and that a record
\* somebody holds is a record.
Others(p) ==
  \A q \in Procs \ {p} :
    /\ job'[q] = job[q]
    /\ \A b \in Auths : snap[q][b] # NoAuth => snap'[q][b] # NoAuth

LEMMA OthersOK ==
  ASSUME PcOK, NEW p \in Procs, Others(p), JobOK(job'[p], snap'[p])
  PROVE  PcOK'
<1>1. ASSUME NEW q \in Procs \ {p} PROVE JobOK(job'[q], snap'[q])
  BY <1>1 DEF PcOK, JobOK, Others
<1> QED BY <1>1 DEF PcOK

LEMMA PickType ==
  ASSUME TypeInv, NEW p \in Procs, NEW m \in Models,
         NEW otherwise \in {"sync_read", "idle"}, PickOrElse(p, m, otherwise)
  PROVE  TypeInv'
<1>1. /\ shards' \subseteq Models
      /\ ready' \in [Auths -> SUBSET Models]
      /\ retryAt' \in [Auths -> [Models -> Nat]]
      /\ schedAuth' = schedAuth /\ aliased' = aliased /\ supports' = supports
  BY EnsureModelType DEF PickOrElse, EnsureModel, TypeInv
<1>2. PICK j \in Job : /\ job' = [job EXCEPT ![p] = j]
                       /\ JobOK(j, snap[p])
  <2> DEFINE Given(a) == [IdleJob EXCEPT !.pc = "exec", !.auth = a, !.model = m]
             Waiting == [IdleJob EXCEPT !.pc = "sync_read", !.model = m]
  <2>1. \A a \in Auths : Given(a) \in Job /\ JobOK(Given(a), snap[p])
    BY DEF Job, IdleJob, Pcs, JobOK
  <2>2. Waiting \in Job /\ JobOK(Waiting, snap[p])
    BY DEF Job, IdleJob, Pcs, JobOK
  <2>3. IdleJob \in Job /\ JobOK(IdleJob, snap[p])
    BY DEF Job, IdleJob, Pcs, JobOK
  <2>4. \/ \E a \in Auths : job' = [job EXCEPT ![p] = Given(a)]
        \/ job' = [job EXCEPT ![p] = Waiting]
        \/ job' = [job EXCEPT ![p] = IdleJob]
    BY DEF PickOrElse
  <2> HIDE DEF Given, Waiting
  <2> QED BY <2>1, <2>2, <2>3, <2>4
<1>3. job' \in [Procs -> Job]
  BY <1>2 DEF TypeInv, TypeOK
<1>4. UNCHANGED <<now, auths, registered, suspended, snap, live, stale>>
  BY DEF PickOrElse, manager, registry
<1>5. TypeOK'
  BY <1>1, <1>3, <1>4 DEF TypeInv, TypeOK
<1>6. Others(p) /\ JobOK(job'[p], snap'[p])
  BY <1>2, <1>4 DEF Others, TypeInv, TypeOK
<1> QED BY <1>5, <1>6, OthersOK DEF TypeInv

LEMMA SynchroniseType ==
  ASSUME TypeInv, NEW p \in Procs, Synchronise(p)
  PROVE  TypeInv'
<1> USE DEF TypeInv
<1>1. CASE SetSelector(p)
  <2>1. job' \in [Procs -> Job] /\ job'[p].pc = "sync_read"
        /\ \A q \in Procs \ {p} : job'[q] = job[q]
    BY <1>1, GotoType DEF SetSelector, Pcs
  <2>2. UNCHANGED <<now, manager, registry, scheduler, snap, live, stale>>
    BY <1>1 DEF SetSelector
  <2>3. TypeOK'
    BY <2>1, <2>2 DEF TypeOK, manager, registry, scheduler, entries
  <2>4. Others(p) /\ JobOK(job'[p], snap'[p])
    BY <2>1, <2>2 DEF Others, JobOK
  <2> QED BY <2>3, <2>4, OthersOK
<1>2. CASE SyncRead(p)
  <2>1. job' \in [Procs -> Job] /\ job'[p].pc = "sync_rebuild"
        /\ \A q \in Procs \ {p} : job'[q] = job[q]
    BY <1>2, GotoType DEF SyncRead, Pcs
  <2>2. /\ UNCHANGED <<now, manager, registry, scheduler, live>>
        /\ snap' = [snap EXCEPT ![p] = auths]
        /\ stale' \subseteq stale
    BY <1>2 DEF SyncRead
  <2>3. TypeOK'
    BY <2>1, <2>2 DEF TypeOK, manager, registry, scheduler, entries
  <2>4. Others(p) /\ JobOK(job'[p], snap'[p])
    BY <2>1, <2>2 DEF Others, JobOK, TypeOK
  <2> QED BY <2>3, <2>4, OthersOK
<1>3. CASE SyncRebuild(p)
  <2>1. /\ schedAuth' = [a \in Auths |-> MirrorOf(snap[p][a])]
        /\ supports' \in [Auths -> SUBSET Models]
        /\ aliased' = {} /\ shards' = {}
        /\ ready' = [a \in Auths |-> {}]
        /\ retryAt' = [a \in Auths |-> Zero]
        /\ UNCHANGED <<now, manager, registry, live, stale>>
    BY <1>3 DEF SyncRebuild, TypeOK
  <2>2. schedAuth' \in [Auths -> AuthRec \cup {NoAuth}]
    BY <2>1, MirrorType DEF TypeOK
  <2>3. Zero \in [Models -> Nat]
    BY DEF Zero
  <2>4. /\ snap' \in [Procs -> [Auths -> AuthRec \cup {NoAuth}]]
        /\ \A q \in Procs \ {p} : snap'[q] = snap[q]
    BY <1>3, ForgetType DEF SyncRebuild
  <2>5. /\ job' \in [Procs -> Job]
        /\ \A q \in Procs \ {p} : job'[q] = job[q]
        /\ JobOK(job'[p], snap'[p])
    <3>1. CASE job[p].model = NoAuth
      BY <1>3, <3>1, FinishType DEF SyncRebuild, JobOK
    <3>2. CASE job[p].model # NoAuth
      <4>1. Goto(p, "repick") /\ "repick" \in Pcs
        BY <1>3, <3>2 DEF SyncRebuild, Pcs
      <4>2. job[p].model \in Models
        BY <3>2 DEF TypeOK, Job
      <4> QED BY <4>1, <4>2, GotoType DEF JobOK
    <3> QED BY <3>1, <3>2
  <2>6. TypeOK'
    BY <2>1, <2>2, <2>3, <2>4, <2>5 DEF TypeOK, manager, registry
  <2>7. Others(p)
    BY <2>4, <2>5 DEF Others
  <2> QED BY <2>5, <2>6, <2>7, OthersOK
<1> QED BY <1>1, <1>2, <1>3 DEF Synchronise

\* An action that ends p's operation and changes no view.
LEMMA EndType ==
  ASSUME TypeInv, NEW p \in Procs, Finish(p), snap' = snap \/ Forget(p),
         UNCHANGED <<now, manager, registry, scheduler, live, stale>>
  PROVE  TypeInv'
<1>1. /\ job' \in [Procs -> Job] /\ job'[p].pc = "idle"
      /\ \A q \in Procs \ {p} : job'[q] = job[q]
  BY FinishType DEF TypeInv
<1>2. /\ snap' \in [Procs -> [Auths -> AuthRec \cup {NoAuth}]]
      /\ \A q \in Procs \ {p} : snap'[q] = snap[q]
  BY ForgetType DEF TypeInv, TypeOK
<1>3. TypeOK'
  BY <1>1, <1>2 DEF TypeInv, TypeOK, manager, registry, scheduler, entries
<1>4. Others(p) /\ JobOK(job'[p], snap'[p])
  BY <1>1, <1>2 DEF Others, JobOK
<1> QED BY <1>3, <1>4, OthersOK DEF TypeInv

\* An action that moves p to l, keeps everybody's records and changes no view.
LEMMA MoveType ==
  ASSUME TypeInv, NEW p \in Procs, NEW j \in Job, job' = [job EXCEPT ![p] = j],
         UNCHANGED <<now, manager, registry, scheduler, snap, live, stale>>,
         JobOK(j, snap[p])
  PROVE  TypeInv'
<1>1. TypeOK'
  BY DEF TypeInv, TypeOK, manager, registry, scheduler, entries
<1>2. Others(p) /\ JobOK(job'[p], snap'[p])
  BY DEF Others, TypeInv, TypeOK
<1> QED BY <1>1, <1>2, OthersOK DEF TypeInv

\* An action that gives the scheduler a record: p goes to l or is done, and
\* keeps its records or drops them.
LEMMA PutType ==
  ASSUME TypeInv, NEW p \in Procs, NEW a \in Auths,
         NEW r \in AuthRec \cup {NoAuth}, NEW alias \in BOOLEAN,
         SchedulerPut(a, r, alias),
         UNCHANGED <<now, manager, registry>>,
         live' \subseteq live, stale' \subseteq stale,
         snap' = snap \/ Forget(p),
         \/ Finish(p)
         \/ \E l \in Pcs : Goto(p, l) /\ JobOK([job[p] EXCEPT !.pc = l], snap'[p])
  PROVE  TypeInv'
<1>1. /\ schedAuth' \in [Auths -> AuthRec \cup {NoAuth}]
      /\ aliased' \subseteq Auths
      /\ supports' \in [Auths -> SUBSET Models]
      /\ shards' \subseteq Models
      /\ ready' \in [Auths -> SUBSET Models]
      /\ retryAt' \in [Auths -> [Models -> Nat]]
  BY SchedulerPutType DEF TypeInv
<1>2. /\ snap' \in [Procs -> [Auths -> AuthRec \cup {NoAuth}]]
      /\ \A q \in Procs \ {p} : snap'[q] = snap[q]
  BY ForgetType DEF TypeInv, TypeOK
<1>3. /\ job' \in [Procs -> Job]
      /\ \A q \in Procs \ {p} : job'[q] = job[q]
      /\ JobOK(job'[p], snap'[p])
  <2>1. CASE Finish(p)
    BY <2>1, FinishType DEF JobOK, TypeInv
  <2>2. ASSUME NEW l \in Pcs, Goto(p, l),
               JobOK([job[p] EXCEPT !.pc = l], snap'[p])
        PROVE  /\ job' \in [Procs -> Job]
               /\ \A q \in Procs \ {p} : job'[q] = job[q]
               /\ JobOK(job'[p], snap'[p])
    BY <2>2, GotoType DEF TypeInv
  <2> QED BY <2>1, <2>2
<1>4. TypeOK'
  BY <1>1, <1>2, <1>3 DEF TypeInv, TypeOK, manager, registry
<1>5. Others(p)
  BY <1>2, <1>3 DEF Others
<1> QED BY <1>3, <1>4, <1>5, OthersOK DEF TypeInv

\* A commit that changes a record in place.
LEMMA MutateStepType ==
  ASSUME TypeInv, NEW p \in Procs, NEW a \in Auths, NEW r \in AuthRec,
         Mutate(p, a, r), NEW j \in Job, job' = [job EXCEPT ![p] = j],
         j.pc \in {"mark_upsert", "reconcile_upsert"}, j.auth \in Auths,
         j.pc = "mark_upsert" => j.model \in Models
  PROVE  TypeInv'
<1>1. /\ auths' \in [Auths -> AuthRec \cup {NoAuth}]
      /\ schedAuth' \in [Auths -> AuthRec \cup {NoAuth}]
      /\ snap' \in [Procs -> [Auths -> AuthRec \cup {NoAuth}]]
      /\ \A q \in Procs : \A b \in Auths :
           snap'[q][b] # snap[q][b] => snap'[q][b] = r /\ b = a
      /\ stale' \subseteq Auths
  BY MutateType DEF TypeInv
<1>2. UNCHANGED <<now, registry, aliased, entries, live>>
  BY DEF Mutate
<1>3. TypeOK'
  BY <1>1, <1>2 DEF TypeInv, TypeOK, registry, entries
<1>4. JobOK(job'[p], snap'[p])
  BY DEF JobOK, TypeInv, TypeOK
<1>5. Others(p)
  BY <1>1, RecordIsSomeone DEF Others, TypeInv, TypeOK
<1> QED BY <1>3, <1>4, <1>5, OthersOK DEF TypeInv

\* A commit that puts a new record in the manager.
LEMMA ReplaceStepType ==
  ASSUME TypeInv, NEW p \in Procs, NEW a \in Auths, NEW r \in AuthRec,
         Replace(p, a, r),
         NEW l \in {"update_upsert", "apply_upsert", "inventory_upsert"},
         Goto(p, l), job[p].auth = a
  PROVE  TypeInv'
<1>1. /\ auths' \in [Auths -> AuthRec \cup {NoAuth}]
      /\ aliased' \subseteq Auths
      /\ live' \subseteq Procs
      /\ snap' \in [Procs -> [Auths -> AuthRec \cup {NoAuth}]]
      /\ \A q \in Procs \ {p} : snap'[q] = snap[q]
      /\ stale' \subseteq Auths
  BY ReplaceType DEF TypeInv
<1>2. UNCHANGED <<now, registry, schedAuth, entries>>
  BY DEF Replace
<1>3. /\ job' \in [Procs -> Job]
      /\ \A q \in Procs \ {p} : job'[q] = job[q]
      /\ job'[p].pc = l /\ job'[p].auth = a
  BY GotoType DEF TypeInv, Pcs, UpsertPcs
<1>4. TypeOK'
  BY <1>1, <1>2, <1>3 DEF TypeInv, TypeOK, registry, entries
<1>5. snap'[p][a] = r /\ r # NoAuth
  BY RecordIsSomeone DEF Replace, TypeInv, TypeOK, NoAuths
<1>6. Others(p) /\ JobOK(job'[p], snap'[p])
  BY <1>1, <1>3, <1>5 DEF Others, JobOK
<1> QED BY <1>4, <1>6, OthersOK DEF TypeInv

\* The auth and the records of a goroutine at a given place.
LEMMA Places ==
  ASSUME TypeInv, NEW p \in Procs
  PROVE  /\ job[p] \in Job
         /\ \A a \in Auths : auths[a] \in AuthRec \cup {NoAuth}
         /\ \A a \in Auths : snap[p][a] \in AuthRec \cup {NoAuth}
         /\ JobOK(job[p], snap[p])
BY DEF TypeInv, TypeOK, PcOK

\* A goroutine that starts an operation on b.
Start(p, l, b) == job' = [job EXCEPT ![p].pc = l, ![p].auth = b]

LEMMA StartType ==
  ASSUME TypeInv, NEW p \in Procs, NEW l \in Pcs, NEW b \in Auths,
         Start(p, l, b)
  PROVE  /\ job' \in [Procs -> Job]
         /\ \A q \in Procs \ {p} : job'[q] = job[q]
         /\ job'[p].pc = l /\ job'[p].auth = b /\ job'[p].model = job[p].model
<1> DEFINE j == [job[p] EXCEPT !.pc = l, !.auth = b]
<1>1. j \in Job /\ j.pc = l /\ j.auth = b /\ j.model = job[p].model
  BY Places DEF Job
<1>2. job' = [job EXCEPT ![p] = j]
  BY DEF Start, TypeInv, TypeOK, Job
<1> HIDE DEF j
<1> QED BY <1>1, <1>2 DEF TypeInv, TypeOK

\* An upsert of p's own object or of its copy.
LEMMA PutAlias ==
  ASSUME NEW p \in Procs, NEW a, NEW r, SchedulerPut(a, r, p \in live)
  PROVE  \E alias \in BOOLEAN : SchedulerPut(a, r, alias)
<1>1. CASE p \in live
  <2>1. SchedulerPut(a, r, TRUE)
    BY <1>1 DEF SchedulerPut
  <2> QED BY <2>1
<1>2. CASE p \notin live
  <2>1. SchedulerPut(a, r, FALSE)
    BY <1>2 DEF SchedulerPut
  <2> QED BY <2>1
<1> QED BY <1>1, <1>2

LEMMA RequestType ==
  ASSUME TypeInv, NEW p \in Procs, Request(p)
  PROVE  TypeInv'
<1> DEFINE a == job[p].auth
           m == job[p].model
<1>1. ASSUME NEW mm \in Models, Pick(p, mm) PROVE TypeInv'
  BY <1>1, PickType DEF Pick
<1>2. CASE Repick(p)
  <2>1. m \in Models
    BY <1>2, Places DEF Repick, JobOK
  <2> QED BY <1>2, <2>1, PickType DEF Repick
<1>3. CASE Abandon(p)
  BY <1>3, EndType DEF Abandon
<1>4. CASE MarkMissing(p)
  BY <1>4, EndType DEF MarkMissing
<1>5. CASE MarkResult(p)
  <2>1. a \in Auths /\ m \in Models /\ auths[a] \in AuthRec
    BY <1>5, Places DEF MarkResult, JobOK
  <2>2. PICK r \in AuthRec, tail \in {"none", "resume", "suspend"} :
          MarkWith(p, r, tail)
    <3>1. now \in Nat /\ Cooldowns \subseteq Nat
      BY CooldownsAssumption DEF TypeInv, TypeOK
    <3>2. CASE MarkWith(p, Succeeded(auths[a], m, now), "resume")
      BY <2>1, <3>1, <3>2, SucceededType
    <3>3. ASSUME NEW c \in Cooldowns, NEW tail \in {"none", "suspend"},
                 MarkWith(p, Failed(auths[a], m, c, now), tail)
          PROVE  \E r \in AuthRec, t \in {"none", "resume", "suspend"} :
                   MarkWith(p, r, t)
      BY <2>1, <3>1, <3>3, FailedType
    <3>4. CASE MarkWith(p, auths[a], "none")
      BY <2>1, <3>4
    <3> QED BY <1>5, <3>2, <3>3, <3>4 DEF MarkResult
  <2> DEFINE j == [job[p] EXCEPT !.pc = "mark_upsert", !.tail = tail]
  <2>3. j \in Job /\ j.pc = "mark_upsert" /\ j.auth = a /\ j.model = m
    BY Places DEF Job, Pcs, UpsertPcs
  <2>4. job' = [job EXCEPT ![p] = j]
    BY <2>2 DEF MarkWith, TypeInv, TypeOK, Job
  <2>5. Mutate(p, a, r)
    BY <2>2 DEF MarkWith
  <2> HIDE DEF j
  <2> QED BY <2>1, <2>3, <2>4, <2>5, MutateStepType
<1>6. CASE MarkUpsert(p)
  <2>1. /\ a \in Auths /\ m \in Models /\ snap[p][a] \in AuthRec \cup {NoAuth}
    BY <1>6, Places DEF MarkUpsert, JobOK
  <2>2. /\ SchedulerPut(a, snap[p][a], FALSE) /\ Forget(p)
        /\ UNCHANGED <<now, manager, registry, live, stale>>
        /\ Finish(p) \/ Goto(p, "mark_registry")
    BY <1>6 DEF MarkUpsert
  <2>3. JobOK([job[p] EXCEPT !.pc = "mark_registry"], snap'[p])
    BY <2>1, Places DEF JobOK, Job
  <2>4. "mark_registry" \in Pcs
    BY DEF Pcs
  <2> QED BY <2>1, <2>2, <2>3, <2>4, PutType
<1>7. CASE MarkRegistry(p)
  <2>1. a \in Auths /\ m \in Models
    BY <1>7, Places DEF MarkRegistry, JobOK
  <2>2. /\ suspended' \in [Auths -> SUBSET Models]
        /\ Finish(p)
        /\ UNCHANGED <<now, manager, registered, scheduler, snap, live, stale>>
    BY <1>7, <2>1 DEF MarkRegistry, TypeInv, TypeOK
  <2>3. /\ job' \in [Procs -> Job] /\ job'[p].pc = "idle"
        /\ \A q \in Procs \ {p} : job'[q] = job[q]
    BY <2>2, FinishType DEF TypeInv
  <2>4. TypeOK'
    BY <2>2, <2>3 DEF TypeInv, TypeOK, manager, scheduler, entries
  <2>5. Others(p) /\ JobOK(job'[p], snap'[p])
    BY <2>2, <2>3 DEF Others, JobOK
  <2> QED BY <2>4, <2>5, OthersOK DEF TypeInv
<1> QED BY <1>1, <1>2, <1>3, <1>4, <1>5, <1>6, <1>7 DEF Request

LEMMA UpdaterType ==
  ASSUME TypeInv, NEW p \in Procs, Updater(p)
  PROVE  TypeInv'
<1> DEFINE a == job[p].auth
<1>1. ASSUME NEW b \in Auths, CloneForUpdate(p, b) PROVE TypeInv'
  <2>1. /\ auths[b] # NoAuth /\ auths[b] \in AuthRec \cup {NoAuth}
        /\ job' = [job EXCEPT ![p].pc = "update_commit", ![p].auth = b]
        /\ snap' = [snap EXCEPT ![p] = [NoAuths EXCEPT ![b] = auths[b]]]
        /\ UNCHANGED <<now, manager, registry, scheduler, live, stale>>
    BY <1>1, Places DEF CloneForUpdate
  <2>2. [NoAuths EXCEPT ![b] = auths[b]] \in [Auths -> AuthRec \cup {NoAuth}]
    BY <2>1, NoAuthsType
  <2>3. /\ job' \in [Procs -> Job]
        /\ \A q \in Procs \ {p} : job'[q] = job[q]
        /\ job'[p].pc = "update_commit" /\ job'[p].auth = b
    <3>1. "update_commit" \in Pcs
      BY DEF Pcs
    <3>2. Start(p, "update_commit", b)
      BY <2>1 DEF Start
    <3> QED BY <3>1, <3>2, StartType
  <2>4. TypeOK'
    BY <2>1, <2>2, <2>3 DEF TypeInv, TypeOK, manager, registry, scheduler, entries
  <2>5. snap'[p][b] # NoAuth /\ \A q \in Procs \ {p} : snap'[q] = snap[q]
    BY <2>1 DEF TypeInv, TypeOK, NoAuths
  <2>6. Others(p) /\ JobOK(job'[p], snap'[p])
    BY <2>3, <2>5 DEF Others, JobOK
  <2> QED BY <2>4, <2>6, OthersOK DEF TypeInv
<1>2. CASE UpdateCommit(p)
  <2>1. /\ a \in Auths /\ auths[a] \in AuthRec /\ snap[p][a] \in AuthRec
    BY <1>2, Places DEF UpdateCommit, JobOK
  <2>2. PICK d \in BOOLEAN :
          Replace(p, a, Inherit([snap[p][a] EXCEPT !.disabled = d], auths[a]))
    BY <1>2 DEF UpdateCommit
  <2>3. [snap[p][a] EXCEPT !.disabled = d] \in AuthRec
    BY <2>1 DEF AuthRec
  <2>4. Inherit([snap[p][a] EXCEPT !.disabled = d], auths[a]) \in AuthRec
    BY <2>1, <2>3, InheritType
  <2>5. Goto(p, "update_upsert")
    BY <1>2 DEF UpdateCommit
  <2> QED BY <2>1, <2>2, <2>4, <2>5, ReplaceStepType
<1>3. CASE UpdateMissing(p)
  BY <1>3, EndType DEF UpdateMissing
<1>4. CASE RefreshFailed(p)
  <2>1. a \in Auths /\ auths[a] \in AuthRec \cup {NoAuth}
    BY <1>4, Places DEF RefreshFailed, JobOK
  <2>2. /\ SchedulerPut(a, auths[a], FALSE) /\ Finish(p) /\ Forget(p)
        /\ stale' \subseteq stale
        /\ UNCHANGED <<now, manager, registry, live>>
    BY <1>4 DEF RefreshFailed
  <2> QED BY <2>1, <2>2, PutType
<1>5. CASE UpdateUpsert(p)
  <2>1. a \in Auths /\ snap[p][a] \in AuthRec \cup {NoAuth}
    BY <1>5, Places DEF UpdateUpsert, JobOK
  <2>2. /\ SchedulerPut(a, snap[p][a], p \in live) /\ Finish(p) /\ Forget(p)
        /\ live' \subseteq live
        /\ UNCHANGED <<now, manager, registry, stale>>
    BY <1>5 DEF UpdateUpsert
  <2>3. PICK alias \in BOOLEAN : SchedulerPut(a, snap[p][a], alias)
    BY <2>2, PutAlias
  <2> QED BY <2>1, <2>2, <2>3, PutType
<1> QED BY <1>1, <1>2, <1>3, <1>4, <1>5 DEF Updater

LEMMA RemovalType ==
  ASSUME TypeInv, NEW p \in Procs, Removal(p)
  PROVE  TypeInv'
<1> DEFINE a == job[p].auth
<1>1. ASSUME NEW b \in Auths, RemovalUnregister(p, b) PROVE TypeInv'
  <2>1. /\ RegisterClient(b, {})
        /\ job' = [job EXCEPT ![p].pc = "remove_commit", ![p].auth = b]
        /\ UNCHANGED <<now, manager, scheduler, snap, live, stale>>
    BY <1>1 DEF RemovalUnregister
  <2>2. /\ registered' \in [Auths -> SUBSET Models]
        /\ suspended' \in [Auths -> SUBSET Models]
    BY <2>1, RegisterClientType DEF TypeInv
  <2>3. /\ job' \in [Procs -> Job]
        /\ \A q \in Procs \ {p} : job'[q] = job[q]
        /\ job'[p].pc = "remove_commit" /\ job'[p].auth = b
    <3>1. "remove_commit" \in Pcs
      BY DEF Pcs
    <3>2. Start(p, "remove_commit", b)
      BY <2>1 DEF Start
    <3> QED BY <3>1, <3>2, StartType
  <2>4. TypeOK'
    BY <2>1, <2>2, <2>3 DEF TypeInv, TypeOK, manager, scheduler, entries
  <2>5. Others(p) /\ JobOK(job'[p], snap'[p])
    BY <2>1, <2>3 DEF Others, JobOK
  <2> QED BY <2>4, <2>5, OthersOK DEF TypeInv
<1>2. ASSUME NEW b \in Auths, ManagementRemove(p, b) PROVE TypeInv'
  <2> DEFINE j == [job[p] EXCEPT !.pc = "remove_commit", !.auth = b]
  <2>1. j \in Job /\ JobOK(j, snap[p])
    BY Places DEF Job, Pcs, JobOK
  <2>2. /\ job' = [job EXCEPT ![p] = j]
        /\ UNCHANGED <<now, manager, registry, scheduler, snap, live, stale>>
    BY <1>2 DEF ManagementRemove, TypeInv, TypeOK, Job
  <2> QED BY <2>1, <2>2, MoveType
<1>3. CASE RemoveCommit(p)
  <2>1. a \in Auths
    BY <1>3, Places DEF RemoveCommit, JobOK
  <2>2. /\ auths' = [auths EXCEPT ![a] = NoAuth]
        /\ aliased' \subseteq aliased /\ live' \subseteq live
        /\ snap' = [snap EXCEPT ![p] = NoAuths]
        /\ stale' \in {stale \cup {a}, stale \ {a}}
        /\ Goto(p, "remove_sched")
        /\ UNCHANGED <<now, registry, schedAuth, entries>>
    BY <1>3 DEF RemoveCommit
  <2>3. /\ job' \in [Procs -> Job]
        /\ \A q \in Procs \ {p} : job'[q] = job[q]
        /\ job'[p].pc = "remove_sched" /\ job'[p].auth = a
    BY <2>2, GotoType DEF TypeInv, Pcs, UpsertPcs
  <2>4. auths' \in [Auths -> AuthRec \cup {NoAuth}]
    BY <2>2 DEF TypeInv, TypeOK
  <2>5. TypeOK'
    BY <2>1, <2>2, <2>3, <2>4, NoAuthsType DEF TypeInv, TypeOK, registry, entries
  <2>6. Others(p) /\ JobOK(job'[p], snap'[p])
    BY <2>1, <2>2, <2>3 DEF Others, JobOK
  <2> QED BY <2>5, <2>6, OthersOK DEF TypeInv
<1>4. CASE RemoveMissing(p)
  BY <1>4, EndType DEF RemoveMissing
<1>5. CASE RemoveUnschedule(p)
  <2>1. a \in Auths
    BY <1>5, Places DEF RemoveUnschedule, JobOK
  <2>2. /\ SchedulerPut(a, NoAuth, FALSE) /\ Finish(p) /\ Forget(p)
        /\ UNCHANGED <<now, manager, registry, live, stale>>
    BY <1>5 DEF RemoveUnschedule
  <2> QED BY <2>1, <2>2, PutType
<1> QED BY <1>1, <1>2, <1>3, <1>4, <1>5 DEF Removal

\* A step of p that changes p's job and records only.
LEMMA OwnStepType ==
  ASSUME TypeInv, NEW p \in Procs,
         job' \in [Procs -> Job],
         \A q \in Procs \ {p} : job'[q] = job[q],
         snap' \in [Procs -> [Auths -> AuthRec \cup {NoAuth}]],
         \A q \in Procs \ {p} : snap'[q] = snap[q],
         JobOK(job'[p], snap'[p]),
         stale' \subseteq Auths,
         UNCHANGED <<now, manager, registry, scheduler, live>>
  PROVE  TypeInv'
<1>1. TypeOK'
  BY DEF TypeInv, TypeOK, manager, registry, scheduler, entries
<1>2. Others(p)
  BY DEF Others
<1> QED BY <1>1, <1>2, OthersOK DEF TypeInv

\* A step of p that changes the registration of an auth.
LEMMA RegisterStepType ==
  ASSUME TypeInv, NEW p \in Procs, NEW a \in Auths, NEW S \in SUBSET Models,
         RegisterClient(a, S), NEW l \in {"reconcile_read", "entry_read"},
         Goto(p, l), job[p].auth \in Auths,
         UNCHANGED <<now, manager, scheduler, snap, live, stale>>
  PROVE  TypeInv'
<1>1. /\ registered' \in [Auths -> SUBSET Models]
      /\ suspended' \in [Auths -> SUBSET Models]
  BY RegisterClientType DEF TypeInv
<1>2. l \in Pcs
  BY DEF Pcs
<1>3. /\ job' \in [Procs -> Job] /\ job'[p].pc = l
      /\ job'[p].auth = job[p].auth
      /\ \A q \in Procs \ {p} : job'[q] = job[q]
  BY <1>2, GotoType DEF TypeInv
<1>4. TypeOK'
  BY <1>1, <1>3 DEF TypeInv, TypeOK, manager, scheduler, entries
<1>5. Others(p) /\ JobOK(job'[p], snap'[p])
  BY <1>3 DEF Others, JobOK
<1> QED BY <1>4, <1>5, OthersOK DEF TypeInv

\* A step of p that moves it on with the auth it works on.
LEMMA OnwardType ==
  ASSUME TypeInv, NEW p \in Procs,
         NEW l \in {"inventory", "models", "latest", "entry_read"},
         Goto(p, l), job[p].auth \in Auths,
         l = "inventory" => snap[p][job[p].auth] # NoAuth,
         UNCHANGED <<now, manager, registry, scheduler, snap, live, stale>>
  PROVE  TypeInv'
<1>1. l \in Pcs
  BY DEF Pcs
<1>2. /\ job' \in [Procs -> Job] /\ job'[p].pc = l
      /\ job'[p].auth = job[p].auth
      /\ \A q \in Procs \ {p} : job'[q] = job[q]
  BY <1>1, GotoType DEF TypeInv
<1>3. JobOK(job'[p], snap'[p])
  BY <1>2 DEF JobOK
<1> QED BY <1>2, <1>3, OwnStepType DEF TypeInv, TypeOK

LEMMA PipelineStartType ==
  ASSUME TypeInv, NEW p \in Procs, NEW a \in Auths,
         ApplyRead(p, a) \/ CatalogRefresh(p, a) \/ RefreshEntry(p, a)
  PROVE  TypeInv'
<1>1. CASE ApplyRead(p, a)
  <2>1. PICK d \in BOOLEAN :
          snap' = [snap EXCEPT ![p] = [NoAuths EXCEPT ![a] =
                    IF auths[a] = NoAuth THEN CleanRec(d)
                    ELSE Inherit(CleanRec(d), auths[a])]]
    BY <1>1 DEF ApplyRead
  <2>2. PICK r \in AuthRec : snap' = [snap EXCEPT ![p] = [NoAuths EXCEPT ![a] = r]]
    BY <2>1, Places, CleanType, InheritType
  <2>3. [NoAuths EXCEPT ![a] = r] \in [Auths -> AuthRec \cup {NoAuth}]
    BY NoAuthsType
  <2>4. /\ snap' \in [Procs -> [Auths -> AuthRec \cup {NoAuth}]]
        /\ \A q \in Procs \ {p} : snap'[q] = snap[q]
        /\ snap'[p][a] # NoAuth
    BY <2>2, <2>3, RecordIsSomeone DEF TypeInv, TypeOK, NoAuths
  <2> DEFINE j == [job[p] EXCEPT !.pc = "apply_commit", !.auth = a,
                                 !.found = (auths[a] # NoAuth)]
  <2>5. j \in Job /\ j.pc = "apply_commit" /\ j.auth = a
    <3>1. (auths[a] # NoAuth) \in BOOLEAN
      OBVIOUS
    <3> QED BY <3>1, Places DEF Job, Pcs
  <2>6. job' = [job EXCEPT ![p] = j]
    BY <1>1 DEF ApplyRead, TypeInv, TypeOK, Job
  <2>7. UNCHANGED <<now, manager, registry, scheduler, live, stale>>
    BY <1>1 DEF ApplyRead
  <2> HIDE DEF j
  <2>8. job' \in [Procs -> Job] /\ job'[p] = j
        /\ \A q \in Procs \ {p} : job'[q] = job[q]
    BY <2>5, <2>6 DEF TypeInv, TypeOK
  <2>9. JobOK(job'[p], snap'[p])
    BY <2>4, <2>5, <2>8 DEF JobOK
  <2> QED BY <2>4, <2>7, <2>8, <2>9, OwnStepType DEF TypeInv, TypeOK
<1>2. CASE CatalogRefresh(p, a)
  <2> DEFINE j == [job[p] EXCEPT !.pc = "inventory", !.auth = a, !.round = "first"]
  <2>1. j \in Job /\ j.pc = "inventory" /\ j.auth = a
    BY Places DEF Job, Pcs
  <2>2. /\ job' = [job EXCEPT ![p] = j]
        /\ snap' = [snap EXCEPT ![p] = [NoAuths EXCEPT ![a] = auths[a]]]
        /\ UNCHANGED <<now, manager, registry, scheduler, live, stale>>
    BY <1>2 DEF CatalogRefresh, TypeInv, TypeOK, Job
  <2> HIDE DEF j
  <2>3. [NoAuths EXCEPT ![a] = auths[a]] \in [Auths -> AuthRec \cup {NoAuth}]
    BY NoAuthsType, Places
  <2>4. /\ snap' \in [Procs -> [Auths -> AuthRec \cup {NoAuth}]]
        /\ \A q \in Procs \ {p} : snap'[q] = snap[q]
        /\ job' \in [Procs -> Job] /\ job'[p] = j
        /\ \A q \in Procs \ {p} : job'[q] = job[q]
    BY <2>1, <2>2, <2>3 DEF TypeInv, TypeOK
  <2>5. snap'[p][a] # NoAuth
    BY <1>2, <2>2 DEF CatalogRefresh, Schedulable, TypeInv, TypeOK, NoAuths
  <2>6. JobOK(job'[p], snap'[p])
    BY <2>1, <2>4, <2>5 DEF JobOK
  <2> QED BY <2>2, <2>4, <2>6, OwnStepType DEF TypeInv, TypeOK
<1>3. CASE RefreshEntry(p, a)
  <2>1. "entry_read" \in Pcs /\ Start(p, "entry_read", a)
    BY <1>3 DEF RefreshEntry, Start, Pcs
  <2>2. /\ job' \in [Procs -> Job]
        /\ \A q \in Procs \ {p} : job'[q] = job[q]
        /\ job'[p].pc = "entry_read" /\ job'[p].auth = a
    BY <2>1, StartType
  <2>3. UNCHANGED <<now, manager, registry, scheduler, snap, live, stale>>
    BY <1>3 DEF RefreshEntry
  <2>4. JobOK(job'[p], snap'[p])
    BY <2>2 DEF JobOK
  <2> QED BY <2>2, <2>3, <2>4, OwnStepType DEF TypeInv, TypeOK
<1> QED BY <1>1, <1>2, <1>3

LEMMA PipelineStepType ==
  ASSUME TypeInv, NEW p \in Procs, Pipeline(p),
         ~\E a \in Auths :
            ApplyRead(p, a) \/ CatalogRefresh(p, a) \/ RefreshEntry(p, a)
  PROVE  TypeInv'
<1> DEFINE a == job[p].auth
<1> a \in Auths /\ snap[p][a] \in AuthRec \cup {NoAuth}
    /\ auths[a] \in AuthRec \cup {NoAuth}
  BY Places DEF Pipeline, ApplyCommit, ApplyMissing, ApplyUpsert, RegisterModels,
       ReconcileRead, ReconcileCommit, ReconcileNothing, ReconcileUpsert,
       LatestAuth, UnregisterLatest, EntryRead, EntryMissing, EntryUpsert,
       InventoryCommit, InventorySkip, InventoryUpsert, JobOK
<1>1. CASE ApplyCommit(p)
  <2>1. snap[p][a] \in AuthRec /\ job[p].pc = "apply_commit"
    BY <1>1, Places DEF ApplyCommit, JobOK
  <2>2. PICK r \in AuthRec : Replace(p, a, r)
    BY <1>1, <2>1, InheritType DEF ApplyCommit
  <2>3. Goto(p, "apply_upsert")
    BY <1>1 DEF ApplyCommit
  <2> QED BY <2>2, <2>3, ReplaceStepType
<1>2. CASE ApplyMissing(p)
  <2>1. snap[p][a] # NoAuth
    BY <1>2, Places DEF ApplyMissing, JobOK
  <2> QED BY <1>2, <2>1, OnwardType DEF ApplyMissing
<1>3. CASE ApplyUpsert(p)
  <2>1. /\ SchedulerPut(a, snap[p][a], p \in live)
        /\ live' \subseteq live /\ Goto(p, "inventory")
        /\ UNCHANGED <<now, manager, registry, snap, stale>>
        /\ job[p].pc = "apply_upsert"
    BY <1>3 DEF ApplyUpsert
  <2>2. PICK alias \in BOOLEAN : SchedulerPut(a, snap[p][a], alias)
    BY <2>1, PutAlias
  <2>3. JobOK([job[p] EXCEPT !.pc = "inventory"], snap'[p]) /\ "inventory" \in Pcs
    BY <2>1, Places DEF JobOK, Job, Pcs
  <2> QED BY <2>1, <2>2, <2>3, PutType
<1>14. CASE InventoryCommit(p)
  <2>1. snap[p][a] \in AuthRec /\ job[p].pc = "inventory" /\ auths[a] \in AuthRec
    BY <1>14, Places DEF InventoryCommit, JobOK
  <2>2. PICK r \in AuthRec : Replace(p, a, r)
    BY <1>14, <2>1, InheritType DEF InventoryCommit
  <2>3. Goto(p, "inventory_upsert")
    BY <1>14 DEF InventoryCommit
  <2> QED BY <2>2, <2>3, ReplaceStepType
<1>15. CASE InventorySkip(p)
  BY <1>15, OnwardType DEF InventorySkip
<1>16. CASE InventoryUpsert(p)
  <2>1. /\ SchedulerPut(a, snap[p][a], p \in live)
        /\ live' \subseteq live /\ Goto(p, "models")
        /\ UNCHANGED <<now, manager, registry, snap, stale>>
    BY <1>16 DEF InventoryUpsert
  <2>2. PICK alias \in BOOLEAN : SchedulerPut(a, snap[p][a], alias)
    BY <2>1, PutAlias
  <2>3. JobOK([job[p] EXCEPT !.pc = "models"], snap'[p]) /\ "models" \in Pcs
    BY Places DEF JobOK, Job, Pcs
  <2> QED BY <2>1, <2>2, <2>3, PutType
<1>4. CASE RegisterModels(p)
  <2>1. PICK S \in SUBSET Models : RegisterClient(a, S)
    BY <1>4 DEF RegisterModels
  <2> QED BY <1>4, <2>1, RegisterStepType DEF RegisterModels
<1>5. CASE ReconcileRead(p)
  <2> DEFINE j == [job[p] EXCEPT !.pc = "reconcile_commit",
                                 !.supported = registered[a]]
  <2>1. j \in Job /\ JobOK(j, snap[p])
    BY Places DEF Job, Pcs, JobOK, TypeInv, TypeOK
  <2>2. /\ job' = [job EXCEPT ![p] = j]
        /\ UNCHANGED <<now, manager, registry, scheduler, snap, live, stale>>
    BY <1>5 DEF ReconcileRead, TypeInv, TypeOK, Job
  <2> QED BY <2>1, <2>2, MoveType
<1>6. CASE ReconcileCommit(p)
  <2> DEFINE j == [job[p] EXCEPT !.pc = "reconcile_upsert"]
             r == Reconciled(auths[a], job[p].supported)
  <2>1. j \in Job /\ j.pc = "reconcile_upsert" /\ j.auth \in Auths
    BY Places DEF Job, Pcs, UpsertPcs
  <2>2. job' = [job EXCEPT ![p] = j]
    BY <1>6 DEF ReconcileCommit, Goto, TypeInv, TypeOK, Job
  <2>3. job[p].supported \in SUBSET Models
    BY Places DEF Job
  <2>4. r \in AuthRec /\ Mutate(p, a, r)
    BY <1>6, <2>3, ReconciledType DEF ReconcileCommit
  <2> HIDE DEF j, r
  <2> QED BY <2>1, <2>2, <2>4, MutateStepType
<1>7. CASE ReconcileNothing(p)
  BY <1>7, OnwardType DEF ReconcileNothing, AfterReconcile
<1>8. CASE ReconcileUpsert(p)
  <2>1. PICK l \in {"latest", "entry_read"} : Goto(p, l)
    BY <1>8 DEF ReconcileUpsert, AfterReconcile
  <2>2. JobOK([job[p] EXCEPT !.pc = l], snap[p]) /\ l \in Pcs
    BY Places DEF JobOK, Job, Pcs
  <2>3. /\ SchedulerPut(a, snap[p][a], FALSE)
        /\ UNCHANGED <<now, manager, registry, snap, live, stale>>
    BY <1>8 DEF ReconcileUpsert
  <2> QED BY <2>1, <2>2, <2>3, PutType
<1>9. CASE LatestAuth(p)
  <2>1. PICK l \in {"inventory", "unregister"} :
          /\ job' = [job EXCEPT ![p] = [job[p] EXCEPT !.round = "second", !.pc = l]]
          /\ l = "inventory" => auths[a] # NoAuth
    BY <1>9 DEF LatestAuth, Schedulable, TypeInv, TypeOK, Job
  <2> DEFINE j == [job[p] EXCEPT !.round = "second", !.pc = l]
  <2>2. j \in Job /\ j.pc = l /\ j.auth = a
    BY Places DEF Job, Pcs
  <2>3. /\ snap' = [snap EXCEPT ![p] = [snap[p] EXCEPT ![a] = auths[a]]]
        /\ UNCHANGED <<now, manager, registry, scheduler, live, stale>>
    BY <1>9 DEF LatestAuth, TypeInv, TypeOK
  <2> HIDE DEF j
  <2>4. /\ snap' \in [Procs -> [Auths -> AuthRec \cup {NoAuth}]]
        /\ \A q \in Procs \ {p} : snap'[q] = snap[q]
        /\ snap'[p][a] = auths[a]
    BY <2>3 DEF TypeInv, TypeOK
  <2>5. job' \in [Procs -> Job] /\ job'[p] = j
        /\ \A q \in Procs \ {p} : job'[q] = job[q]
    BY <2>1, <2>2 DEF TypeInv, TypeOK, j
  <2>6. JobOK(job'[p], snap'[p])
    BY <2>1, <2>2, <2>4, <2>5 DEF JobOK
  <2> QED BY <2>3, <2>4, <2>5, <2>6, OwnStepType DEF TypeInv, TypeOK
<1>10. CASE UnregisterLatest(p)
  BY <1>10, RegisterStepType DEF UnregisterLatest
<1>11. CASE EntryRead(p)
  <2>1. /\ snap' = [snap EXCEPT ![p] = [NoAuths EXCEPT ![a] = auths[a]]]
        /\ stale' \subseteq stale /\ Goto(p, "entry_upsert")
        /\ UNCHANGED <<now, manager, registry, scheduler, live>>
    BY <1>11 DEF EntryRead
  <2>2. [NoAuths EXCEPT ![a] = auths[a]] \in [Auths -> AuthRec \cup {NoAuth}]
    BY NoAuthsType
  <2>3. /\ snap' \in [Procs -> [Auths -> AuthRec \cup {NoAuth}]]
        /\ \A q \in Procs \ {p} : snap'[q] = snap[q]
    BY <2>1, <2>2 DEF TypeInv, TypeOK
  <2>4. "entry_upsert" \in Pcs
    BY DEF Pcs, UpsertPcs
  <2>5. /\ job' \in [Procs -> Job] /\ job'[p].pc = "entry_upsert"
        /\ job'[p].auth = a
        /\ \A q \in Procs \ {p} : job'[q] = job[q]
    BY <2>1, <2>4, GotoType DEF TypeInv
  <2>6. JobOK(job'[p], snap'[p])
    BY <2>5 DEF JobOK
  <2> QED BY <2>1, <2>3, <2>5, <2>6, OwnStepType DEF TypeInv, TypeOK
<1>12. CASE EntryMissing(p)
  BY <1>12, EndType DEF EntryMissing
<1>13. CASE EntryUpsert(p)
  <2>1. /\ SchedulerPut(a, snap[p][a], FALSE) /\ Finish(p) /\ Forget(p)
        /\ UNCHANGED <<now, manager, registry, live, stale>>
    BY <1>13 DEF EntryUpsert
  <2> QED BY <2>1, PutType
<1> QED BY <1>1, <1>2, <1>3, <1>4, <1>5, <1>6, <1>7, <1>8, <1>9, <1>10, <1>11,
           <1>12, <1>13, <1>14, <1>15, <1>16 DEF Pipeline

LEMMA TypeInit == Init => TypeInv
<1> SUFFICES ASSUME Init PROVE TypeInv
  OBVIOUS
<1>1. IdleJob \in Job /\ Zero \in [Models -> Nat]
  BY DEF Job, IdleJob, Pcs, Zero
<1>2. TypeOK
  BY <1>1, NoAuthsType DEF Init, TypeOK
<1>3. PcOK
  BY DEF Init, PcOK, JobOK, IdleJob
<1> QED BY <1>2, <1>3 DEF TypeInv

LEMMA TypeNext == TypeInv /\ [Next]_vars => TypeInv'
<1> SUFFICES ASSUME TypeInv, [Next]_vars PROVE TypeInv'
  OBVIOUS
<1>1. CASE Tick
  BY <1>1 DEF Tick, TypeInv, TypeOK, PcOK, manager, registry, scheduler, entries
<1>2. ASSUME NEW p \in Procs, Synchronise(p) PROVE TypeInv'
  BY <1>2, SynchroniseType
<1>3. ASSUME NEW p \in Procs, Request(p) PROVE TypeInv'
  BY <1>3, RequestType
<1>4. ASSUME NEW p \in Procs, Updater(p) PROVE TypeInv'
  BY <1>4, UpdaterType
<1>5. ASSUME NEW p \in Procs, Pipeline(p) PROVE TypeInv'
  BY <1>5, PipelineStartType, PipelineStepType
<1>6. ASSUME NEW p \in Procs, Removal(p) PROVE TypeInv'
  BY <1>6, RemovalType
<1>7. CASE UNCHANGED vars
  BY <1>7 DEF vars, TypeInv, TypeOK, PcOK, manager, registry, scheduler, entries
<1> QED BY <1>1, <1>2, <1>3, <1>4, <1>5, <1>6, <1>7 DEF Next

(* Every reachable state of the manager, the scheduler and the goroutines is *)
(* well formed: in particular a goroutine that works on an auth names one,   *)
(* and one that is about to commit a record holds one.                       *)
THEOREM TypeCorrect == Spec => []TypeOK
<1>1. TypeInv => TypeOK
  BY DEF TypeInv
<1> QED BY <1>1, TypeInit, TypeNext, PTL DEF Spec

-----------------------------------------------------------------------------
(* The scheduler's entries. Whoever holds the manager's own object holds its *)
(* current contents and is about to give it to the scheduler.                *)
ObjectPcs == {"apply_upsert", "update_upsert", "inventory_upsert"}
LiveOK ==
  \A q \in live :
    /\ job[q].pc \in ObjectPcs
    /\ snap[q][job[q].auth] = auths[job[q].auth]

USE DEF ObjectPcs

(* A goroutine that is about to take an auth out of the scheduler has none.  *)
RemoverOK ==
  \A q \in Procs : job[q].pc = "remove_sched" => snap[q][job[q].auth] = NoAuth

(* The inductive invariant: MirrorAgrees alone is not inductive, because the *)
(* last upsert of an auth is right only if the record it carries is.         *)
IInv == TypeInv /\ LiveOK /\ RemoverOK /\ HeldIsCurrent /\ MirrorAgrees

\* What a step of p that does not commit leaves as it was.
Passive(p) ==
  /\ auths' = auths
  /\ live' \subseteq live \ {p}
  /\ \A q \in Procs \ {p} : job'[q] = job[q] /\ snap'[q] = snap[q]

\* What p holds after its step is the manager's record.
HoldsCurrent(p) == \A a \in Pending(p) : a \notin stale => snap[p][a] = auths[a]

LEMMA PassiveLive ==
  ASSUME IInv, NEW p \in Procs, Passive(p)
  PROVE  LiveOK'
<1>1. live \subseteq Procs
  BY DEF IInv, TypeInv, TypeOK
<1> QED BY <1>1 DEF Passive, IInv, LiveOK

LEMMA PassiveRemover ==
  ASSUME IInv, NEW p \in Procs,
         \A q \in Procs \ {p} : job'[q] = job[q] /\ snap'[q] = snap[q],
         job'[p].pc # "remove_sched"
  PROVE  RemoverOK'
BY DEF IInv, RemoverOK

\* A goroutine that holds nothing to apply is not holding the object.
LEMMA LivePending ==
  ASSUME IInv, NEW p \in Procs,
         job[p].pc \notin ObjectPcs
  PROVE  live = live \ {p}
BY DEF IInv, LiveOK

LEMMA PassiveHeld ==
  ASSUME IInv, NEW p \in Procs, Passive(p), HoldsCurrent(p)',
         \A a \in Auths : a \in stale /\ a \notin stale' => Rivals(p, a) = {}
  PROVE  HeldIsCurrent'
<1>1. ASSUME NEW q \in Procs, NEW a \in Pending(q)', a \notin stale'
      PROVE  snap'[q][a] = auths'[a]
  <2>1. CASE q = p
    BY <1>1, <2>1 DEF HoldsCurrent
  <2>2. CASE q # p
    <3>1. job'[q] = job[q] /\ snap'[q] = snap[q] /\ auths' = auths
      BY <2>2 DEF Passive
    <3>2. a \in Pending(q)
      BY <1>1, <3>1 DEF Pending
    <3>3. job[q] \in Job /\ JobOK(job[q], snap[q])
      BY Places DEF IInv
    <3>4. a \in Auths
      BY <3>2, <3>3 DEF Pending, UpsertPcs, JobOK
    <3>5. q \in Rivals(p, a)
      BY <2>2, <3>2 DEF Rivals
    <3>6. a \notin stale
      BY <1>1, <3>4, <3>5
    <3> QED BY <3>1, <3>2, <3>6 DEF IInv, HeldIsCurrent
  <2> QED BY <2>1, <2>2
<1> QED BY <1>1 DEF HeldIsCurrent

\* A step that leaves entries and history alone, and whose goroutine holds
\* nothing before or after.
LEMMA QuietStep ==
  ASSUME IInv, NEW p \in Procs, Passive(p), TypeInv',
         Pending(p) = {}, Pending(p)' = {},
         UNCHANGED <<schedAuth, stale>>
  PROVE  IInv'
<1>1. LiveOK'
  BY PassiveLive
<1>2. HeldIsCurrent'
  BY PassiveHeld DEF HoldsCurrent
<1>3. ASSUME NEW a \in Auths, Settled(a)', a \notin stale'
      PROVE  schedAuth'[a] = MirrorOf(auths'[a])
  <2>1. \A q \in Procs \ {p} : Pending(q)' = Pending(q)
    BY DEF Passive, Pending
  <2>2. Settled(a)
    BY <1>3, <2>1 DEF Settled
  <2>3. schedAuth[a] = MirrorOf(auths[a])
    BY <1>3, <2>2 DEF IInv, MirrorAgrees
  <2> QED BY <2>3 DEF Passive
<1>4. MirrorAgrees'
  BY <1>3 DEF MirrorAgrees, MirrorOf, Schedulable
<1>5. RemoverOK'
  BY PassiveRemover DEF Passive, Pending, UpsertPcs
<1> QED BY <1>1, <1>2, <1>4, <1>5 DEF IInv

\* The upsert that follows a commit of p.
LEMMA PutStep ==
  ASSUME IInv, NEW p \in Procs, NEW a \in Auths, NEW alias \in BOOLEAN,
         Passive(p), TypeInv',
         SchedulerPut(a, snap[p][a], alias),
         Pending(p) = {a}, Pending(p)' = {}, stale' = stale
  PROVE  IInv'
<1>1. LiveOK'
  BY PassiveLive
<1>2. HeldIsCurrent'
  BY PassiveHeld DEF HoldsCurrent
<1>3. ASSUME NEW b \in Auths, Settled(b)', b \notin stale'
      PROVE  schedAuth'[b] = MirrorOf(auths'[b])
  <2>1. \A q \in Procs \ {p} : Pending(q)' = Pending(q)
    BY DEF Passive, Pending
  <2>2. schedAuth' = [schedAuth EXCEPT ![a] = MirrorOf(snap[p][a])]
    BY DEF SchedulerPut
  <2>3. CASE b = a
    <3>1. snap[p][a] = auths[a]
      BY <1>3, <2>3 DEF IInv, HeldIsCurrent
    <3> QED BY <2>2, <2>3, <3>1 DEF Passive, IInv, TypeInv, TypeOK
  <2>4. CASE b # a
    <3>1. Settled(b)
      BY <1>3, <2>1, <2>4 DEF Settled
    <3>2. schedAuth[b] = MirrorOf(auths[b])
      BY <1>3, <3>1 DEF IInv, MirrorAgrees
    <3> QED BY <2>2, <2>4, <3>2 DEF Passive, IInv, TypeInv, TypeOK
  <2> QED BY <2>3, <2>4
<1>4. MirrorAgrees'
  BY <1>3 DEF MirrorAgrees, MirrorOf, Schedulable
<1>5. RemoverOK'
  BY PassiveRemover DEF Passive, Pending, UpsertPcs
<1> QED BY <1>1, <1>2, <1>4, <1>5 DEF IInv

\* A commit of p that changes the record of a: unless everybody else with an
\* unapplied record of a is in K and sees the change, the history says that
\* the two crossed.
Commit(p, a, r, K) ==
  /\ auths' = [auths EXCEPT ![a] = r]
  /\ Pending(p) = {} /\ Pending(p)' = {a} /\ snap'[p][a] = r
  /\ \A q \in Procs \ {p} : job'[q] = job[q]
  /\ \A q \in Procs \ {p} : \A b \in Auths \ {a} : snap'[q][b] = snap[q][b]
  /\ \A q \in K : job[q].auth = a => snap'[q][a] = r
  /\ stale' = IF Rivals(p, a) \ K # {} THEN stale \cup {a} ELSE stale \ {a}
  /\ \A b \in Auths \ {a} : schedAuth'[b] = schedAuth[b]

LEMMA CommitStep ==
  ASSUME IInv, NEW p \in Procs, NEW a \in Auths, NEW r,
         NEW K \in SUBSET live, Commit(p, a, r, K)
  PROVE  HeldIsCurrent' /\ MirrorAgrees'
<1> USE DEF Commit
<1>1. \A q \in Procs \ {p} : Pending(q)' = Pending(q)
  BY DEF Pending
<1>2. ASSUME NEW q \in Procs, NEW b \in Pending(q)', b \notin stale'
      PROVE  snap'[q][b] = auths'[b]
  <2>1. CASE q = p
    BY <1>2, <2>1 DEF IInv, TypeInv, TypeOK
  <2>2. CASE q # p
    <3>1. b \in Pending(q)
      BY <1>1, <1>2, <2>2
    <3>2. b \in Auths
      BY <3>1, Places DEF IInv, Pending, UpsertPcs, JobOK
    <3>3. CASE b = a
      <4>1. q \in Rivals(p, a)
        BY <2>2, <3>1, <3>3 DEF Rivals
      <4>2. q \in K
        BY <1>2, <3>3, <4>1
      <4>3. job[q].pc \in UpsertPcs
        BY <4>2 DEF IInv, LiveOK, UpsertPcs
      <4>4. job[q].auth = a
        BY <3>1, <3>3, <4>3 DEF Pending
      <4> QED BY <3>3, <4>2, <4>4 DEF IInv, TypeInv, TypeOK
    <3>4. CASE b # a
      <4>1. b \notin stale
        BY <1>2, <3>4
      <4>2. snap[q][b] = auths[b]
        BY <3>1, <4>1 DEF IInv, HeldIsCurrent
      <4> QED BY <2>2, <3>2, <3>4, <4>2 DEF IInv, TypeInv, TypeOK
    <3> QED BY <3>3, <3>4
  <2> QED BY <2>1, <2>2
<1>3. ASSUME NEW b \in Auths, Settled(b)', b \notin stale'
      PROVE  schedAuth'[b] = MirrorOf(auths'[b])
  <2>1. b # a
    BY <1>3 DEF Settled
  <2>2. Settled(b)
    BY <1>1, <1>3, <2>1 DEF Settled
  <2>3. b \notin stale
    BY <1>3, <2>1
  <2>4. schedAuth[b] = MirrorOf(auths[b])
    BY <2>2, <2>3 DEF IInv, MirrorAgrees
  <2> QED BY <2>1, <2>4 DEF IInv, TypeInv, TypeOK
<1>4. HeldIsCurrent'
  BY <1>2 DEF HeldIsCurrent
<1>5. MirrorAgrees'
  BY <1>3 DEF MirrorAgrees, MirrorOf, Schedulable
<1> QED BY <1>4, <1>5

LEMMA MutateStep ==
  ASSUME IInv, NEW p \in Procs, NEW a \in Auths, NEW r \in AuthRec,
         Mutate(p, a, r), TypeInv',
         \A q \in Procs \ {p} : job'[q] = job[q],
         Pending(p) = {}, Pending(p)' = {a}, job'[p].pc # "remove_sched"
  PROVE  IInv'
<1>1. p \notin live
  BY DEF IInv, LiveOK, Pending, UpsertPcs
<1>2. /\ auths' = [auths EXCEPT ![a] = r] /\ live' = live
      /\ snap' = [q \in Procs |->
                    IF q = p \/ (q \in live /\ job[q].auth = a)
                    THEN [snap[q] EXCEPT ![a] = r] ELSE snap[q]]
      /\ stale' = IF Rivals(p, a) \ live # {} THEN stale \cup {a}
                                              ELSE stale \ {a}
  BY DEF Mutate
<1>3. schedAuth' \in {schedAuth, [schedAuth EXCEPT ![a] = r]}
  BY DEF Mutate
<1>4. live \subseteq Procs
  BY DEF IInv, TypeInv, TypeOK
<1>5. \A q \in Procs : q = p \/ (q \in live /\ job[q].auth = a)
        => snap'[q][a] = r
  BY <1>2 DEF IInv, TypeInv, TypeOK
<1>6. \A q \in Procs : \A b \in Auths \ {a} : snap'[q][b] = snap[q][b]
  BY <1>2 DEF IInv, TypeInv, TypeOK
<1>7. \A b \in Auths \ {a} : schedAuth'[b] = schedAuth[b]
  BY <1>3 DEF IInv, TypeInv, TypeOK
<1>8. HeldIsCurrent' /\ MirrorAgrees'
  <2>1. Commit(p, a, r, live)
    BY <1>2, <1>4, <1>5, <1>6, <1>7 DEF Commit
  <2> QED BY <2>1, CommitStep
<1>9. LiveOK'
  <2>1. ASSUME NEW q \in live
        PROVE  /\ job'[q].pc \in ObjectPcs
               /\ snap'[q][job'[q].auth] = auths'[job'[q].auth]
    <3>1. q \in Procs \ {p} /\ job'[q] = job[q] /\ job[q].auth \in Auths
      BY <1>1, <1>4, Places DEF IInv, LiveOK, JobOK
    <3>2. CASE job[q].auth = a
      BY <1>2, <1>5, <3>1, <3>2 DEF IInv, LiveOK, TypeInv, TypeOK
    <3>3. CASE job[q].auth # a
      BY <1>2, <1>6, <3>1, <3>3 DEF IInv, LiveOK, TypeInv, TypeOK
    <3> QED BY <3>2, <3>3
  <2> QED BY <1>2, <2>1 DEF LiveOK
<1>10. RemoverOK'
  <2>1. ASSUME NEW q \in Procs, job'[q].pc = "remove_sched"
        PROVE  snap'[q][job'[q].auth] = NoAuth
    <3>1. q # p
      BY <2>1
    <3>2. q \notin live /\ snap'[q] = snap[q] /\ job'[q] = job[q]
      BY <1>2, <2>1, <3>1 DEF IInv, LiveOK, TypeInv, TypeOK
    <3> QED BY <2>1, <3>2 DEF IInv, RemoverOK
  <2> QED BY <2>1 DEF RemoverOK
<1> QED BY <1>8, <1>9, <1>10 DEF IInv

LEMMA ReplaceStep ==
  ASSUME IInv, NEW p \in Procs, NEW a \in Auths, NEW r \in AuthRec,
         Replace(p, a, r), TypeInv',
         \A q \in Procs \ {p} : job'[q] = job[q],
         Pending(p) = {}, job'[p].auth = a,
         job'[p].pc \in ObjectPcs
  PROVE  IInv'
<1>1. /\ auths' = [auths EXCEPT ![a] = r]
      /\ live' = {q \in live : job[q].auth # a} \cup {p}
      /\ snap' = [snap EXCEPT ![p] = [NoAuths EXCEPT ![a] = r]]
      /\ stale' = IF Rivals(p, a) # {} THEN stale \cup {a} ELSE stale \ {a}
      /\ schedAuth' = schedAuth
  BY DEF Replace
<1>2. Pending(p)' = {a}
  BY DEF Pending, UpsertPcs
<1>3. snap'[p][a] = r
  BY <1>1 DEF IInv, TypeInv, TypeOK, NoAuths
<1>4. \A q \in Procs \ {p} : snap'[q] = snap[q]
  BY <1>1 DEF IInv, TypeInv, TypeOK
<1>5. HeldIsCurrent' /\ MirrorAgrees'
  <2>1. Commit(p, a, r, {})
    BY <1>1, <1>2, <1>3, <1>4 DEF Commit
  <2> QED BY <2>1, CommitStep
<1>6. LiveOK'
  <2>1. ASSUME NEW q \in live'
        PROVE  /\ job'[q].pc \in ObjectPcs
               /\ snap'[q][job'[q].auth] = auths'[job'[q].auth]
    <3>1. CASE q = p
      BY <1>1, <1>3, <3>1 DEF IInv, TypeInv, TypeOK
    <3>2. CASE q # p
      <4>1. q \in live /\ q \in Procs /\ job[q].auth # a
        BY <1>1, <2>1, <3>2 DEF IInv, TypeInv, TypeOK
      <4>2. job[q].auth \in Auths
        BY <4>1, Places DEF IInv, LiveOK, JobOK
      <4> QED BY <1>1, <1>4, <3>2, <4>1, <4>2 DEF IInv, LiveOK, TypeInv, TypeOK
    <3> QED BY <3>1, <3>2
  <2> QED BY <2>1 DEF LiveOK
<1>7. RemoverOK'
  BY <1>4, PassiveRemover
<1> QED BY <1>5, <1>6, <1>7 DEF IInv

-----------------------------------------------------------------------------
(* The steps, group by group.                                               *)

Alone(p) == \A q \in Procs \ {p} : job'[q] = job[q] /\ snap'[q] = snap[q]

Holding == UpsertPcs \cup {"sync_rebuild"}

\* A step that takes p from one place without records to apply to another.
LEMMA QuietMove ==
  ASSUME IInv, TypeInv', NEW p \in Procs, Alone(p),
         UNCHANGED <<auths, schedAuth, live, stale>>,
         job[p].pc \notin Holding, job'[p].pc \notin Holding
  PROVE  IInv'
<1>1. live = live \ {p}
  BY LivePending DEF Holding, UpsertPcs
<1>2. Pending(p) = {} /\ Pending(p)' = {}
  BY DEF Pending, Holding
<1>3. Passive(p)
  BY <1>1 DEF Passive, Alone
<1> QED BY <1>2, <1>3, QuietStep

\* An upsert after which p holds nothing.
LEMMA PutMove ==
  ASSUME IInv, TypeInv', NEW p \in Procs, Alone(p),
         NEW alias \in BOOLEAN, SchedulerPut(job[p].auth, snap[p][job[p].auth], alias),
         auths' = auths, stale' = stale, live' \subseteq live \ {p},
         job[p].pc \in UpsertPcs, job'[p].pc \notin Holding
  PROVE  IInv'
<1>1. job[p].auth \in Auths
  BY Places DEF IInv, JobOK, UpsertPcs
<1>2. Pending(p) = {job[p].auth} /\ Pending(p)' = {}
  BY DEF Pending, Holding
<1>3. Passive(p)
  BY DEF Passive, Alone
<1> QED BY <1>1, <1>2, <1>3, PutStep

LEMMA FinishAlone ==
  ASSUME TypeInv, NEW p \in Procs, Finish(p), snap' = snap \/ Forget(p)
  PROVE  Alone(p) /\ job'[p].pc = "idle"
BY DEF Finish, Forget, Alone, IdleJob, TypeInv, TypeOK

LEMMA GotoAlone ==
  ASSUME TypeInv, NEW p \in Procs, NEW l, Goto(p, l), snap' = snap \/ Forget(p)
  PROVE  Alone(p) /\ job'[p].pc = l /\ job'[p].auth = job[p].auth
BY DEF Goto, Forget, Alone, TypeInv, TypeOK, Job

LEMMA SynchroniseStep ==
  ASSUME IInv, TypeInv', NEW p \in Procs, Synchronise(p)
  PROVE  IInv'
<1>1. CASE SetSelector(p)
  <2>1. Alone(p) /\ job'[p].pc = "sync_read"
    BY <1>1, GotoAlone DEF SetSelector, IInv
  <2>2. UNCHANGED <<auths, schedAuth, live, stale>> /\ job[p].pc = "idle"
    BY <1>1 DEF SetSelector, MayStart, manager, scheduler
  <2> QED BY <2>1, <2>2, QuietMove DEF Holding, UpsertPcs
<1>2. CASE SyncRead(p)
  <2>1. /\ snap' = [snap EXCEPT ![p] = auths]
        /\ stale' = {a \in stale : Rivals(p, a) # {}}
        /\ UNCHANGED <<auths, schedAuth, live>>
        /\ Goto(p, "sync_rebuild") /\ job[p].pc = "sync_read"
    BY <1>2 DEF SyncRead, manager, scheduler
  <2>2. /\ Alone(p) /\ job'[p].pc = "sync_rebuild" /\ snap'[p] = auths
    BY <2>1 DEF Goto, Alone, IInv, TypeInv, TypeOK, Job
  <2>3. Passive(p)
    <3>1. live = live \ {p}
      BY <2>1, LivePending
    <3> QED BY <2>1, <2>2, <3>1 DEF Passive, Alone
  <2>4. LiveOK'
    BY <2>3, PassiveLive
  <2>5. HeldIsCurrent'
    <3>1. HoldsCurrent(p)'
      BY <2>1, <2>2 DEF HoldsCurrent
    <3> QED BY <2>1, <2>3, <3>1, PassiveHeld
  <2>6. Pending(p)' = Auths
    BY <2>2 DEF Pending, UpsertPcs
  <2>7. MirrorAgrees'
    BY <2>6 DEF MirrorAgrees, Settled
  <2>8. RemoverOK'
    BY <2>2, PassiveRemover DEF Alone
  <2> QED BY <2>4, <2>5, <2>7, <2>8 DEF IInv
<1>3. CASE SyncRebuild(p)
  <2>1. /\ schedAuth' = [a \in Auths |-> MirrorOf(snap[p][a])]
        /\ UNCHANGED <<auths, live, stale>> /\ Forget(p)
        /\ job[p].pc = "sync_rebuild"
        /\ Finish(p) \/ Goto(p, "repick")
    BY <1>3 DEF SyncRebuild, manager
  <2>2. Alone(p) /\ job'[p].pc \in {"idle", "repick"}
    BY <2>1, FinishAlone, GotoAlone DEF IInv
  <2>3. Passive(p)
    <3>1. live = live \ {p}
      BY <2>1, LivePending
    <3> QED BY <2>1, <2>2, <3>1 DEF Passive, Alone
  <2>4. Pending(p) = Auths /\ Pending(p)' = {}
    BY <2>1, <2>2 DEF Pending, UpsertPcs
  <2>5. LiveOK'
    BY <2>3, PassiveLive
  <2>6. HeldIsCurrent'
    BY <2>1, <2>3, <2>4, PassiveHeld DEF HoldsCurrent
  <2>7. ASSUME NEW a \in Auths, a \notin stale'
        PROVE  schedAuth'[a] = MirrorOf(auths'[a])
    <3>1. snap[p][a] = auths[a]
      BY <2>1, <2>4, <2>7 DEF IInv, HeldIsCurrent
    <3> QED BY <2>1, <3>1
  <2>8. MirrorAgrees'
    BY <2>7 DEF MirrorAgrees, MirrorOf, Schedulable
  <2>9. RemoverOK'
    BY <2>2, PassiveRemover DEF Alone
  <2> QED BY <2>5, <2>6, <2>8, <2>9 DEF IInv
<1> QED BY <1>1, <1>2, <1>3 DEF Synchronise

LEMMA RequestStep ==
  ASSUME IInv, TypeInv', NEW p \in Procs, Request(p)
  PROVE  IInv'
<1> DEFINE a == job[p].auth
<1>1. ASSUME NEW m, NEW otherwise \in {"sync_read", "idle"},
             PickOrElse(p, m, otherwise), job[p].pc \in {"idle", "repick"}
      PROVE  IInv'
  <2>1. UNCHANGED <<auths, schedAuth, live, stale, snap>>
    BY <1>1 DEF PickOrElse, EnsureModel, manager
  <2>2. PICK j : /\ job' = [job EXCEPT ![p] = j]
                 /\ j.pc \in {"exec", "idle", "sync_read"}
    <3> DEFINE Given(b) == [IdleJob EXCEPT !.pc = "exec", !.auth = b, !.model = m]
               Waiting == [IdleJob EXCEPT !.pc = "sync_read", !.model = m]
    <3>1. \A b : Given(b).pc = "exec"
      BY DEF IdleJob
    <3>2. Waiting.pc = "sync_read" /\ IdleJob.pc = "idle"
      BY DEF IdleJob
    <3>3. \/ \E b : job' = [job EXCEPT ![p] = Given(b)]
          \/ job' = [job EXCEPT ![p] = Waiting]
          \/ job' = [job EXCEPT ![p] = IdleJob]
      BY <1>1 DEF PickOrElse
    <3> HIDE DEF Given, Waiting
    <3> QED BY <3>1, <3>2, <3>3
  <2>3. Alone(p) /\ job'[p].pc \in {"exec", "idle", "sync_read"}
    BY <2>1, <2>2 DEF Alone, IInv, TypeInv, TypeOK
  <2> QED BY <1>1, <2>1, <2>3, QuietMove DEF Holding, UpsertPcs
<1>2. CASE (\E m \in Models : Pick(p, m)) \/ Repick(p)
  BY <1>1, <1>2 DEF Pick, Repick, MayStart
<1>3. CASE Abandon(p) \/ MarkMissing(p) \/ MarkRegistry(p)
  <2>1. /\ UNCHANGED <<auths, schedAuth, live, stale, snap>> /\ Finish(p)
        /\ job[p].pc \in {"exec", "mark_registry"}
    BY <1>3 DEF Abandon, MarkMissing, MarkRegistry, manager, scheduler
  <2>2. Alone(p) /\ job'[p].pc = "idle"
    BY <2>1, FinishAlone DEF IInv
  <2> QED BY <2>1, <2>2, QuietMove DEF Holding, UpsertPcs
<1>4. CASE MarkResult(p)
  <2>1. a \in Auths /\ job[p].model \in Models /\ auths[a] \in AuthRec
        /\ job[p].pc = "exec"
    BY <1>4, Places DEF MarkResult, JobOK, IInv
  <2>2. now \in Nat /\ Cooldowns \subseteq Nat
    BY CooldownsAssumption DEF IInv, TypeInv, TypeOK
  <2>3. PICK r \in AuthRec, tail \in {"none", "resume", "suspend"} : MarkWith(p, r, tail)
    BY <1>4, <2>1, <2>2, SucceededType, FailedType DEF MarkResult
  <2>4. /\ Mutate(p, a, r)
        /\ job' = [job EXCEPT ![p].pc = "mark_upsert", ![p].tail = tail]
    BY <2>3 DEF MarkWith
  <2>5. /\ \A q \in Procs \ {p} : job'[q] = job[q]
        /\ job'[p].pc = "mark_upsert" /\ job'[p].auth = a
    BY <2>4 DEF IInv, TypeInv, TypeOK, Job
  <2>6. Pending(p) = {} /\ Pending(p)' = {a}
    BY <2>1, <2>5 DEF Pending, UpsertPcs
  <2> QED BY <2>1, <2>4, <2>5, <2>6, MutateStep
<1>5. CASE MarkUpsert(p)
  <2>1. /\ SchedulerPut(a, snap[p][a], FALSE) /\ Forget(p)
        /\ UNCHANGED <<auths, live, stale>>
        /\ Finish(p) \/ Goto(p, "mark_registry")
        /\ job[p].pc = "mark_upsert"
    BY <1>5 DEF MarkUpsert, manager
  <2>2. Alone(p) /\ job'[p].pc \in {"idle", "mark_registry"}
    BY <2>1, FinishAlone, GotoAlone DEF IInv
  <2>3. live = live \ {p}
    BY <2>1, LivePending
  <2> QED BY <2>1, <2>2, <2>3, PutMove DEF Holding, UpsertPcs
<1> QED BY <1>2, <1>3, <1>4, <1>5 DEF Request

LEMMA UpdaterStep ==
  ASSUME IInv, TypeInv', NEW p \in Procs, Updater(p)
  PROVE  IInv'
<1> DEFINE a == job[p].auth
<1>1. ASSUME NEW b \in Auths, CloneForUpdate(p, b) PROVE IInv'
  <2>1. /\ UNCHANGED <<auths, schedAuth, live, stale>> /\ job[p].pc = "idle"
        /\ job' = [job EXCEPT ![p].pc = "update_commit", ![p].auth = b]
        /\ snap' = [snap EXCEPT ![p] = [NoAuths EXCEPT ![b] = auths[b]]]
    BY <1>1 DEF CloneForUpdate, MayStart, manager, scheduler
  <2>2. Alone(p) /\ job'[p].pc = "update_commit"
    BY <2>1 DEF Alone, IInv, TypeInv, TypeOK, Job
  <2> QED BY <2>1, <2>2, QuietMove DEF Holding, UpsertPcs
<1>2. CASE UpdateCommit(p)
  <2>1. /\ a \in Auths /\ auths[a] \in AuthRec /\ snap[p][a] \in AuthRec
        /\ job[p].pc = "update_commit" /\ Goto(p, "update_upsert")
    BY <1>2, Places DEF UpdateCommit, JobOK, IInv
  <2>2. PICK d \in BOOLEAN :
          Replace(p, a, Inherit([snap[p][a] EXCEPT !.disabled = d], auths[a]))
    BY <1>2 DEF UpdateCommit
  <2>3. [snap[p][a] EXCEPT !.disabled = d] \in AuthRec
    BY <2>1 DEF AuthRec
  <2>4. PICK r \in AuthRec : Replace(p, a, r)
    BY <2>1, <2>2, <2>3, InheritType
  <2>5. /\ \A q \in Procs \ {p} : job'[q] = job[q]
        /\ job'[p].pc = "update_upsert" /\ job'[p].auth = a
    BY <2>1 DEF Goto, IInv, TypeInv, TypeOK, Job
  <2>6. Pending(p) = {}
    BY <2>1 DEF Pending, UpsertPcs
  <2> QED BY <2>1, <2>4, <2>5, <2>6, ReplaceStep
<1>3. CASE UpdateMissing(p)
  <2>1. /\ UNCHANGED <<auths, schedAuth, live, stale>> /\ Finish(p) /\ Forget(p)
        /\ job[p].pc = "update_commit"
    BY <1>3 DEF UpdateMissing, manager, scheduler
  <2>2. Alone(p) /\ job'[p].pc = "idle"
    BY <2>1, FinishAlone DEF IInv
  <2> QED BY <2>1, <2>2, QuietMove DEF Holding, UpsertPcs
<1>4. CASE RefreshFailed(p)
  <2>1. /\ SchedulerPut(a, auths[a], FALSE) /\ Finish(p) /\ Forget(p)
        /\ stale' = IF Rivals(p, a) # {} THEN stale ELSE stale \ {a}
        /\ UNCHANGED <<auths, live>> /\ job[p].pc = "update_commit"
    BY <1>4 DEF RefreshFailed, manager
  <2>2. Alone(p) /\ job'[p].pc = "idle" /\ a \in Auths
    BY <2>1, FinishAlone, Places DEF IInv, JobOK
  <2>3. Passive(p)
    <3>1. live = live \ {p}
      BY <2>1, LivePending
    <3> QED BY <2>1, <2>2, <3>1 DEF Passive, Alone
  <2>4. Pending(p) = {} /\ Pending(p)' = {}
    BY <2>1, <2>2 DEF Pending, UpsertPcs
  <2>5. LiveOK'
    BY <2>3, PassiveLive
  <2>6. HeldIsCurrent'
    BY <2>1, <2>3, <2>4, PassiveHeld DEF HoldsCurrent
  <2>7. ASSUME NEW b \in Auths, Settled(b)', b \notin stale'
        PROVE  schedAuth'[b] = MirrorOf(auths'[b])
    <3>1. schedAuth' = [schedAuth EXCEPT ![a] = MirrorOf(auths[a])]
      BY <2>1 DEF SchedulerPut
    <3>2. CASE b = a
      BY <2>1, <3>1, <3>2 DEF IInv, TypeInv, TypeOK
    <3>3. CASE b # a
      <4>1. \A q \in Procs : Pending(q)' = Pending(q)
        BY <2>2, <2>4 DEF Alone, Pending
      <4>2. Settled(b) /\ b \notin stale
        BY <2>1, <2>7, <3>3, <4>1 DEF Settled
      <4>3. schedAuth[b] = MirrorOf(auths[b])
        BY <4>2 DEF IInv, MirrorAgrees
      <4> QED BY <2>1, <3>1, <3>3, <4>3 DEF IInv, TypeInv, TypeOK
    <3> QED BY <3>2, <3>3
  <2>8. MirrorAgrees'
    BY <2>7 DEF MirrorAgrees, MirrorOf, Schedulable
  <2>9. RemoverOK'
    BY <2>2, PassiveRemover DEF Alone
  <2> QED BY <2>5, <2>6, <2>8, <2>9 DEF IInv
<1>5. CASE UpdateUpsert(p)
  <2>1. /\ SchedulerPut(a, snap[p][a], p \in live) /\ Finish(p) /\ Forget(p)
        /\ live' = live \ {p} /\ auths' = auths /\ stale' = stale
        /\ job[p].pc = "update_upsert"
    BY <1>5 DEF UpdateUpsert, manager
  <2>2. PICK alias \in BOOLEAN : SchedulerPut(a, snap[p][a], alias)
    BY <2>1, PutAlias
  <2>3. Alone(p) /\ job'[p].pc = "idle"
    BY <2>1, FinishAlone DEF IInv
  <2> QED BY <2>1, <2>2, <2>3, PutMove DEF Holding, UpsertPcs
<1> QED BY <1>1, <1>2, <1>3, <1>4, <1>5 DEF Updater

LEMMA PipelineStep ==
  ASSUME IInv, TypeInv', NEW p \in Procs, Pipeline(p)
  PROVE  IInv'
<1> DEFINE a == job[p].auth
<1>1. ASSUME NEW b \in Auths,
             ApplyRead(p, b) \/ CatalogRefresh(p, b) \/ RefreshEntry(p, b)
      PROVE  IInv'
  <2>1. /\ UNCHANGED <<auths, schedAuth, live, stale>> /\ job[p].pc = "idle"
        /\ \A q \in Procs \ {p} : job'[q] = job[q] /\ snap'[q] = snap[q]
    BY <1>1 DEF ApplyRead, CatalogRefresh, RefreshEntry, MayStart, manager,
         scheduler, IInv, TypeInv, TypeOK
  <2>2. job'[p].pc \in {"apply_commit", "inventory", "entry_read"}
    BY <1>1 DEF ApplyRead, CatalogRefresh, RefreshEntry, IInv, TypeInv, TypeOK, Job
  <2> QED BY <2>1, <2>2, QuietMove DEF Alone, Holding, UpsertPcs
<1>2. CASE ApplyCommit(p)
  <2>1. /\ a \in Auths /\ snap[p][a] \in AuthRec
        /\ auths[a] \in AuthRec \cup {NoAuth}
        /\ job[p].pc = "apply_commit" /\ Goto(p, "apply_upsert")
    BY <1>2, Places DEF ApplyCommit, JobOK, IInv
  <2>2. PICK r \in AuthRec : Replace(p, a, r)
    BY <1>2, <2>1, InheritType DEF ApplyCommit
  <2>3. /\ \A q \in Procs \ {p} : job'[q] = job[q]
        /\ job'[p].pc = "apply_upsert" /\ job'[p].auth = a
    BY <2>1 DEF Goto, IInv, TypeInv, TypeOK, Job
  <2>4. Pending(p) = {}
    BY <2>1 DEF Pending, UpsertPcs
  <2> QED BY <2>1, <2>2, <2>3, <2>4, ReplaceStep
<1>11. CASE InventoryCommit(p)
  <2>1. /\ a \in Auths /\ snap[p][a] \in AuthRec
        /\ auths[a] \in AuthRec
        /\ job[p].pc = "inventory" /\ Goto(p, "inventory_upsert")
    BY <1>11, Places DEF InventoryCommit, JobOK, IInv
  <2>2. PICK r \in AuthRec : Replace(p, a, r)
    BY <1>11, <2>1, InheritType DEF InventoryCommit
  <2>3. /\ \A q \in Procs \ {p} : job'[q] = job[q]
        /\ job'[p].pc = "inventory_upsert" /\ job'[p].auth = a
    BY <2>1 DEF Goto, IInv, TypeInv, TypeOK, Job
  <2>4. Pending(p) = {}
    BY <2>1 DEF Pending, UpsertPcs
  <2> QED BY <2>1, <2>2, <2>3, <2>4, ReplaceStep
<1>3. CASE ApplyUpsert(p) \/ InventoryUpsert(p)
  <2>1. /\ SchedulerPut(a, snap[p][a], p \in live)
        /\ \E l \in {"inventory", "models"} : Goto(p, l)
        /\ snap' = snap
        /\ live' = live \ {p} /\ auths' = auths /\ stale' = stale
        /\ job[p].pc \in {"apply_upsert", "inventory_upsert"}
    BY <1>3 DEF ApplyUpsert, InventoryUpsert, manager
  <2>2. PICK alias \in BOOLEAN : SchedulerPut(a, snap[p][a], alias)
    BY <2>1, PutAlias
  <2>3. Alone(p) /\ job'[p].pc \in {"inventory", "models"}
    BY <2>1, GotoAlone DEF IInv
  <2> QED BY <2>1, <2>2, <2>3, PutMove DEF Holding, UpsertPcs
<1>4. CASE \/ ApplyMissing(p) \/ RegisterModels(p) \/ ReconcileNothing(p)
           \/ UnregisterLatest(p) \/ InventorySkip(p)
  <2>1. /\ UNCHANGED <<auths, schedAuth, live, stale, snap>>
        /\ job[p].pc \in {"apply_commit", "inventory", "models",
                          "reconcile_commit", "unregister"}
        /\ \E l \in {"inventory", "models", "reconcile_read", "latest",
                      "entry_read"} : Goto(p, l)
    BY <1>4 DEF ApplyMissing, InventorySkip, RegisterModels, ReconcileNothing, UnregisterLatest,
         AfterReconcile, manager, scheduler
  <2>2. Alone(p)
        /\ job'[p].pc \in {"inventory", "models", "reconcile_read", "latest",
                           "entry_read"}
    BY <2>1, GotoAlone DEF IInv
  <2> QED BY <2>1, <2>2, QuietMove DEF Holding, UpsertPcs
<1>5. CASE ReconcileRead(p) \/ LatestAuth(p)
  <2>1. /\ UNCHANGED <<auths, schedAuth, live, stale>>
        /\ job[p].pc \in {"reconcile_read", "latest"}
        /\ \A q \in Procs \ {p} : job'[q] = job[q] /\ snap'[q] = snap[q]
    BY <1>5 DEF ReconcileRead, LatestAuth, manager, scheduler,
         IInv, TypeInv, TypeOK
  <2>2. job'[p].pc \in {"reconcile_commit", "inventory", "unregister"}
    BY <1>5 DEF ReconcileRead, LatestAuth, IInv, TypeInv, TypeOK, Job
  <2> QED BY <2>1, <2>2, QuietMove DEF Alone, Holding, UpsertPcs
<1>6. CASE ReconcileCommit(p)
  <2>1. /\ a \in Auths /\ auths[a] \in AuthRec
        /\ job[p].supported \in SUBSET Models
        /\ job[p].pc = "reconcile_commit" /\ Goto(p, "reconcile_upsert")
    BY <1>6, Places DEF ReconcileCommit, JobOK, IInv, Job
  <2>2. PICK r \in AuthRec : Mutate(p, a, r)
    BY <1>6, <2>1, ReconciledType DEF ReconcileCommit
  <2>3. /\ \A q \in Procs \ {p} : job'[q] = job[q]
        /\ job'[p].pc = "reconcile_upsert" /\ job'[p].auth = a
    BY <2>1 DEF Goto, IInv, TypeInv, TypeOK, Job
  <2>4. Pending(p) = {} /\ Pending(p)' = {a}
    BY <2>1, <2>3 DEF Pending, UpsertPcs
  <2> QED BY <2>1, <2>2, <2>3, <2>4, MutateStep
<1>7. CASE ReconcileUpsert(p)
  <2>1. /\ SchedulerPut(a, snap[p][a], FALSE) /\ snap' = snap
        /\ UNCHANGED <<auths, live, stale>> /\ job[p].pc = "reconcile_upsert"
        /\ \E l \in {"latest", "entry_read"} : Goto(p, l)
    BY <1>7 DEF ReconcileUpsert, AfterReconcile, manager
  <2>2. Alone(p) /\ job'[p].pc \in {"latest", "entry_read"}
    BY <2>1, GotoAlone DEF IInv
  <2>3. live = live \ {p}
    BY <2>1, LivePending
  <2> QED BY <2>1, <2>2, <2>3, PutMove DEF Holding, UpsertPcs
<1>8. CASE EntryRead(p)
  <2>1. /\ snap' = [snap EXCEPT ![p] = [NoAuths EXCEPT ![a] = auths[a]]]
        /\ stale' = IF Rivals(p, a) # {} THEN stale ELSE stale \ {a}
        /\ UNCHANGED <<auths, schedAuth, live>>
        /\ Goto(p, "entry_upsert") /\ job[p].pc = "entry_read"
    BY <1>8 DEF EntryRead, manager, scheduler
  <2>2. a \in Auths
    BY <2>1, Places DEF IInv, JobOK
  <2>3. /\ Alone(p) /\ job'[p].pc = "entry_upsert" /\ job'[p].auth = a
        /\ snap'[p][a] = auths[a]
    BY <2>1, <2>2 DEF Goto, Alone, NoAuths, IInv, TypeInv, TypeOK, Job
  <2>4. Passive(p)
    <3>1. live = live \ {p}
      BY <2>1, LivePending
    <3> QED BY <2>1, <2>3, <3>1 DEF Passive, Alone
  <2>5. Pending(p) = {} /\ Pending(p)' = {a}
    BY <2>1, <2>3 DEF Pending, UpsertPcs
  <2>6. LiveOK'
    BY <2>4, PassiveLive
  <2>7. HeldIsCurrent'
    <3>1. HoldsCurrent(p)'
      BY <2>1, <2>3, <2>5 DEF HoldsCurrent
    <3> QED BY <2>1, <2>4, <3>1, PassiveHeld
  <2>8. ASSUME NEW b \in Auths, Settled(b)', b \notin stale'
        PROVE  schedAuth'[b] = MirrorOf(auths'[b])
    <3>1. b # a
      BY <2>5, <2>8 DEF Settled
    <3>2. \A q \in Procs \ {p} : Pending(q)' = Pending(q)
      BY <2>3 DEF Alone, Pending
    <3>3. Settled(b) /\ b \notin stale
      BY <2>1, <2>5, <2>8, <3>1, <3>2 DEF Settled
    <3> QED BY <2>1, <3>3 DEF IInv, MirrorAgrees
  <2>9. MirrorAgrees'
    BY <2>8 DEF MirrorAgrees, MirrorOf, Schedulable
  <2>10. RemoverOK'
    BY <2>3, PassiveRemover DEF Alone
  <2> QED BY <2>6, <2>7, <2>9, <2>10 DEF IInv
<1>9. CASE EntryMissing(p)
  <2>1. /\ UNCHANGED <<auths, schedAuth, live, stale>> /\ Finish(p) /\ Forget(p)
        /\ job[p].pc = "entry_read"
    BY <1>9 DEF EntryMissing, manager, scheduler
  <2>2. Alone(p) /\ job'[p].pc = "idle"
    BY <2>1, FinishAlone DEF IInv
  <2> QED BY <2>1, <2>2, QuietMove DEF Holding, UpsertPcs
<1>10. CASE EntryUpsert(p)
  <2>1. /\ SchedulerPut(a, snap[p][a], FALSE) /\ Finish(p) /\ Forget(p)
        /\ UNCHANGED <<auths, live, stale>> /\ job[p].pc = "entry_upsert"
    BY <1>10 DEF EntryUpsert, manager
  <2>2. Alone(p) /\ job'[p].pc = "idle"
    BY <2>1, FinishAlone DEF IInv
  <2>3. live = live \ {p}
    BY <2>1, LivePending
  <2> QED BY <2>1, <2>2, <2>3, PutMove DEF Holding, UpsertPcs
<1> QED BY <1>1, <1>2, <1>3, <1>4, <1>5, <1>6, <1>7, <1>8, <1>9, <1>10,
           <1>11 DEF Pipeline

LEMMA RemovalStep ==
  ASSUME IInv, TypeInv', NEW p \in Procs, Removal(p)
  PROVE  IInv'
<1> DEFINE a == job[p].auth
<1>1. ASSUME NEW b \in Auths, RemovalUnregister(p, b) \/ ManagementRemove(p, b)
      PROVE  IInv'
  <2>1. /\ UNCHANGED <<auths, schedAuth, live, stale, snap>> /\ job[p].pc = "idle"
        /\ job' = [job EXCEPT ![p].pc = "remove_commit", ![p].auth = b]
    BY <1>1 DEF RemovalUnregister, ManagementRemove, MayStart, manager, scheduler
  <2>2. Alone(p) /\ job'[p].pc = "remove_commit"
    BY <2>1 DEF Alone, IInv, TypeInv, TypeOK, Job
  <2> QED BY <2>1, <2>2, QuietMove DEF Holding, UpsertPcs
<1>2. CASE RemoveCommit(p)
  <2>1. /\ auths' = [auths EXCEPT ![a] = NoAuth]
        /\ live' = {q \in live : job[q].auth # a}
        /\ snap' = [snap EXCEPT ![p] = NoAuths]
        /\ stale' = IF Rivals(p, a) # {} THEN stale \cup {a} ELSE stale \ {a}
        /\ Goto(p, "remove_sched") /\ job[p].pc = "remove_commit"
        /\ schedAuth' = schedAuth
    BY <1>2 DEF RemoveCommit
  <2>2. a \in Auths
    BY <2>1, Places DEF IInv, JobOK
  <2>3. /\ job'[p].pc = "remove_sched" /\ job'[p].auth = a
        /\ \A q \in Procs \ {p} : job'[q] = job[q] /\ snap'[q] = snap[q]
        /\ snap'[p][a] = NoAuth
    BY <2>1, <2>2 DEF Goto, NoAuths, IInv, TypeInv, TypeOK, Job
  <2>4. Pending(p) = {} /\ Pending(p)' = {a}
    BY <2>1, <2>3 DEF Pending, UpsertPcs
  <2>5. Commit(p, a, NoAuth, {})
    BY <2>1, <2>3, <2>4 DEF Commit
  <2>6. HeldIsCurrent' /\ MirrorAgrees'
    BY <2>2, <2>5, CommitStep
  <2>7. ASSUME NEW q \in live'
        PROVE  /\ job'[q].pc \in ObjectPcs
               /\ snap'[q][job'[q].auth] = auths'[job'[q].auth]
    <3>1. /\ q \in live /\ q \in Procs \ {p} /\ job[q].auth # a
          /\ job[q].pc \in ObjectPcs
      BY <2>1, <2>7 DEF IInv, LiveOK, TypeInv, TypeOK
    <3>2. job[q].auth \in Auths
      BY <3>1, Places DEF IInv, JobOK
    <3> QED BY <2>1, <2>3, <3>1, <3>2 DEF IInv, LiveOK, TypeInv, TypeOK
  <2>8. LiveOK'
    BY <2>7 DEF LiveOK
  <2>9. RemoverOK'
    <3>1. ASSUME NEW q \in Procs, job'[q].pc = "remove_sched"
          PROVE  snap'[q][job'[q].auth] = NoAuth
      BY <2>3, <3>1 DEF IInv, RemoverOK
    <3> QED BY <3>1 DEF RemoverOK
  <2> QED BY <2>6, <2>8, <2>9 DEF IInv
<1>3. CASE RemoveMissing(p)
  <2>1. /\ UNCHANGED <<auths, schedAuth, live, stale, snap>> /\ Finish(p)
        /\ job[p].pc = "remove_commit"
    BY <1>3 DEF RemoveMissing, manager, scheduler
  <2>2. Alone(p) /\ job'[p].pc = "idle"
    BY <2>1, FinishAlone DEF IInv
  <2> QED BY <2>1, <2>2, QuietMove DEF Holding, UpsertPcs
<1>4. CASE RemoveUnschedule(p)
  \* The removal carries no record: what it puts is what p holds.
  <2>1. /\ SchedulerPut(a, NoAuth, FALSE) /\ Finish(p) /\ Forget(p)
        /\ UNCHANGED <<auths, live, stale>> /\ job[p].pc = "remove_sched"
    BY <1>4 DEF RemoveUnschedule, manager
  <2>2. Alone(p) /\ job'[p].pc = "idle"
    BY <2>1, FinishAlone DEF IInv
  <2>3. live = live \ {p}
    BY <2>1, LivePending
  <2>4. snap[p][a] = NoAuth
    BY <2>1 DEF IInv, RemoverOK
  <2> QED BY <2>1, <2>2, <2>3, <2>4, PutMove DEF Holding, UpsertPcs
<1> QED BY <1>1, <1>2, <1>3, <1>4 DEF Removal

LEMMA InvInit == Init => IInv
<1> SUFFICES ASSUME Init PROVE IInv
  OBVIOUS
<1>1. \A p \in Procs : job[p].pc = "idle"
  BY DEF Init, IdleJob
<1>2. LiveOK /\ RemoverOK
  BY <1>1 DEF Init, LiveOK, RemoverOK
<1>3. HeldIsCurrent
  BY <1>1 DEF HeldIsCurrent, Pending, UpsertPcs
<1>4. MirrorAgrees
  BY DEF Init, MirrorAgrees, MirrorOf, Schedulable, NoAuths
<1> QED BY <1>2, <1>3, <1>4, TypeInit DEF IInv

LEMMA InvNext == IInv /\ [Next]_vars => IInv'
<1> SUFFICES ASSUME IInv, [Next]_vars PROVE IInv'
  OBVIOUS
<1>1. TypeInv'
  BY TypeNext DEF IInv
<1>2. CASE Tick \/ UNCHANGED vars
  <2>1. UNCHANGED <<auths, schedAuth, job, snap, live, stale>>
    BY <1>2 DEF Tick, vars, manager, scheduler
  <2>2. LiveOK' /\ RemoverOK'
    BY <2>1 DEF IInv, LiveOK, RemoverOK
  <2>3. HeldIsCurrent'
    BY <2>1 DEF IInv, HeldIsCurrent, Pending
  <2>4. MirrorAgrees'
    BY <2>1 DEF IInv, MirrorAgrees, MirrorOf, Schedulable, Settled, Pending
  <2> QED BY <1>1, <2>2, <2>3, <2>4 DEF IInv
<1>3. ASSUME NEW p \in Procs, Synchronise(p) PROVE IInv'
  BY <1>1, <1>3, SynchroniseStep
<1>4. ASSUME NEW p \in Procs, Request(p) PROVE IInv'
  BY <1>1, <1>4, RequestStep
<1>5. ASSUME NEW p \in Procs, Updater(p) PROVE IInv'
  BY <1>1, <1>5, UpdaterStep
<1>6. ASSUME NEW p \in Procs, Pipeline(p) PROVE IInv'
  BY <1>1, <1>6, PipelineStep
<1>7. ASSUME NEW p \in Procs, Removal(p) PROVE IInv'
  BY <1>1, <1>7, RemovalStep
<1> QED BY <1>2, <1>3, <1>4, <1>5, <1>6, <1>7 DEF Next

(* The scheduler never keeps an outdated entry on its own account: for every *)
(* number of goroutines and auths, once nobody holds an unapplied record of  *)
(* an auth, its entry is the manager's record, unless updates of that very   *)
(* auth were committed in one order and applied in another.                  *)
THEOREM SchedulerMirrors == Spec => []MirrorAgrees
<1>1. IInv => MirrorAgrees
  BY DEF IInv
<1> QED BY <1>1, InvInit, InvNext, PTL DEF Spec

(* Updates that did not cross can be applied in any order: whoever still has *)
(* to apply a record of such an auth holds the manager's current one.        *)
THEOREM UncrossedHoldCurrent == Spec => []HeldIsCurrent
<1>1. IInv => HeldIsCurrent
  BY DEF IInv
<1> QED BY <1>1, InvInit, InvNext, PTL DEF Spec

-----------------------------------------------------------------------------
(* Routing. The scheduler picks from its ready lists, not from the records,  *)
(* so the inductive invariant gets a part that says what the lists are       *)
(* worth. The model sets lean on MirrorAgrees where the pipeline finds the   *)
(* credential gone and leaves without an upsert: the scheduler then has no   *)
(* entry either.                                                             *)


\* What is listed as ready has a record that is not blocked.
ListsRight(a) ==
  \A m \in ready[a] : schedAuth[a] # NoAuth /\ ~Blocked(schedAuth[a], m, now)

\* A commit in place may change a record the scheduler shares, and the lists
\* are wrong until the upsert that follows it.
ReadyOK == \A a \in Auths : Settled(a) => ListsRight(a)

OtherJobs(p) == \A q \in Procs \ {p} : job'[q] = job[q]

\* Only a pick sends a goroutine off with a credential.
Chosen(p) ==
  job'[p].pc = "exec" =>
    job'[p].auth \in Auths /\ ReadyNow(job'[p].auth, job'[p].model)

LEMMA OthersPending ==
  ASSUME NEW p \in Procs, OtherJobs(p)
  PROVE  \A q \in Procs \ {p} : Pending(q)' = Pending(q)
BY DEF OtherJobs, Pending

-----------------------------------------------------------------------------
(* The kinds of steps.                                                      *)

LEMMA ReadyQuiet ==
  ASSUME ReadyOK, NEW p \in Procs, OtherJobs(p),
         UNCHANGED <<schedAuth, ready, now>>, job[p].pc \notin Holding
  PROVE  ReadyOK'
<1>1. Pending(p) = {}
  BY DEF Pending, Holding
<1>2. ASSUME NEW a \in Auths, Settled(a)' PROVE ListsRight(a)'
  <2>1. Settled(a)
    BY <1>1, <1>2, OthersPending DEF Settled
  <2>2. ListsRight(a)
    BY <2>1 DEF ReadyOK
  <2> QED BY <2>2 DEF ListsRight, Blocked
<1> QED BY <1>2 DEF ReadyOK

LEMMA ReadyPut ==
  ASSUME TypeInv, ReadyOK, NEW p \in Procs, OtherJobs(p),
         NEW a \in Auths, NEW r, NEW alias, SchedulerPut(a, r, alias),
         now' = now, Pending(p) \subseteq {a}
  PROVE  ReadyOK'
<1>1. /\ schedAuth' = [schedAuth EXCEPT ![a] = MirrorOf(r)]
      /\ ready' = [ready EXCEPT ![a] =
           {m \in IF Schedulable(r) THEN shards \cap registered[a] ELSE {} :
              ~Blocked(r, m, now)}]
  BY DEF SchedulerPut
<1>2. ListsRight(a)'
  <2>1. ASSUME NEW m \in ready'[a]
        PROVE  schedAuth'[a] # NoAuth /\ ~Blocked(schedAuth'[a], m, now')
    <3>1. Schedulable(r) /\ ~Blocked(r, m, now)
      BY <1>1, <2>1 DEF TypeInv, TypeOK
    <3>2. schedAuth'[a] = r /\ r # NoAuth
      BY <1>1, <3>1 DEF MirrorOf, Schedulable, TypeInv, TypeOK
    <3> QED BY <3>1, <3>2
  <2> QED BY <2>1 DEF ListsRight, Blocked
<1>3. ASSUME NEW b \in Auths \ {a}, Settled(b)' PROVE ListsRight(b)'
  <2>1. Settled(b)
    BY <1>3, OthersPending DEF Settled
  <2>2. ListsRight(b)
    BY <2>1 DEF ReadyOK
  <2>3. schedAuth'[b] = schedAuth[b] /\ ready'[b] = ready[b]
    BY <1>1 DEF TypeInv, TypeOK
  <2> QED BY <2>2, <2>3 DEF ListsRight, Blocked
<1> QED BY <1>2, <1>3 DEF ReadyOK

LEMMA ReadyCommit ==
  ASSUME ReadyOK, NEW p \in Procs, OtherJobs(p), NEW a \in Auths,
         \A b \in Auths \ {a} : schedAuth'[b] = schedAuth[b],
         UNCHANGED <<ready, now>>, Pending(p) = {}, a \in Pending(p)'
  PROVE  ReadyOK'
<1>1. ASSUME NEW b \in Auths, Settled(b)' PROVE ListsRight(b)'
  <2>1. b # a
    BY <1>1 DEF Settled
  <2>2. Settled(b)
    BY <1>1, OthersPending DEF Settled
  <2>3. ListsRight(b)
    BY <2>2 DEF ReadyOK
  <2> QED BY <2>1, <2>3 DEF ListsRight, Blocked
<1> QED BY <1>1 DEF ReadyOK

LEMMA ReadyMutate ==
  ASSUME TypeInv, ReadyOK, NEW p \in Procs, OtherJobs(p), NEW a \in Auths,
         NEW r, Mutate(p, a, r), Pending(p) = {}, a \in Pending(p)'
  PROVE  ReadyOK'
<1>1. UNCHANGED <<ready, now>>
  BY DEF Mutate, entries
<1>2. \A b \in Auths \ {a} : schedAuth'[b] = schedAuth[b]
  BY DEF Mutate, TypeInv, TypeOK
<1> QED BY <1>1, <1>2, ReadyCommit

LEMMA ReadyReplace ==
  ASSUME ReadyOK, NEW p \in Procs, OtherJobs(p), NEW a \in Auths,
         NEW r, Replace(p, a, r), Pending(p) = {}, a \in Pending(p)'
  PROVE  ReadyOK'
<1>1. UNCHANGED <<ready, now, schedAuth>>
  BY DEF Replace, entries
<1> QED BY <1>1, ReadyCommit

-----------------------------------------------------------------------------
(* The steps, group by group.                                               *)

Good(p) == OtherJobs(p) /\ Chosen(p) /\ ReadyOK'

\* A step that moves p from one place to another and keeps the scheduler.
LEMMA QuietGood ==
  ASSUME TypeInv, ReadyOK, NEW p \in Procs, NEW j,
         job' = [job EXCEPT ![p] = j], j.pc # "exec",
         UNCHANGED <<schedAuth, ready, now>>, job[p].pc \notin Holding
  PROVE  Good(p)
<1>1. OtherJobs(p) /\ Chosen(p)
  BY DEF OtherJobs, Chosen, TypeInv, TypeOK
<1> QED BY <1>1, ReadyQuiet DEF Good

LEMMA GotoGood ==
  ASSUME TypeInv, NEW p \in Procs, NEW l, Goto(p, l)
  PROVE  OtherJobs(p) /\ job'[p].pc = l /\ job'[p].auth = job[p].auth
BY DEF Goto, OtherJobs, TypeInv, TypeOK, Job

LEMMA FinishGood ==
  ASSUME TypeInv, NEW p \in Procs, Finish(p)
  PROVE  OtherJobs(p) /\ job'[p].pc = "idle"
BY DEF Finish, OtherJobs, IdleJob, TypeInv, TypeOK

\* The same for the usual ways to move on.
LEMMA QuietOnward ==
  ASSUME TypeInv, ReadyOK, NEW p \in Procs,
         Finish(p) \/ \E l \in Pcs \ {"exec"} : Goto(p, l),
         UNCHANGED <<schedAuth, ready, now>>, job[p].pc \notin Holding
  PROVE  Good(p)
<1>1. OtherJobs(p) /\ job'[p].pc # "exec"
  BY GotoGood, FinishGood
<1> QED BY <1>1, ReadyQuiet DEF Good, Chosen

LEMMA PutOnward ==
  ASSUME TypeInv, ReadyOK, NEW p \in Procs, NEW r, NEW alias,
         job[p].auth \in Auths, SchedulerPut(job[p].auth, r, alias),
         Finish(p) \/ \E l \in Pcs \ {"exec"} : Goto(p, l),
         now' = now, job[p].pc # "sync_rebuild"
  PROVE  Good(p)
<1>1. OtherJobs(p) /\ job'[p].pc # "exec"
  BY GotoGood, FinishGood
<1>2. Pending(p) \subseteq {job[p].auth}
  BY DEF Pending
<1> QED BY <1>1, <1>2, ReadyPut DEF Good, Chosen

\* The pick itself: a credential that becomes ready is looked at first.
LEMMA PickGood ==
  ASSUME TypeInv, ReadyOK, NEW p \in Procs, NEW m, NEW otherwise,
         otherwise \in {"sync_read", "idle"},
         PickOrElse(p, m, otherwise), job[p].pc \in {"idle", "repick"}
  PROVE  Good(p)
<1>1. /\ now' = now /\ schedAuth' = schedAuth
      /\ ready' = [a \in Auths |-> IF ReadyNow(a, m) THEN ready[a] \cup {m}
                                                     ELSE ready[a] \ {m}]
  BY DEF PickOrElse, EnsureModel
<1> DEFINE Given(a) == [IdleJob EXCEPT !.pc = "exec", !.auth = a, !.model = m]
           Waiting == [IdleJob EXCEPT !.pc = "sync_read", !.model = m]
<1>2. \A a : Given(a).pc = "exec" /\ Given(a).auth = a /\ Given(a).model = m
  BY DEF IdleJob
<1>3. Waiting.pc = "sync_read" /\ IdleJob.pc = "idle"
  BY DEF IdleJob
<1>4. \/ \E a \in Auths : ReadyNow(a, m) /\ job' = [job EXCEPT ![p] = Given(a)]
      \/ job' = [job EXCEPT ![p] = Waiting]
      \/ job' = [job EXCEPT ![p] = IdleJob]
  BY DEF PickOrElse
<1> HIDE DEF Given, Waiting
<1>5. PICK j : /\ job' = [job EXCEPT ![p] = j]
               /\ j.pc = "exec" => j.auth \in Auths /\ ReadyNow(j.auth, j.model)
  BY <1>2, <1>3, <1>4
<1>6. job'[p] = j /\ OtherJobs(p)
  BY <1>5 DEF OtherJobs, TypeInv, TypeOK
<1>7. OtherJobs(p) /\ Chosen(p)
  BY <1>5, <1>6 DEF Chosen
<1>8. ASSUME NEW a \in Auths, Settled(a)' PROVE ListsRight(a)'
  <2>1. Pending(p) = {}
    BY DEF Pending, UpsertPcs
  <2>2. Settled(a)
    BY <1>7, <1>8, <2>1, OthersPending DEF Settled
  <2>3. ListsRight(a)
    BY <2>2 DEF ReadyOK
  <2>4. ReadyNow(a, m) => schedAuth[a] # NoAuth /\ ~Blocked(schedAuth[a], m, now)
    BY <2>3 DEF ReadyNow, Listed, ListsRight
  <2>5. ASSUME NEW n \in ready'[a]
        PROVE  schedAuth[a] # NoAuth /\ ~Blocked(schedAuth[a], n, now)
    <3>1. n \in ready[a] \/ (n = m /\ ReadyNow(a, m))
      BY <1>1, <2>5
    <3> QED BY <2>3, <2>4, <3>1 DEF ListsRight
  <2> QED BY <1>1, <2>5 DEF ListsRight, Blocked
<1> QED BY <1>7, <1>8 DEF Good, ReadyOK

LEMMA CommitPending ==
  ASSUME TypeInv, NEW p \in Procs, job[p].pc \notin Holding,
         job'[p].pc \in UpsertPcs, job'[p].auth = job[p].auth
  PROVE  Pending(p) = {} /\ job[p].auth \in Pending(p)'
BY DEF Pending, Holding

LEMMA MutateOnward ==
  ASSUME TypeInv, ReadyOK, NEW p \in Procs, NEW r, OtherJobs(p),
         job[p].auth \in Auths, Mutate(p, job[p].auth, r),
         job[p].pc \notin Holding,
         job'[p].pc \in UpsertPcs, job'[p].auth = job[p].auth
  PROVE  Good(p)
<1>1. job'[p].pc # "exec"
  BY DEF UpsertPcs
<1> QED BY <1>1, CommitPending, ReadyMutate DEF Good, Chosen

LEMMA ReplaceOnward ==
  ASSUME TypeInv, ReadyOK, NEW p \in Procs, NEW r, NEW l \in UpsertPcs,
         job[p].auth \in Auths, Replace(p, job[p].auth, r), Goto(p, l),
         job[p].pc \notin Holding
  PROVE  Good(p)
<1>1. OtherJobs(p) /\ job'[p].pc = l /\ job'[p].auth = job[p].auth
  BY GotoGood
<1>2. l # "exec"
  BY DEF UpsertPcs
<1> QED BY <1>1, <1>2, CommitPending, ReadyReplace DEF Good, Chosen

LEMMA SynchroniseGood ==
  ASSUME TypeInv, ReadyOK, NEW p \in Procs, Synchronise(p)
  PROVE  Good(p)
<1>1. CASE SetSelector(p) \/ SyncRead(p)
  <2>1. /\ UNCHANGED <<schedAuth, ready, now>>
        /\ job[p].pc \in {"idle", "sync_read"}
        /\ \E l \in {"sync_read", "sync_rebuild"} : Goto(p, l)
    BY <1>1 DEF SetSelector, SyncRead, MayStart, scheduler, entries
  <2> QED BY <2>1, QuietOnward DEF Holding, UpsertPcs, Pcs
<1>2. CASE SyncRebuild(p)
  \* The lists start empty.
  <2>1. /\ ready' = [a \in Auths |-> {}]
        /\ Finish(p) \/ Goto(p, "repick")
    BY <1>2 DEF SyncRebuild
  <2>2. ReadyOK'
    BY <2>1 DEF ReadyOK, ListsRight
  <2>3. OtherJobs(p) /\ job'[p].pc # "exec"
    BY <2>1, FinishGood, GotoGood
  <2> QED BY <2>2, <2>3 DEF Good, Chosen
<1> QED BY <1>1, <1>2 DEF Synchronise

LEMMA RequestGood ==
  ASSUME TypeInv, ReadyOK, NEW p \in Procs, Request(p)
  PROVE  Good(p)
<1>1. CASE (\E m \in Models : Pick(p, m)) \/ Repick(p)
  BY <1>1, PickGood DEF Pick, Repick, MayStart
<1>2. CASE Abandon(p) \/ MarkMissing(p) \/ MarkRegistry(p)
  <2>1. /\ UNCHANGED <<schedAuth, ready, now>> /\ Finish(p)
        /\ job[p].pc \in {"exec", "mark_registry"}
    BY <1>2 DEF Abandon, MarkMissing, MarkRegistry, scheduler, entries
  <2> QED BY <2>1, QuietOnward DEF Holding, UpsertPcs
<1>3. CASE MarkResult(p)
  <2>1. job[p].auth \in Auths /\ job[p].pc = "exec"
    BY <1>3, Places DEF MarkResult, JobOK
  <2>2. PICK r, tail : MarkWith(p, r, tail)
    BY <1>3 DEF MarkResult
  <2>3. /\ Mutate(p, job[p].auth, r)
        /\ job' = [job EXCEPT ![p].pc = "mark_upsert", ![p].tail = tail]
    BY <2>2 DEF MarkWith
  <2>4. /\ OtherJobs(p) /\ job'[p].pc = "mark_upsert"
        /\ job'[p].auth = job[p].auth
    BY <2>3 DEF OtherJobs, TypeInv, TypeOK, Job
  <2> QED BY <2>1, <2>3, <2>4, MutateOnward DEF Holding, UpsertPcs
<1>4. CASE MarkUpsert(p)
  <2>1. /\ SchedulerPut(job[p].auth, snap[p][job[p].auth], FALSE)
        /\ Finish(p) \/ Goto(p, "mark_registry")
        /\ job[p].pc = "mark_upsert" /\ now' = now
    BY <1>4 DEF MarkUpsert
  <2>2. job[p].auth \in Auths
    BY <2>1, Places DEF JobOK
  <2> QED BY <2>1, <2>2, PutOnward DEF Pcs
<1> QED BY <1>1, <1>2, <1>3, <1>4 DEF Request

LEMMA UpdaterGood ==
  ASSUME TypeInv, ReadyOK, NEW p \in Procs, Updater(p)
  PROVE  Good(p)
<1>1. ASSUME NEW b \in Auths, CloneForUpdate(p, b) PROVE Good(p)
  <2>1. /\ UNCHANGED <<schedAuth, ready, now>> /\ job[p].pc = "idle"
        /\ job' = [job EXCEPT ![p].pc = "update_commit", ![p].auth = b]
    BY <1>1 DEF CloneForUpdate, MayStart, scheduler, entries
  <2>2. OtherJobs(p) /\ job'[p].pc = "update_commit"
    BY <2>1 DEF OtherJobs, TypeInv, TypeOK, Job
  <2> QED BY <2>1, <2>2, ReadyQuiet DEF Good, Chosen, Holding, UpsertPcs
<1>2. CASE UpdateCommit(p)
  <2>1. /\ job[p].pc = "update_commit" /\ Goto(p, "update_upsert")
        /\ \E r : Replace(p, job[p].auth, r)
    BY <1>2 DEF UpdateCommit
  <2>2. job[p].auth \in Auths
    BY <2>1, Places DEF JobOK
  <2> QED BY <2>1, <2>2, ReplaceOnward DEF Holding, UpsertPcs
<1>3. CASE UpdateMissing(p)
  <2>1. /\ UNCHANGED <<schedAuth, ready, now>> /\ Finish(p)
        /\ job[p].pc = "update_commit"
    BY <1>3 DEF UpdateMissing, scheduler, entries
  <2> QED BY <2>1, QuietOnward DEF Holding, UpsertPcs
<1>4. CASE RefreshFailed(p)
  <2>1. /\ SchedulerPut(job[p].auth, auths[job[p].auth], FALSE) /\ Finish(p)
        /\ job[p].pc = "update_commit" /\ now' = now
    BY <1>4 DEF RefreshFailed
  <2>2. job[p].auth \in Auths
    BY <2>1, Places DEF JobOK
  <2> QED BY <2>1, <2>2, PutOnward
<1>5. CASE UpdateUpsert(p)
  <2>1. /\ SchedulerPut(job[p].auth, snap[p][job[p].auth], p \in live)
        /\ Finish(p) /\ job[p].pc = "update_upsert" /\ now' = now
    BY <1>5 DEF UpdateUpsert
  <2>2. job[p].auth \in Auths
    BY <2>1, Places DEF JobOK
  <2>3. PICK alias \in BOOLEAN :
          SchedulerPut(job[p].auth, snap[p][job[p].auth], alias)
    BY <2>1, PutAlias
  <2> QED BY <2>1, <2>2, <2>3, PutOnward
<1> QED BY <1>1, <1>2, <1>3, <1>4, <1>5 DEF Updater

LEMMA PipelineGood ==
  ASSUME TypeInv, ReadyOK, NEW p \in Procs, Pipeline(p)
  PROVE  Good(p)
<1>1. ASSUME NEW b \in Auths,
             ApplyRead(p, b) \/ CatalogRefresh(p, b) \/ RefreshEntry(p, b)
      PROVE  Good(p)
  <2>1. UNCHANGED <<schedAuth, ready, now>> /\ job[p].pc = "idle"
    BY <1>1 DEF ApplyRead, CatalogRefresh, RefreshEntry, MayStart, scheduler, entries
  <2>2. /\ OtherJobs(p)
        /\ job'[p].pc \in {"apply_commit", "inventory", "entry_read"}
    BY <1>1 DEF ApplyRead, CatalogRefresh, RefreshEntry, OtherJobs, TypeInv, TypeOK, Job
  <2> QED BY <2>1, <2>2, ReadyQuiet DEF Good, Chosen, Holding, UpsertPcs
<1>2. CASE ApplyCommit(p) \/ InventoryCommit(p)
  <2>1. /\ job[p].pc \in {"apply_commit", "inventory"}
        /\ \E l \in {"apply_upsert", "inventory_upsert"} : Goto(p, l)
        /\ \E r : Replace(p, job[p].auth, r)
    BY <1>2 DEF ApplyCommit, InventoryCommit
  <2>2. job[p].auth \in Auths
    BY <2>1, Places DEF JobOK
  <2> QED BY <2>1, <2>2, ReplaceOnward DEF Holding, UpsertPcs
<1>3. CASE ApplyUpsert(p) \/ InventoryUpsert(p)
  <2>1. /\ SchedulerPut(job[p].auth, snap[p][job[p].auth], p \in live)
        /\ \E l \in {"inventory", "models"} : Goto(p, l)
        /\ now' = now /\ job[p].pc \in {"apply_upsert", "inventory_upsert"}
    BY <1>3 DEF ApplyUpsert, InventoryUpsert
  <2>2. job[p].auth \in Auths
    BY <2>1, Places DEF JobOK
  <2>3. PICK alias \in BOOLEAN :
          SchedulerPut(job[p].auth, snap[p][job[p].auth], alias)
    BY <2>1, PutAlias
  <2> QED BY <2>1, <2>2, <2>3, PutOnward DEF Pcs
<1>4. CASE \/ ApplyMissing(p) \/ RegisterModels(p) \/ ReconcileNothing(p)
           \/ UnregisterLatest(p) \/ InventorySkip(p)
  <2>1. /\ UNCHANGED <<schedAuth, ready, now>>
        /\ job[p].pc \in {"apply_commit", "inventory", "models",
                          "reconcile_commit", "unregister"}
        /\ \E l \in {"inventory", "models", "reconcile_read", "latest",
                      "entry_read"} : Goto(p, l)
    BY <1>4 DEF ApplyMissing, InventorySkip, RegisterModels, ReconcileNothing,
         UnregisterLatest, AfterReconcile, scheduler, entries
  <2> QED BY <2>1, QuietOnward DEF Holding, UpsertPcs, Pcs
<1>5. CASE ReconcileRead(p) \/ LatestAuth(p)
  <2>1. UNCHANGED <<schedAuth, ready, now>> /\ job[p].pc \in {"reconcile_read", "latest"}
    BY <1>5 DEF ReconcileRead, LatestAuth, scheduler, entries
  <2>2. /\ OtherJobs(p)
        /\ job'[p].pc \in {"reconcile_commit", "inventory", "unregister"}
    BY <1>5 DEF ReconcileRead, LatestAuth, OtherJobs, TypeInv, TypeOK, Job
  <2> QED BY <2>1, <2>2, ReadyQuiet DEF Good, Chosen, Holding, UpsertPcs
<1>6. CASE ReconcileCommit(p)
  <2>1. /\ job[p].pc = "reconcile_commit" /\ Goto(p, "reconcile_upsert")
        /\ \E r : Mutate(p, job[p].auth, r)
    BY <1>6 DEF ReconcileCommit
  <2>2. job[p].auth \in Auths
    BY <2>1, Places DEF JobOK
  <2>3. /\ OtherJobs(p) /\ job'[p].pc = "reconcile_upsert"
        /\ job'[p].auth = job[p].auth
    BY <2>1, GotoGood
  <2> QED BY <2>1, <2>2, <2>3, MutateOnward DEF Holding, UpsertPcs
<1>7. CASE ReconcileUpsert(p) \/ EntryUpsert(p)
  <2>1. /\ SchedulerPut(job[p].auth, snap[p][job[p].auth], FALSE)
        /\ now' = now /\ job[p].pc \in {"reconcile_upsert", "entry_upsert"}
        /\ Finish(p) \/ \E l \in {"latest", "entry_read"} : Goto(p, l)
    BY <1>7 DEF ReconcileUpsert, EntryUpsert, AfterReconcile
  <2>2. job[p].auth \in Auths
    BY <2>1, Places DEF JobOK
  <2> QED BY <2>1, <2>2, PutOnward DEF Pcs
<1>8. CASE EntryRead(p) \/ EntryMissing(p)
  <2>1. /\ UNCHANGED <<schedAuth, ready, now>> /\ job[p].pc = "entry_read"
        /\ Finish(p) \/ Goto(p, "entry_upsert")
    BY <1>8 DEF EntryRead, EntryMissing, scheduler, entries
  <2> QED BY <2>1, QuietOnward DEF Holding, UpsertPcs, Pcs
<1> QED BY <1>1, <1>2, <1>3, <1>4, <1>5, <1>6, <1>7, <1>8 DEF Pipeline

LEMMA RemovalGood ==
  ASSUME TypeInv, ReadyOK, NEW p \in Procs, Removal(p)
  PROVE  Good(p)
<1>1. ASSUME NEW b \in Auths, RemovalUnregister(p, b) \/ ManagementRemove(p, b)
      PROVE  Good(p)
  <2>1. /\ UNCHANGED <<schedAuth, ready, now>> /\ job[p].pc = "idle"
        /\ job' = [job EXCEPT ![p].pc = "remove_commit", ![p].auth = b]
    BY <1>1 DEF RemovalUnregister, ManagementRemove, MayStart, scheduler, entries
  <2>2. OtherJobs(p) /\ job'[p].pc = "remove_commit"
    BY <2>1 DEF OtherJobs, TypeInv, TypeOK, Job
  <2> QED BY <2>1, <2>2, ReadyQuiet DEF Good, Chosen, Holding, UpsertPcs
<1>2. CASE RemoveCommit(p) \/ RemoveMissing(p)
  <2>1. /\ UNCHANGED <<schedAuth, ready, now>> /\ job[p].pc = "remove_commit"
        /\ Finish(p) \/ Goto(p, "remove_sched")
    BY <1>2 DEF RemoveCommit, RemoveMissing, scheduler, entries
  <2> QED BY <2>1, QuietOnward DEF Holding, UpsertPcs, Pcs
<1>3. CASE RemoveUnschedule(p)
  <2>1. /\ SchedulerPut(job[p].auth, NoAuth, FALSE) /\ Finish(p)
        /\ now' = now /\ job[p].pc = "remove_sched"
    BY <1>3 DEF RemoveUnschedule
  <2>2. job[p].auth \in Auths
    BY <2>1, Places DEF JobOK
  <2> QED BY <2>1, <2>2, PutOnward
<1> QED BY <1>1, <1>2, <1>3 DEF Removal

LEMMA StepGood ==
  ASSUME TypeInv, ReadyOK, NEW p \in Procs,
         Synchronise(p) \/ Request(p) \/ Updater(p) \/ Pipeline(p) \/ Removal(p)
  PROVE  Good(p)
BY SynchroniseGood, RequestGood, UpdaterGood, PipelineGood, RemovalGood

-----------------------------------------------------------------------------
LEMMA ReadyInit == Init => ReadyOK
BY DEF Init, ReadyOK, ListsRight

\* Time only ends blocks.
LEMMA ReadyNext == TypeInv /\ ReadyOK /\ [Next]_vars => ReadyOK'
<1> SUFFICES ASSUME TypeInv, ReadyOK, [Next]_vars PROVE ReadyOK'
  OBVIOUS
<1>1. CASE Tick \/ UNCHANGED vars
  <2>1. /\ UNCHANGED <<schedAuth, ready, job>>
        /\ now \in Nat /\ now' \in {now, now + 1}
    BY <1>1 DEF Tick, vars, scheduler, entries, TypeInv, TypeOK
  <2>2. ASSUME NEW a \in Auths, Settled(a), NEW m \in ready[a]
        PROVE  schedAuth[a] # NoAuth /\ ~Blocked(schedAuth[a], m, now')
    <3>1. schedAuth[a] # NoAuth /\ ~Blocked(schedAuth[a], m, now)
      BY <2>2 DEF ReadyOK, ListsRight
    <3>2. schedAuth[a] \in AuthRec /\ m \in Models
      BY <2>2, <3>1 DEF TypeInv, TypeOK
    <3>3. schedAuth[a].until[m] \in Nat
      BY <3>2 DEF AuthRec
    <3> QED BY <2>1, <3>1, <3>3 DEF Blocked
  <2>3. \A a \in Auths : Settled(a)' <=> Settled(a)
    BY <2>1 DEF Settled, Pending
  <2> QED BY <2>1, <2>2, <2>3 DEF ReadyOK, ListsRight, Blocked
<1>2. ASSUME NEW p \in Procs,
             Synchronise(p) \/ Request(p) \/ Updater(p) \/ Pipeline(p) \/ Removal(p)
      PROVE  ReadyOK'
  BY <1>2, StepGood DEF Good
<1> QED BY <1>1, <1>2 DEF Next

\* The step of PickIsUsable: a pick answers from a list that is right or from
\* the record itself, which is the manager's.
PickStep ==
  \A p \in Procs :
    LET a == job'[p].auth
        m == job'[p].model
    IN  /\ job[p].pc # "exec" /\ job'[p].pc = "exec"
        /\ Settled(a) /\ a \notin stale
        => auths[a] # NoAuth /\ ~Blocked(auths[a], m, now)

LEMMA PickRight == IInv /\ ReadyOK /\ [Next]_vars => PickStep
<1> SUFFICES ASSUME IInv, ReadyOK, [Next]_vars, NEW p \in Procs,
                    job[p].pc # "exec", job'[p].pc = "exec",
                    Settled(job'[p].auth), job'[p].auth \notin stale
             PROVE  /\ auths[job'[p].auth] # NoAuth
                    /\ ~Blocked(auths[job'[p].auth], job'[p].model, now)
  BY DEF PickStep
<1> DEFINE a == job'[p].auth
           m == job'[p].model
<1>1. job' # job
  OBVIOUS
<1>2. PICK q \in Procs :
        Synchronise(q) \/ Request(q) \/ Updater(q) \/ Pipeline(q) \/ Removal(q)
  BY <1>1 DEF Next, Tick, vars
<1>3. OtherJobs(q) /\ Chosen(q)
  BY <1>2, StepGood DEF Good, IInv
<1>4. p = q
  BY <1>3 DEF OtherJobs
<1>5. a \in Auths /\ ReadyNow(a, m)
  BY <1>3, <1>4 DEF Chosen
<1>6. schedAuth[a] # NoAuth /\ ~Blocked(schedAuth[a], m, now)
  BY <1>5 DEF ReadyNow, Listed, ReadyOK, ListsRight
<1>7. schedAuth[a] = MirrorOf(auths[a])
  BY <1>5 DEF IInv, MirrorAgrees
<1>8. schedAuth[a] = auths[a]
  BY <1>6, <1>7 DEF MirrorOf
<1> QED BY <1>6, <1>8

(* A request is only ever given a credential that the manager knows, that is *)
(* enabled and not blocked for the model, when no update of it is on its way *)
(* to the scheduler and its updates did not cross (pickNext, MarkResult and  *)
(* the pipeline, with everything they leave between their locks).            *)
THEOREM PicksUsable == Spec => PickIsUsable
<1>1. Init => IInv /\ ReadyOK
  BY InvInit, ReadyInit
<1>2. IInv /\ ReadyOK /\ [Next]_vars => (IInv /\ ReadyOK)'
  BY InvNext, ReadyNext DEF IInv
<1>3. IInv /\ ReadyOK /\ [Next]_vars => [PickStep]_vars
  BY PickRight
<1>4. Spec => [][PickStep]_vars
  BY <1>1, <1>2, <1>3, PTL DEF Spec
<1> QED BY <1>4 DEF PickIsUsable, PickStep

-----------------------------------------------------------------------------
(* The model sets of the entries                                            *)

\* p neither touches the views of a nor was to touch them.
Untouched(p, a) ==
  /\ schedAuth'[a] = schedAuth[a] /\ supports'[a] = supports[a]
  /\ registered'[a] = registered[a]
  /\ a \notin Pending(p) /\ (a \in stale => a \in stale')
  /\ Registering(p, a) => Registering(p, a)'

\* What a step of p may do to the views of a.
Fine(p, a) ==
  \/ Untouched(p, a)
  \/ a \in Pending(p)' \/ Registering(p, a)'
  \/ Settled(a)' /\ a \notin stale' =>
       schedAuth'[a] = NoAuth \/ supports'[a] = registered'[a]

LEMMA FineStep ==
  ASSUME SupportAgrees, NEW p \in Procs, OtherJobs(p), \A a \in Auths : Fine(p, a)
  PROVE  SupportAgrees'
<1>1. ASSUME NEW a \in Auths, schedAuth'[a] # NoAuth, Settled(a)',
             a \notin stale', \A q \in Procs : ~Registering(q, a)'
      PROVE  supports'[a] = registered'[a]
  <2>1. Fine(p, a) /\ a \notin Pending(p)' /\ ~Registering(p, a)'
    BY <1>1 DEF Settled
  <2>2. CASE Untouched(p, a)
    <3>1. \A q \in Procs \ {p} : Registering(q, a)' = Registering(q, a)
      BY DEF OtherJobs, Registering
    <3>2. \A q \in Procs : ~Registering(q, a)
      BY <1>1, <2>1, <2>2, <3>1 DEF Untouched
    <3>3. Settled(a)
      BY <1>1, <2>2, OthersPending DEF Untouched, Settled
    <3> QED BY <1>1, <2>2, <3>2, <3>3 DEF Untouched, SupportAgrees
  <2>3. CASE ~Untouched(p, a)
    BY <1>1, <2>1, <2>3 DEF Fine
  <2> QED BY <2>2, <2>3
<1> QED BY <1>1 DEF SupportAgrees

RegisteringPcs ==
  {"reconcile_read", "reconcile_commit", "reconcile_upsert", "latest", "models",
   "unregister", "entry_read", "entry_upsert", "remove_commit", "remove_sched"}
InventoryPcs == {"inventory", "inventory_upsert"}

\* A step of an operation that is not registering models, or goes on with it,
\* and keeps the views.
LEMMA QuietFine ==
  ASSUME SupportAgrees, NEW p \in Procs, OtherJobs(p), job[p].pc \notin Holding,
         UNCHANGED <<schedAuth, supports, registered, stale>>,
         \/ job[p].pc \notin RegisteringPcs \cup InventoryPcs
         \/ job'[p].pc \in RegisteringPcs /\ job'[p].auth = job[p].auth
  PROVE  SupportAgrees'
<1>1. Pending(p) = {}
  BY DEF Pending, Holding
<1>2. \A a \in Auths : Registering(p, a) => Registering(p, a)'
  BY DEF Registering, RegisteringPcs, InventoryPcs
<1>3. \A a \in Auths : Fine(p, a)
  BY <1>1, <1>2 DEF Fine, Untouched
<1> QED BY <1>3, FineStep

\* An upsert or a removal of the entry.
LEMMA PutFine ==
  ASSUME TypeInv, SupportAgrees, NEW p \in Procs, OtherJobs(p), NEW r, NEW alias,
         job[p].auth \in Auths, SchedulerPut(job[p].auth, r, alias),
         registered' = registered, stale \ {job[p].auth} \subseteq stale',
         job[p].pc # "sync_rebuild"
  PROVE  SupportAgrees'
<1>0. PICK a \in Auths : a = job[p].auth
  OBVIOUS
<1>1. /\ schedAuth' = [schedAuth EXCEPT ![a] = MirrorOf(r)]
      /\ supports' = [supports EXCEPT ![a] =
                        IF Schedulable(r) THEN registered[a] ELSE {}]
  BY <1>0 DEF SchedulerPut
<1>2. Fine(p, a)
  <2>1. schedAuth'[a] = NoAuth \/ supports'[a] = registered'[a]
    BY <1>1 DEF MirrorOf, TypeInv, TypeOK
  <2> QED BY <2>1 DEF Fine
<1>3. ASSUME NEW b \in Auths \ {a} PROVE Fine(p, b)
  <2>1. b \notin Pending(p) /\ ~Registering(p, b)
    BY <1>0 DEF Pending, Registering
  <2>2. /\ schedAuth'[b] = schedAuth[b] /\ supports'[b] = supports[b]
        /\ b \in stale => b \in stale'
    BY <1>0, <1>1 DEF TypeInv, TypeOK
  <2> QED BY <2>1, <2>2 DEF Fine, Untouched
<1> QED BY <1>2, <1>3, FineStep

\* A commit that an upsert will follow.
LEMMA CommitFine ==
  ASSUME SupportAgrees, NEW p \in Procs, OtherJobs(p), job[p].auth \in Auths,
         job[p].pc \notin Holding, job[p].auth \in Pending(p)',
         \A b \in Auths \ {job[p].auth} :
           schedAuth'[b] = schedAuth[b] /\ (b \in stale => b \in stale'),
         UNCHANGED <<supports, registered>>
  PROVE  SupportAgrees'
<1>1. Pending(p) = {}
  BY DEF Pending, Holding
<1>2. \A b \in Auths \ {job[p].auth} : ~Registering(p, b)
  BY DEF Registering
<1>3. \A b \in Auths : Fine(p, b)
  BY <1>1, <1>2 DEF Fine, Untouched
<1> QED BY <1>3, FineStep

LEMMA MutateFine ==
  ASSUME TypeInv, SupportAgrees, NEW p \in Procs, NEW r, OtherJobs(p),
         job[p].auth \in Auths, Mutate(p, job[p].auth, r),
         job[p].pc \notin Holding,
         job'[p].pc \in UpsertPcs, job'[p].auth = job[p].auth
  PROVE  SupportAgrees'
<1>1. UNCHANGED <<supports, registered>>
  BY DEF Mutate, entries, registry
<1>2. \A b \in Auths \ {job[p].auth} :
        schedAuth'[b] = schedAuth[b] /\ (b \in stale => b \in stale')
  BY DEF Mutate, TypeInv, TypeOK
<1> QED BY <1>1, <1>2, CommitPending, CommitFine

LEMMA ReplaceFine ==
  ASSUME TypeInv, SupportAgrees, NEW p \in Procs, NEW r, NEW l \in UpsertPcs,
         job[p].auth \in Auths, Replace(p, job[p].auth, r), Goto(p, l),
         job[p].pc \notin Holding
  PROVE  SupportAgrees'
<1>1. UNCHANGED <<supports, registered, schedAuth>>
  BY DEF Replace, entries, registry
<1>2. \A b \in Auths \ {job[p].auth} : b \in stale => b \in stale'
  BY DEF Replace
<1>3. OtherJobs(p) /\ job'[p].pc = l /\ job'[p].auth = job[p].auth
  BY GotoGood
<1> QED BY <1>1, <1>2, <1>3, CommitPending, CommitFine

\* A registration, which the rest of the operation follows up.
LEMMA RegisterFine ==
  ASSUME TypeInv, SupportAgrees, NEW p \in Procs, OtherJobs(p), NEW a \in Auths,
         NEW S, RegisterClient(a, S), UNCHANGED <<schedAuth, supports, stale>>,
         job[p].pc \notin Holding, job[p].pc \notin InventoryPcs,
         job[p].pc = "idle" \/ job[p].auth = a,
         job'[p].pc \in RegisteringPcs, job'[p].auth = a
  PROVE  SupportAgrees'
<1>1. Registering(p, a)'
  BY DEF Registering, RegisteringPcs
<1>2. ASSUME NEW b \in Auths \ {a} PROVE Untouched(p, b)
  <2>1. registered'[b] = registered[b]
    BY DEF RegisterClient, TypeInv, TypeOK
  <2>2. b \notin Pending(p) /\ ~Registering(p, b)
    BY DEF Pending, Holding, Registering
  <2> QED BY <2>1, <2>2 DEF Untouched
<1>3. \A b \in Auths : Fine(p, b)
  BY <1>1, <1>2 DEF Fine
<1> QED BY <1>3, FineStep

\* The operation finds the credential gone and ends. Nothing of it is on its
\* way, so the scheduler has no entry.
LEMMA MissingFine ==
  ASSUME IInv, SupportAgrees, NEW p \in Procs, Finish(p),
         auths[job[p].auth] = NoAuth, job[p].auth \in Auths,
         job[p].pc \notin Holding,
         UNCHANGED <<schedAuth, supports, registered, stale>>
  PROVE  SupportAgrees'
<1>0. PICK a \in Auths : a = job[p].auth
  OBVIOUS
<1>1. OtherJobs(p)
  BY FinishGood DEF IInv
<1>2. Pending(p) = {}
  BY DEF Pending, Holding
<1>3. Fine(p, a)
  <2>1. ASSUME Settled(a)', a \notin stale' PROVE schedAuth'[a] = NoAuth
    <3>1. Settled(a)
      BY <1>1, <1>2, <2>1, OthersPending DEF Settled
    <3>2. schedAuth[a] = MirrorOf(auths[a])
      BY <2>1, <3>1 DEF IInv, MirrorAgrees
    <3> QED BY <1>0, <3>2 DEF MirrorOf, Schedulable
  <2> QED BY <2>1 DEF Fine
<1>4. \A b \in Auths \ {a} : Fine(p, b)
  <2>1. \A b \in Auths \ {a} : ~Registering(p, b)
    BY <1>0 DEF Registering
  <2> QED BY <1>2, <2>1 DEF Fine, Untouched
<1> QED BY <1>1, <1>3, <1>4, FineStep

-----------------------------------------------------------------------------
(* The steps, group by group.                                               *)

LEMMA SynchroniseFine ==
  ASSUME IInv, SupportAgrees, NEW p \in Procs, Synchronise(p), OtherJobs(p)
  PROVE  SupportAgrees'
<1>1. CASE SetSelector(p)
  <2>1. /\ UNCHANGED <<schedAuth, supports, registered, stale>>
        /\ job[p].pc = "idle"
    BY <1>1 DEF SetSelector, MayStart, scheduler, entries, registry
  <2> QED BY <2>1, QuietFine DEF Holding, UpsertPcs, RegisteringPcs, InventoryPcs
<1>2. CASE SyncRead(p)
  \* Every credential is pending now.
  <2>1. Goto(p, "sync_rebuild")
    BY <1>2 DEF SyncRead
  <2>2. job'[p].pc = "sync_rebuild"
    BY <2>1, GotoGood DEF IInv
  <2>3. \A a \in Auths : a \in Pending(p)'
    BY <2>2 DEF Pending, UpsertPcs
  <2> QED BY <2>3, FineStep DEF Fine
<1>3. CASE SyncRebuild(p)
  <2>1. /\ schedAuth' = [a \in Auths |-> MirrorOf(snap[p][a])]
        /\ supports' = [a \in Auths |-> IF Schedulable(snap[p][a])
                                        THEN registered[a] ELSE {}]
        /\ registered' = registered
    BY <1>3 DEF SyncRebuild, registry
  <2>2. \A a \in Auths : schedAuth'[a] = NoAuth \/ supports'[a] = registered'[a]
    BY <2>1 DEF MirrorOf
  <2> QED BY <2>2, FineStep DEF Fine
<1> QED BY <1>1, <1>2, <1>3 DEF Synchronise

LEMMA RequestFine ==
  ASSUME IInv, SupportAgrees, NEW p \in Procs, Request(p), OtherJobs(p)
  PROVE  SupportAgrees'
<1>1. CASE (\E m \in Models : Pick(p, m)) \/ Repick(p)
  <2>1. /\ UNCHANGED <<schedAuth, supports, registered, stale>>
        /\ job[p].pc \in {"idle", "repick"}
    BY <1>1 DEF Pick, Repick, MayStart, PickOrElse, EnsureModel, registry
  <2> QED BY <2>1, QuietFine DEF Holding, UpsertPcs, RegisteringPcs, InventoryPcs
<1>2. CASE Abandon(p) \/ MarkMissing(p) \/ MarkRegistry(p)
  <2>1. /\ UNCHANGED <<schedAuth, supports, registered, stale>>
        /\ job[p].pc \in {"exec", "mark_registry"}
    BY <1>2 DEF Abandon, MarkMissing, MarkRegistry, scheduler, entries, registry
  <2> QED BY <2>1, QuietFine DEF Holding, UpsertPcs, RegisteringPcs, InventoryPcs
<1>3. CASE MarkResult(p)
  <2>1. job[p].auth \in Auths /\ job[p].pc = "exec"
    BY <1>3, Places DEF MarkResult, JobOK, IInv
  <2>2. PICK r, tail : MarkWith(p, r, tail)
    BY <1>3 DEF MarkResult
  <2>3. /\ Mutate(p, job[p].auth, r)
        /\ job' = [job EXCEPT ![p].pc = "mark_upsert", ![p].tail = tail]
    BY <2>2 DEF MarkWith
  <2>4. job'[p].pc = "mark_upsert" /\ job'[p].auth = job[p].auth
    BY <2>3 DEF IInv, TypeInv, TypeOK, Job
  <2> QED BY <2>1, <2>3, <2>4, MutateFine DEF IInv, Holding, UpsertPcs
<1>4. CASE MarkUpsert(p)
  <2>1. /\ SchedulerPut(job[p].auth, snap[p][job[p].auth], FALSE)
        /\ job[p].pc = "mark_upsert" /\ UNCHANGED <<registered, stale>>
    BY <1>4 DEF MarkUpsert, registry
  <2>2. job[p].auth \in Auths
    BY <2>1, Places DEF JobOK, IInv
  <2> QED BY <2>1, <2>2, PutFine DEF IInv
<1> QED BY <1>1, <1>2, <1>3, <1>4 DEF Request

LEMMA UpdaterFine ==
  ASSUME IInv, SupportAgrees, NEW p \in Procs, Updater(p), OtherJobs(p)
  PROVE  SupportAgrees'
<1>1. CASE (\E b \in Auths : CloneForUpdate(p, b)) \/ UpdateMissing(p)
  <2>1. /\ UNCHANGED <<schedAuth, supports, registered, stale>>
        /\ job[p].pc \in {"idle", "update_commit"}
    BY <1>1 DEF CloneForUpdate, UpdateMissing, MayStart, scheduler, entries, registry
  <2> QED BY <2>1, QuietFine DEF Holding, UpsertPcs, RegisteringPcs, InventoryPcs
<1>2. CASE UpdateCommit(p)
  <2>1. /\ job[p].pc = "update_commit" /\ Goto(p, "update_upsert")
        /\ \E r : Replace(p, job[p].auth, r)
    BY <1>2 DEF UpdateCommit
  <2>2. job[p].auth \in Auths
    BY <2>1, Places DEF JobOK, IInv
  <2> QED BY <2>1, <2>2, ReplaceFine DEF IInv, Holding, UpsertPcs
<1>3. CASE RefreshFailed(p)
  <2>1. /\ SchedulerPut(job[p].auth, auths[job[p].auth], FALSE)
        /\ job[p].pc = "update_commit" /\ registered' = registered
        /\ stale \ {job[p].auth} \subseteq stale'
    BY <1>3 DEF RefreshFailed, registry
  <2>2. job[p].auth \in Auths
    BY <2>1, Places DEF JobOK, IInv
  <2> QED BY <2>1, <2>2, PutFine DEF IInv
<1>4. CASE UpdateUpsert(p)
  <2>1. /\ SchedulerPut(job[p].auth, snap[p][job[p].auth], p \in live)
        /\ job[p].pc = "update_upsert" /\ UNCHANGED <<registered, stale>>
    BY <1>4 DEF UpdateUpsert, registry
  <2>2. job[p].auth \in Auths
    BY <2>1, Places DEF JobOK, IInv
  <2>3. PICK alias \in BOOLEAN :
          SchedulerPut(job[p].auth, snap[p][job[p].auth], alias)
    BY <2>1, PutAlias
  <2> QED BY <2>1, <2>2, <2>3, PutFine DEF IInv
<1> QED BY <1>1, <1>2, <1>3, <1>4 DEF Updater

LEMMA PipelineFine ==
  ASSUME IInv, SupportAgrees, NEW p \in Procs, Pipeline(p), OtherJobs(p)
  PROVE  SupportAgrees'
<1> DEFINE a == job[p].auth
<1>1. CASE \E b \in Auths : ApplyRead(p, b) \/ CatalogRefresh(p, b) \/ RefreshEntry(p, b)
  <2>1. /\ UNCHANGED <<schedAuth, supports, registered, stale>>
        /\ job[p].pc = "idle"
    BY <1>1 DEF ApplyRead, CatalogRefresh, RefreshEntry, MayStart, scheduler,
         entries, registry
  <2> QED BY <2>1, QuietFine DEF Holding, UpsertPcs, RegisteringPcs, InventoryPcs
<1>2. CASE ApplyCommit(p) \/ InventoryCommit(p)
  <2>1. /\ job[p].pc \in {"apply_commit", "inventory"}
        /\ \E l \in {"apply_upsert", "inventory_upsert"} : Goto(p, l)
        /\ \E r : Replace(p, a, r)
    BY <1>2 DEF ApplyCommit, InventoryCommit
  <2>2. a \in Auths
    BY <2>1, Places DEF JobOK, IInv
  <2> QED BY <2>1, <2>2, ReplaceFine DEF IInv, Holding, UpsertPcs
<1>3. CASE ApplyUpsert(p) \/ InventoryUpsert(p)
  <2>1. /\ SchedulerPut(a, snap[p][a], p \in live)
        /\ UNCHANGED <<registered, stale>>
        /\ job[p].pc \in {"apply_upsert", "inventory_upsert"}
    BY <1>3 DEF ApplyUpsert, InventoryUpsert, registry
  <2>2. a \in Auths
    BY <2>1, Places DEF JobOK, IInv
  <2>3. PICK alias \in BOOLEAN : SchedulerPut(a, snap[p][a], alias)
    BY <2>1, PutAlias
  <2> QED BY <2>1, <2>2, <2>3, PutFine DEF IInv
<1>4. CASE ApplyMissing(p)
  <2>1. /\ UNCHANGED <<schedAuth, supports, registered, stale>>
        /\ job[p].pc = "apply_commit"
    BY <1>4 DEF ApplyMissing, scheduler, entries, registry
  <2> QED BY <2>1, QuietFine DEF Holding, UpsertPcs, RegisteringPcs, InventoryPcs
<1>5. CASE InventorySkip(p) \/ ReconcileNothing(p)
  <2>1. /\ UNCHANGED <<schedAuth, supports, registered, stale>>
        /\ job[p].pc \in {"inventory", "reconcile_commit"}
        /\ \E l \in {"models", "latest", "entry_read"} : Goto(p, l)
    BY <1>5 DEF InventorySkip, ReconcileNothing, AfterReconcile, scheduler,
         entries, registry
  <2>2. /\ job'[p].pc \in {"models", "latest", "entry_read"}
        /\ job'[p].auth = a
    BY <2>1, GotoGood DEF IInv
  <2> QED BY <2>1, <2>2, QuietFine DEF Holding, UpsertPcs, RegisteringPcs
<1>6. CASE RegisterModels(p) \/ UnregisterLatest(p)
  <2>1. /\ UNCHANGED <<schedAuth, supports, stale>>
        /\ job[p].pc \in {"models", "unregister"}
        /\ \E S : RegisterClient(a, S)
        /\ \E l \in {"reconcile_read", "entry_read"} : Goto(p, l)
    BY <1>6 DEF RegisterModels, UnregisterLatest, scheduler, entries
  <2>2. a \in Auths
    BY <2>1, Places DEF JobOK, IInv
  <2>3. job'[p].pc \in {"reconcile_read", "entry_read"} /\ job'[p].auth = a
    BY <2>1, GotoGood DEF IInv
  <2> QED BY <2>1, <2>2, <2>3, RegisterFine
          DEF IInv, Holding, UpsertPcs, RegisteringPcs, InventoryPcs
<1>7. CASE ReconcileRead(p)
  <2>1. /\ UNCHANGED <<schedAuth, supports, registered, stale>>
        /\ job[p].pc = "reconcile_read"
    BY <1>7 DEF ReconcileRead, scheduler, entries, registry
  <2>2. job'[p].pc = "reconcile_commit" /\ job'[p].auth = a
    BY <1>7 DEF ReconcileRead, IInv, TypeInv, TypeOK, Job
  <2> QED BY <2>1, <2>2, QuietFine DEF Holding, UpsertPcs, RegisteringPcs
<1>8. CASE LatestAuth(p)
  <2>1. /\ UNCHANGED <<schedAuth, supports, registered, stale>>
        /\ job[p].pc = "latest"
    BY <1>8 DEF LatestAuth, scheduler, entries, registry
  <2>2. PICK b \in Auths : b = a
    BY <2>1, Places DEF JobOK, IInv
  <2>3. /\ job'[p].pc \in {"inventory", "unregister"} /\ job'[p].auth = b
        /\ job'[p].round = "second"
    BY <1>8, <2>2 DEF LatestAuth, IInv, TypeInv, TypeOK, Job
  <2>4. Registering(p, b)'
    BY <2>3 DEF Registering
  <2>5. ASSUME NEW c \in Auths \ {b} PROVE Untouched(p, c)
    <3>1. c \notin Pending(p) /\ ~Registering(p, c)
      BY <2>1, <2>2 DEF Pending, UpsertPcs, Registering
    <3> QED BY <2>1, <3>1 DEF Untouched
  <2> QED BY <2>4, <2>5, FineStep DEF Fine
<1>9. CASE ReconcileCommit(p)
  <2>1. /\ job[p].pc = "reconcile_commit" /\ Goto(p, "reconcile_upsert")
        /\ \E r : Mutate(p, a, r)
    BY <1>9 DEF ReconcileCommit
  <2>2. a \in Auths
    BY <2>1, Places DEF JobOK, IInv
  <2>3. job'[p].pc = "reconcile_upsert" /\ job'[p].auth = a
    BY <2>1, GotoGood DEF IInv
  <2> QED BY <2>1, <2>2, <2>3, MutateFine DEF IInv, Holding, UpsertPcs
<1>10. CASE ReconcileUpsert(p) \/ EntryUpsert(p)
  <2>1. /\ SchedulerPut(a, snap[p][a], FALSE) /\ UNCHANGED <<registered, stale>>
        /\ job[p].pc \in {"reconcile_upsert", "entry_upsert"}
    BY <1>10 DEF ReconcileUpsert, EntryUpsert, registry
  <2>2. a \in Auths
    BY <2>1, Places DEF JobOK, IInv
  <2> QED BY <2>1, <2>2, PutFine DEF IInv
<1>11. CASE EntryRead(p)
  \* It holds the record now.
  <2>1. /\ UNCHANGED <<schedAuth, supports, registered>>
        /\ stale \ {a} \subseteq stale'
        /\ job[p].pc = "entry_read" /\ Goto(p, "entry_upsert")
    BY <1>11 DEF EntryRead, scheduler, entries, registry
  <2>2. a \in Auths
    BY <2>1, Places DEF JobOK, IInv
  <2>3. job'[p].pc = "entry_upsert" /\ job'[p].auth = a
    BY <2>1, GotoGood DEF IInv
  <2>4. a \in Pending(p)'
    BY <2>3 DEF Pending, UpsertPcs
  <2> QED BY <2>1, <2>2, <2>4, CommitFine DEF Holding, UpsertPcs
<1>12. CASE EntryMissing(p)
  <2>1. /\ UNCHANGED <<schedAuth, supports, registered, stale>>
        /\ job[p].pc = "entry_read" /\ auths[a] = NoAuth /\ Finish(p)
    BY <1>12 DEF EntryMissing, scheduler, entries, registry
  <2>2. a \in Auths
    BY <2>1, Places DEF JobOK, IInv
  <2> QED BY <2>1, <2>2, MissingFine DEF Holding, UpsertPcs
<1> QED BY <1>1, <1>2, <1>3, <1>4, <1>5, <1>6, <1>7, <1>8, <1>9, <1>10,
           <1>11, <1>12 DEF Pipeline

LEMMA RemovalFine ==
  ASSUME IInv, SupportAgrees, NEW p \in Procs, Removal(p), OtherJobs(p)
  PROVE  SupportAgrees'
<1> DEFINE a == job[p].auth
<1>1. ASSUME NEW b \in Auths, RemovalUnregister(p, b) PROVE SupportAgrees'
  <2>1. /\ UNCHANGED <<schedAuth, supports, stale>> /\ job[p].pc = "idle"
        /\ RegisterClient(b, {})
        /\ job' = [job EXCEPT ![p].pc = "remove_commit", ![p].auth = b]
    BY <1>1 DEF RemovalUnregister, MayStart, scheduler, entries
  <2>2. job'[p].pc = "remove_commit" /\ job'[p].auth = b
    BY <2>1 DEF IInv, TypeInv, TypeOK, Job
  <2> QED BY <2>1, <2>2, RegisterFine
          DEF IInv, Holding, UpsertPcs, RegisteringPcs, InventoryPcs
<1>2. CASE \E b \in Auths : ManagementRemove(p, b)
  <2>1. /\ UNCHANGED <<schedAuth, supports, registered, stale>>
        /\ job[p].pc = "idle"
    BY <1>2 DEF ManagementRemove, MayStart, scheduler, entries, registry
  <2> QED BY <2>1, QuietFine DEF Holding, UpsertPcs, RegisteringPcs, InventoryPcs
<1>3. CASE RemoveCommit(p)
  <2>1. /\ UNCHANGED <<schedAuth, supports, registered>>
        /\ stale \ {a} \subseteq stale'
        /\ job[p].pc = "remove_commit" /\ Goto(p, "remove_sched")
    BY <1>3 DEF RemoveCommit, entries, registry
  <2>2. a \in Auths
    BY <2>1, Places DEF JobOK, IInv
  <2>3. job'[p].pc = "remove_sched" /\ job'[p].auth = a
    BY <2>1, GotoGood DEF IInv
  <2>4. a \in Pending(p)'
    BY <2>3 DEF Pending, UpsertPcs
  <2> QED BY <2>1, <2>2, <2>4, CommitFine DEF Holding, UpsertPcs
<1>4. CASE RemoveMissing(p)
  <2>1. /\ UNCHANGED <<schedAuth, supports, registered, stale>>
        /\ job[p].pc = "remove_commit" /\ auths[a] = NoAuth /\ Finish(p)
    BY <1>4 DEF RemoveMissing, scheduler, entries, registry
  <2>2. a \in Auths
    BY <2>1, Places DEF JobOK, IInv
  <2> QED BY <2>1, <2>2, MissingFine DEF Holding, UpsertPcs
<1>5. CASE RemoveUnschedule(p)
  <2>1. /\ SchedulerPut(a, NoAuth, FALSE) /\ UNCHANGED <<registered, stale>>
        /\ job[p].pc = "remove_sched"
    BY <1>5 DEF RemoveUnschedule, registry
  <2>2. a \in Auths
    BY <2>1, Places DEF JobOK, IInv
  <2> QED BY <2>1, <2>2, PutFine DEF IInv
<1> QED BY <1>1, <1>2, <1>3, <1>4, <1>5 DEF Removal

-----------------------------------------------------------------------------
LEMMA SupportNext ==
  IInv /\ ReadyOK /\ SupportAgrees /\ [Next]_vars => SupportAgrees'
<1> SUFFICES ASSUME IInv, ReadyOK, SupportAgrees, [Next]_vars PROVE SupportAgrees'
  OBVIOUS
<1>1. CASE Tick \/ UNCHANGED vars
  <2>1. UNCHANGED <<schedAuth, supports, registered, stale, job>>
    BY <1>1 DEF Tick, vars, scheduler, entries, registry
  <2> QED BY <2>1 DEF SupportAgrees, Settled, Pending, Registering
<1>2. ASSUME NEW p \in Procs,
             Synchronise(p) \/ Request(p) \/ Updater(p) \/ Pipeline(p) \/ Removal(p)
      PROVE  SupportAgrees'
  <2>1. OtherJobs(p)
    BY <1>2, StepGood DEF Good, IInv
  <2> QED BY <1>2, <2>1, SynchroniseFine, RequestFine, UpdaterFine,
             PipelineFine, RemovalFine
<1> QED BY <1>1, <1>2 DEF Next

(* Once the pipeline that changed what the registry has of a credential has  *)
(* refreshed its entry, the entry was built with exactly the registry's      *)
(* models, unless two updates of the credential crossed or one is on its way *)
(* (RegisterClient, RefreshSchedulerEntry and everything that upserts).      *)
THEOREM SupportFollows == Spec => []SupportAgrees
<1>1. Init => IInv /\ ReadyOK /\ SupportAgrees
  <2>1. Init => SupportAgrees
    BY DEF Init, SupportAgrees, NoAuths
  <2> QED BY <2>1, InvInit, ReadyInit
<1>2. /\ IInv /\ ReadyOK /\ SupportAgrees /\ [Next]_vars
      => (IInv /\ ReadyOK /\ SupportAgrees)'
  BY InvNext, ReadyNext, SupportNext DEF IInv
<1> QED BY <1>1, <1>2, PTL DEF Spec

=============================================================================
