----------------------------- MODULE AuthCooldown -----------------------------
(***************************************************************************)
(* How the results of requests block and unblock one credential: MarkResult *)
(* of sdk/cliproxy/auth/conductor.go with the cooldown table, the quota    *)
(* backoff, the aggregation of the model states into the credential's own  *)
(* state, and ReconcileRegistryModelStates. Each action is one critical    *)
(* section under m.mu.                                                     *)
(*                                                                         *)
(* A time is what is left of it: 0 once it has passed, NoTime for the zero *)
(* time.Time. Durations keep the order they have in the code.              *)
(***************************************************************************)
EXTENDS Integers, FiniteSets, FiniteSetsExt

CONSTANTS Models,        \* canonical model keys
          NoTime,        \* the zero time
          NoHint,        \* a result without Retry-After
          Hints,         \* Retry-After values of a provider
          QuotaBase,     \* quotaBackoffBase
          QuotaMax,      \* quotaBackoffMax
          ChallengeMin,  \* shortest block after a Cloudflare challenge
          Transient,     \* block after 408, 500, 502, 503, 504
          Denied,        \* block after 401, 402, 403
          Missing,       \* block after 404 and for an unsupported model
          CoolingOff,    \* values of disable-cooling a result may meet
          Direct,        \* whether results without a model occur (a bound)
          MaxInFlight    \* bound on concurrent requests of a model

Durations == Hints \cup {Transient, Denied, Missing}
ASSUME DurationsAssumption == Durations \subseteq Nat
ASSUME BackoffAssumption ==
  QuotaBase \in Nat \ {0} /\ QuotaMax \in Nat /\ QuotaMax >= QuotaBase
  /\ ChallengeMin \in Nat
ASSUME NoTimeAssumption == NoTime \notin Nat /\ NoHint \notin Nat
ASSUME SwitchAssumption == CoolingOff \subseteq BOOLEAN /\ Direct \in BOOLEAN
ASSUME RequestsAssumption == MaxInFlight \in Nat

VARIABLES states,   \* Auth.ModelStates, for the models that have one
          auth,     \* the credential's aggregated state
          inFlight, \* requests of each model that have not reported yet
          direct    \* history: parts of auth a result without model has set

vars == <<states, auth, inFlight, direct>>

Times == Nat \cup {NoTime}
Quota == [exceeded : BOOLEAN, recover : Times, level : Nat]
NoQuota == [exceeded |-> FALSE, recover |-> NoTime, level |-> 0]

\* ModelState, and the part of Auth with the same fields.
State == [status : {"active", "error"}, unavailable : BOOLEAN, retry : Times,
          error : BOOLEAN, quota : Quota]
Clean == [status |-> "active", unavailable |-> FALSE, retry |-> NoTime,
          error |-> FALSE, quota |-> NoQuota]

Tracked == DOMAIN states
StateOf(m) == IF m \in Tracked THEN states[m] ELSE Clean
After(t) == t # NoTime /\ t > 0

\* isAuthBlockedForModel, for a model and for the credential as a whole.
Blocked(m) ==
  m \in Tracked /\ states[m].unavailable /\ After(states[m].retry)
AuthBlocked == auth.unavailable /\ After(auth.retry)

-----------------------------------------------------------------------------
(* Backoff                                                                  *)

\* Mutant of NextQuotaCooldown: the level grows after the maximum is reached.
NextQuotaUnbounded(level) ==
  LET cooldown == QuotaBase * 2 ^ level
  IN  IF cooldown >= QuotaMax
      THEN [cooldown |-> QuotaMax, level |-> level + 1]
      ELSE [cooldown |-> cooldown, level |-> level + 1]

NextQuotaCooldown(level) ==
  LET cooldown == QuotaBase * 2 ^ level
  IN  IF cooldown >= QuotaMax
      THEN [cooldown |-> QuotaMax, level |-> level]
      ELSE [cooldown |-> cooldown, level |-> level + 1]

\* The quota state after a 429: the provider's hint leaves the level alone.
AfterQuota(q, hint, off) ==
  LET next == NextQuotaCooldown(q.level)
  IN  [exceeded |-> TRUE,
       recover |-> IF off THEN NoTime
                   ELSE IF hint # NoHint THEN hint ELSE next.cooldown,
       level |-> IF off \/ hint # NoHint THEN q.level ELSE next.level]

\* nextCloudflareCooldown.
AfterChallenge(q, off) ==
  LET next == NextQuotaCooldown(q.level)
  IN  [exceeded |-> TRUE,
       recover |-> IF off THEN NoTime ELSE Max({next.cooldown, ChallengeMin}),
       level |-> IF off THEN q.level ELSE next.level]

-----------------------------------------------------------------------------
(* Failures                                                                 *)

Kinds == {"unsupported", "challenge", "denied", "missing", "quota",
          "transient", "other"}

\* The cooldown table. A failure of another kind leaves the quota as it was.
Failed(s, kind, hint, off) ==
  LET broken == [s EXCEPT !.unavailable = TRUE, !.status = "error",
                          !.error = TRUE]
      Until(d) == [broken EXCEPT !.retry = IF off THEN NoTime ELSE d]
      Limited(q) == [broken EXCEPT !.quota = q, !.retry = q.recover]
  IN  CASE kind = "unsupported" -> [broken EXCEPT !.retry = Missing]
        [] kind = "challenge" -> Limited(AfterChallenge(s.quota, off))
        [] kind = "denied" -> Until(Denied)
        [] kind = "missing" -> Until(Missing)
        [] kind = "quota" -> Limited(AfterQuota(s.quota, hint, off))
        [] kind = "transient" -> Until(Transient)
        [] kind = "other" -> Until(NoTime)

\* applyAuthFailureState: the same table for the credential itself, except
\* that an unsupported model is not a kind of its own and that a failure of
\* another kind leaves the retry time.
AuthFailed(s, kind, hint, off) ==
  IF kind = "other"
  THEN [s EXCEPT !.unavailable = TRUE, !.status = "error", !.error = TRUE]
  ELSE Failed(s, kind, hint, off)

-----------------------------------------------------------------------------
(* Aggregation                                                              *)

\* updateAggregatedAvailability first clears what has elapsed.
Lapse(S) ==
  [m \in DOMAIN S |->
     IF S[m].unavailable /\ S[m].retry # NoTime /\ S[m].retry = 0
     THEN [S[m] EXCEPT !.unavailable = FALSE, !.retry = NoTime] ELSE S[m]]

HasModelError(S) ==
  \E m \in DOMAIN S :
    \/ S[m].error
    \/ /\ S[m].status = "error" /\ S[m].unavailable
       /\ S[m].retry = NoTime \/ S[m].retry > 0

Earliest(T) == IF T \ {NoTime} = {} THEN NoTime ELSE Min(T \ {NoTime})

\* Mutant of Aggregated: one blocked model is enough to block the credential.
AggregatedAny(a, S) ==
  LET down == {m \in DOMAIN S : S[m].unavailable /\ After(S[m].retry)}
  IN  [a EXCEPT !.unavailable = down # {}, !.quota = NoQuota,
                !.retry = Earliest({S[m].retry : m \in down})]

Aggregated(a, S) ==
  LET down == {m \in DOMAIN S : S[m].unavailable /\ After(S[m].retry)}
      all == DOMAIN S # {} /\ down = DOMAIN S
      over == {m \in DOMAIN S : S[m].quota.exceeded}
  IN  [a EXCEPT
        !.unavailable = all,
        !.retry = IF all THEN Earliest({S[m].retry : m \in down}) ELSE NoTime,
        !.quota = IF over = {} THEN NoQuota
                  ELSE [exceeded |-> TRUE,
                        recover |-> Earliest({S[m].quota.recover : m \in over}),
                        level |-> Max({S[m].quota.level : m \in over})]]

\* What follows every change of the model states.
Settle(S, a) ==
  /\ states' = Lapse(S)
  /\ auth' = Aggregated(a, Lapse(S))

\* The credential is declared healthy when no model has an error any more.
Healed(a, S) ==
  IF HasModelError(S) THEN a ELSE [a EXCEPT !.status = "active", !.error = FALSE]
Recomputed(S) ==
  direct' = IF HasModelError(S) THEN direct \ {"availability"} ELSE {}

-----------------------------------------------------------------------------
(* The operations                                                           *)

\* Mutant of Start: a blocked credential keeps being tried.
StartBlocked(m) ==
  /\ inFlight[m] < MaxInFlight
  /\ inFlight' = [inFlight EXCEPT ![m] = @ + 1]
  /\ UNCHANGED <<states, auth, direct>>

\* A request is sent only when the credential is not blocked for its model.
Start(m) ==
  /\ ~Blocked(m)
  /\ inFlight[m] < MaxInFlight
  /\ inFlight' = [inFlight EXCEPT ![m] = @ + 1]
  /\ UNCHANGED <<states, auth, direct>>

\* Mutant of Report: the same request reports again.
ReportAgain(m) == inFlight' = [inFlight EXCEPT ![m] = @ - 1]

Report(m) ==
  /\ inFlight[m] > 0
  /\ inFlight' = [inFlight EXCEPT ![m] = @ - 1]

With(m, s) == [n \in Tracked \cup {m} |-> IF n = m THEN s ELSE states[n]]

Success(m) ==
  /\ Report(m)
  /\ LET S == Lapse(With(m, Clean))
     IN  Settle(S, Healed(auth, S)) /\ Recomputed(S)

\* Mutant of Failure: the error of a model leaves the credential's status.
FailureQuiet(m, kind, hint, off) ==
  /\ Report(m)
  /\ Settle(With(m, Failed(StateOf(m), kind, hint, off)), auth)
  /\ direct' = {}

Failure(m, kind, hint, off) ==
  /\ Report(m)
  /\ Settle(With(m, Failed(StateOf(m), kind, hint, off)),
            [auth EXCEPT !.status = "error", !.error = TRUE])
  /\ direct' = {}

\* A request-scoped 404, or a request that is abandoned, changes no state.
NoVerdict(m) ==
  /\ Report(m)
  /\ UNCHANGED <<states, auth, direct>>

\* Results without a model go to the credential itself.
AuthSuccess ==
  /\ Direct
  /\ auth' = Clean
  /\ direct' = {"availability", "status"}
  /\ UNCHANGED <<states, inFlight>>

AuthFailure(kind, hint, off) ==
  /\ Direct
  /\ auth' = AuthFailed(auth, kind, hint, off)
  /\ direct' = {"availability", "status"}
  /\ UNCHANGED <<states, inFlight>>

\* ReconcileRegistryModelStates: states of models that are gone are dropped,
\* the others reset; nothing happens when there is nothing to change.
Reconcile(supported) ==
  LET kept == [m \in Tracked \cap supported |-> Clean]
  IN  /\ kept # states
      /\ Settle(kept, Healed(auth, kept))
      /\ Recomputed(kept)
      /\ UNCHANGED inFlight

Less(t) == IF t = NoTime \/ t = 0 THEN t ELSE t - 1
Aged(s) == [s EXCEPT !.retry = Less(@), !.quota.recover = Less(@)]
Tick ==
  /\ states' = [m \in Tracked |-> Aged(states[m])]
  /\ auth' = Aged(auth)
  /\ UNCHANGED <<inFlight, direct>>

Init ==
  /\ states = [m \in {} |-> Clean]
  /\ auth = Clean
  /\ inFlight = [m \in Models |-> 0]
  /\ direct = {}

HintsFor(kind) == IF kind = "quota" THEN Hints \cup {NoHint} ELSE {NoHint}

Next ==
  \/ Tick
  \/ \E m \in Models : Start(m) \/ Success(m) \/ NoVerdict(m)
  \/ \E m \in Models, kind \in Kinds, off \in CoolingOff :
       \E hint \in HintsFor(kind) : Failure(m, kind, hint, off)
  \/ AuthSuccess
  \/ \E kind \in Kinds \ {"unsupported"}, off \in CoolingOff :
       \E hint \in HintsFor(kind) : AuthFailure(kind, hint, off)
  \/ \E supported \in SUBSET Models : Reconcile(supported)

Spec == Init /\ [][Next]_vars
\* Time passes.
FairSpec == Spec /\ WF_vars(Tick)

-----------------------------------------------------------------------------
(* The type invariant.                                                      *)
TypeOK ==
  /\ Tracked \subseteq Models
  /\ \A m \in Tracked : states[m] \in State
  /\ auth \in State
  /\ inFlight \in [Models -> 0..MaxInFlight]
  /\ direct \subseteq {"availability", "status"}

\* The credential as a whole is blocked exactly while every model it has a
\* state for is, at every later instant too: a request without a model is
\* neither refused while some model works nor sent while none does.
AggregateExact ==
  "availability" \notin direct =>
    (AuthBlocked <=> Tracked # {} /\ \A m \in Tracked : Blocked(m))

\* The credential's status shows an error exactly when one of its models has
\* one, through elapsed blocks, successes of other models and reconciliation.
StatusHonest ==
  "status" \notin direct => (auth.status = "error" <=> HasModelError(states))

\* The exponent of the backoff stays where the cooldown last fitted under the
\* maximum, for models and for the level the aggregation and results without
\* a model leave: 1<<level never comes near the width of a Duration.
LevelsBounded ==
  /\ \A m \in Tracked : QuotaBase * 2 ^ states[m].quota.level < 2 * QuotaMax
  /\ QuotaBase * 2 ^ auth.quota.level < 2 * QuotaMax

\* A block always ends: the requests already under way can prolong it, but a
\* blocked model gets no new ones, so time catches up.
BlocksEnd == \A m \in Models : Blocked(m) ~> ~Blocked(m)

=============================================================================
