--------------------------- MODULE CredentialProofs ---------------------------
(***************************************************************************)
(* Proofs about what is recorded of credentials.  AuthCooldown, for any    *)
(* models, durations and backoff: what the aggregation computes when a     *)
(* result arrives stays true while time passes, and the backoff's level    *)
(* stays where its cooldown fits.  AuthWatcher, for any files, keys,       *)
(* channels and contents, any numbers of goroutines that reload or call,   *)
(* and any bounds on what the environment does: what is known of each      *)
(* credential's source follows it.                                         *)
(***************************************************************************)
EXTENDS AuthCooldown, AuthWatcher, SetLemmas

-----------------------------------------------------------------------------
(* Numbers                                                                  *)

\* Powers of two count subsets.
LEMMA PowerIsNat == ASSUME NEW n \in Nat PROVE 2 ^ n \in Nat
<1>1. IsFiniteSet(1..n) /\ Cardinality(1..n) = n
  BY FS_Interval
<1>2. IsFiniteSet(SUBSET (1..n)) /\ Cardinality(SUBSET (1..n)) = 2 ^ n
  BY <1>1, FS_SUBSET
<1> QED BY <1>2, FS_CardinalityType

LEMMA PowerDoubles == ASSUME NEW n \in Nat PROVE 2 ^ (n + 1) = 2 * 2 ^ n
<1> DEFINE A == 1..n
           x == n + 1
           With1 == {B \cup {x} : B \in SUBSET A}
           f == [B \in SUBSET A |-> B \cup {x}]
<1>1. /\ IsFiniteSet(SUBSET A) /\ Cardinality(SUBSET A) = 2 ^ n
      /\ Cardinality(SUBSET (1..x)) = 2 ^ x
  <2>1. IsFiniteSet(1..n) /\ Cardinality(1..n) = n
    BY FS_Interval
  <2>2. IsFiniteSet(1..x) /\ Cardinality(1..x) = x
    BY FS_Interval
  <2> QED BY <2>1, <2>2, FS_SUBSET
<1>2. x \notin A /\ 1..x = A \cup {x}
  OBVIOUS
<1> HIDE DEF A, x
<1>3. SUBSET (1..x) = (SUBSET A) \cup With1
  <2>1. ASSUME NEW C \in SUBSET (A \cup {x}) PROVE C \in (SUBSET A) \cup With1
    <3>1. CASE x \in C
      <4>1. C \ {x} \in SUBSET A /\ C = (C \ {x}) \cup {x}
        BY <3>1
      <4> QED BY <4>1
    <3>2. CASE x \notin C
      BY <3>2
    <3> QED BY <3>1, <3>2
  <2>2. ASSUME NEW C \in (SUBSET A) \cup With1 PROVE C \in SUBSET (A \cup {x})
    OBVIOUS
  <2> QED BY <1>2, <2>1, <2>2
<1>4. (SUBSET A) \cap With1 = {}
  BY <1>2
<1>5. f \in Bijection(SUBSET A, With1)
  <2>1. f \in [SUBSET A -> With1]
    OBVIOUS
  <2>2. ASSUME NEW B \in SUBSET A, NEW C \in SUBSET A, f[B] = f[C] PROVE B = C
    BY <1>2, <2>2
  <2>3. \A C \in With1 : \E B \in SUBSET A : f[B] = C
    OBVIOUS
  <2> QED BY <2>1, <2>2, <2>3 DEF Bijection, Injection, Surjection, IsInjective
<1> HIDE DEF With1, f
<1>6. IsFiniteSet(With1) /\ Cardinality(With1) = 2 ^ n
  BY <1>1, <1>5, FS_Bijection DEF ExistsBijection
<1>7. Cardinality((SUBSET A) \cup With1) = 2 ^ n + 2 ^ n - 0
  BY <1>1, <1>4, <1>6, FS_Union, FS_EmptySet
<1>8. 2 ^ x = 2 ^ n + 2 ^ n - 0
  BY <1>1, <1>3, <1>7
<1> DEFINE p == 2 ^ n
<1>9. p \in Nat
  BY PowerIsNat
<1>10. 2 ^ x = p + p - 0
  BY <1>8
<1> HIDE DEF p
<1>11. 2 ^ x = 2 * p
  BY <1>9, <1>10
<1> QED BY <1>11 DEF x, p

-----------------------------------------------------------------------------
(* Backoff                                                                  *)

\* The cooldown of the level, before it is cut to the maximum, stays below
\* twice the maximum.
Fits(level) == level \in Nat /\ QuotaBase * 2 ^ level < 2 * QuotaMax

LEMMA ZeroFits == Fits(0)
BY BackoffAssumption DEF Fits

LEMMA NextFits ==
  ASSUME NEW level, Fits(level)
  PROVE  /\ NextQuotaCooldown(level).cooldown \in Nat
         /\ Fits(NextQuotaCooldown(level).level)
<1> DEFINE p == 2 ^ level
           c == QuotaBase * p
<1>1. level \in Nat /\ p \in Nat /\ 2 ^ (level + 1) = 2 * p
  BY PowerIsNat, PowerDoubles DEF Fits
<1> HIDE DEF p
<1>2. c \in Nat /\ QuotaMax \in Nat /\ QuotaBase \in Nat /\ c = QuotaBase * p
  BY <1>1, BackoffAssumption
<1>3. QuotaBase * (2 * p) = 2 * c
  BY <1>1, <1>2
<1>4. NextQuotaCooldown(level) =
        IF c >= QuotaMax THEN [cooldown |-> QuotaMax, level |-> level]
        ELSE [cooldown |-> c, level |-> level + 1]
  BY DEF NextQuotaCooldown, p
<1>5. CASE c >= QuotaMax
  BY <1>2, <1>4, <1>5
<1>6. CASE ~(c >= QuotaMax)
  <2>1. QuotaBase * 2 ^ (level + 1) < 2 * QuotaMax
    BY <1>1, <1>2, <1>3, <1>6
  <2>2. Fits(level + 1)
    BY <1>1, <2>1 DEF Fits
  <2> QED BY <1>2, <1>4, <1>6, <2>2
<1> QED BY <1>5, <1>6

\* A state of the program: typed, with a level that fits, and an error
\* whenever its status says so.
Sound(s) ==
  /\ s \in State /\ Fits(s.quota.level)
  /\ s.status = "error" => s.error
SoundQuota(q) == q \in Quota /\ Fits(q.level)

LEMMA CleanIsSound == Sound(Clean) /\ Clean.status = "active" /\ ~Clean.error
BY ZeroFits DEF Sound, Clean, NoQuota, State, Quota, Times, Fits

LEMMA AfterQuotaSound ==
  ASSUME NEW q, SoundQuota(q), NEW hint \in Hints \cup {NoHint}, NEW off \in BOOLEAN
  PROVE  SoundQuota(AfterQuota(q, hint, off))
<1>1. /\ NextQuotaCooldown(q.level).cooldown \in Nat
      /\ Fits(NextQuotaCooldown(q.level).level) /\ Fits(q.level)
  BY NextFits DEF SoundQuota
<1>2. hint # NoHint => hint \in Nat
  BY DurationsAssumption DEF Durations
<1> QED BY <1>1, <1>2 DEF SoundQuota, AfterQuota, Quota, Times, Fits

LEMMA AfterChallengeSound ==
  ASSUME NEW q, SoundQuota(q), NEW off \in BOOLEAN
  PROVE  SoundQuota(AfterChallenge(q, off))
<1> DEFINE c == NextQuotaCooldown(q.level).cooldown
<1>1. c \in Nat /\ Fits(NextQuotaCooldown(q.level).level) /\ Fits(q.level)
  BY NextFits DEF SoundQuota
<1> HIDE DEF c
<1>2. Max({c, ChallengeMin}) \in Nat
  BY <1>1, BackoffAssumption DEF Max
<1> QED BY <1>1, <1>2 DEF SoundQuota, AfterChallenge, Quota, Times, Fits, c

\* Every failure is an error of its model, and shows as one.
LEMMA FailedSound ==
  ASSUME NEW s, Sound(s), NEW kind \in Kinds, NEW hint \in HintsFor(kind), NEW off \in BOOLEAN
  PROVE  /\ Sound(Failed(s, kind, hint, off))
         /\ Failed(s, kind, hint, off).error /\ Failed(s, kind, hint, off).status = "error"
<1> DEFINE broken == [s EXCEPT !.unavailable = TRUE, !.status = "error", !.error = TRUE]
           f == Failed(s, kind, hint, off)
<1>1. /\ broken \in State /\ broken.quota = s.quota /\ SoundQuota(s.quota)
      /\ broken.error /\ broken.status = "error"
  BY DEF Sound, SoundQuota, State
<1>2. ASSUME NEW t \in Times, f = [broken EXCEPT !.retry = t]
      PROVE  Sound(f) /\ f.error /\ f.status = "error"
  <2> HIDE DEF broken, f
  <2> QED BY <1>1, <1>2 DEF Sound, SoundQuota, State
<1>3. ASSUME NEW q, SoundQuota(q), f = [broken EXCEPT !.quota = q, !.retry = q.recover]
      PROVE  Sound(f) /\ f.error /\ f.status = "error"
  <2> HIDE DEF broken, f
  <2>1. q \in Quota /\ q.recover \in Times /\ Fits(q.level)
    BY <1>3 DEF SoundQuota, Quota
  <2>2. /\ f \in State /\ f.quota = q /\ f.error /\ f.status = "error"
    BY <1>1, <1>3, <2>1 DEF State
  <2> QED BY <2>1, <2>2 DEF Sound
<1>4. NoTime \in Times /\ Denied \in Times /\ Missing \in Times /\ Transient \in Times
  BY DurationsAssumption DEF Times, Durations
<1>5. CASE kind = "unsupported"
  BY <1>2, <1>4, <1>5 DEF Failed
<1>6. CASE kind = "challenge"
  BY <1>1, <1>3, <1>6, AfterChallengeSound DEF Failed
<1>7. CASE kind = "denied"
  BY <1>2, <1>4, <1>7 DEF Failed
<1>8. CASE kind = "missing"
  BY <1>2, <1>4, <1>8 DEF Failed
<1>9. CASE kind = "quota"
  <2>1. hint \in Hints \cup {NoHint}
    BY <1>9 DEF HintsFor
  <2>2. SoundQuota(AfterQuota(s.quota, hint, off))
    BY <1>1, <2>1, AfterQuotaSound
  <2> QED BY <1>3, <1>9, <2>2 DEF Failed
<1>10. CASE kind = "transient"
  BY <1>2, <1>4, <1>10 DEF Failed
<1>11. CASE kind = "other"
  BY <1>2, <1>4, <1>11 DEF Failed
<1> QED BY <1>5, <1>6, <1>7, <1>8, <1>9, <1>10, <1>11 DEF Kinds

-----------------------------------------------------------------------------
(* Aggregation                                                              *)

Book(S) == /\ DOMAIN S \subseteq Models /\ IsFiniteSet(DOMAIN S)
           /\ \A m \in DOMAIN S : Sound(S[m])
Erring(S) == \E m \in DOMAIN S : S[m].error
Down(s) == s.unavailable /\ After(s.retry)

\* What the credential's own block says of its models: it is the one that ends
\* first, and there is none while a model works.
Summarized(a, S) ==
  /\ a.unavailable =>
       /\ a.retry \in Nat /\ \E m \in DOMAIN S : a.retry = S[m].retry
       /\ \A m \in DOMAIN S : /\ S[m].unavailable /\ S[m].retry \in Nat
                              /\ a.retry <= S[m].retry
  /\ ~a.unavailable => DOMAIN S = {} \/ \E m \in DOMAIN S : ~Down(S[m])

LEMMA ErrorsShow == ASSUME NEW S, Book(S) PROVE HasModelError(S) <=> Erring(S)
BY DEF HasModelError, Erring, Book, Sound

LEMMA LapseFacts ==
  ASSUME NEW S, Book(S)
  PROVE  Book(Lapse(S)) /\ (Erring(Lapse(S)) <=> Erring(S))
<1>1. \A m \in DOMAIN S : S[m] \in State
  BY DEF Book, Sound
<1>2. \A m \in DOMAIN S : /\ Lapse(S)[m] \in State /\ Lapse(S)[m].error = S[m].error
                          /\ Lapse(S)[m].status = S[m].status
                          /\ Lapse(S)[m].quota = S[m].quota
  BY <1>1 DEF Lapse, State, Times
<1>3. DOMAIN Lapse(S) = DOMAIN S
  BY DEF Lapse
<1> QED BY <1>2, <1>3 DEF Book, Sound, Erring

LEMMA EarliestOfNats ==
  ASSUME NEW T \in SUBSET Nat, T # {}
  PROVE  Earliest(T) \in T /\ \A t \in T : Earliest(T) <= t
<1>1. T \ {NoTime} = T
  BY NoTimeAssumption
<1> QED BY <1>1, MinOfNats DEF Earliest

LEMMA EarliestTime == ASSUME NEW T \in SUBSET Times PROVE Earliest(T) \in Times
<1>1. CASE T \ {NoTime} = {}
  BY <1>1 DEF Earliest, Times
<1>2. CASE T \ {NoTime} # {}
  <2>1. T \ {NoTime} \in SUBSET Nat
    BY DEF Times
  <2>2. Min(T \ {NoTime}) \in Nat
    BY <1>2, <2>1, MinOfNats
  <2> QED BY <1>2, <2>2 DEF Earliest, Times
<1> QED BY <1>1, <1>2

LEMMA AggregatedFacts ==
  ASSUME NEW S, Book(S), NEW a \in State
  PROVE  /\ Aggregated(a, S) \in State /\ Fits(Aggregated(a, S).quota.level)
         /\ Aggregated(a, S).status = a.status
         /\ Summarized(Aggregated(a, S), S)
<1> DEFINE down == {m \in DOMAIN S : S[m].unavailable /\ After(S[m].retry)}
           all == DOMAIN S # {} /\ down = DOMAIN S
           over == {m \in DOMAIN S : S[m].quota.exceeded}
           T == {S[m].retry : m \in down}
           L == {S[m].quota.level : m \in over}
           t == IF all THEN Earliest(T) ELSE NoTime
           q == IF over = {} THEN NoQuota
                ELSE [exceeded |-> TRUE, recover |-> Earliest({S[m].quota.recover : m \in over}),
                      level |-> Max(L)]
<1>1. \A m \in DOMAIN S : /\ S[m] \in State /\ S[m].quota \in Quota /\ S[m].retry \in Times
                          /\ S[m].quota.recover \in Times /\ Fits(S[m].quota.level)
                          /\ S[m].unavailable \in BOOLEAN
  BY DEF Book, Sound, State, Quota
<1>2. Aggregated(a, S) = [a EXCEPT !.unavailable = all, !.retry = t, !.quota = q]
  BY DEF Aggregated
<1>3. T \in SUBSET Nat
  BY <1>1 DEF After, Times
<1>4. all => /\ t \in Nat /\ \E m \in DOMAIN S : t = S[m].retry
             /\ \A m \in DOMAIN S : S[m].retry \in Nat /\ t <= S[m].retry
  <2> SUFFICES ASSUME all PROVE /\ t \in Nat /\ \E m \in DOMAIN S : t = S[m].retry
                                /\ \A m \in DOMAIN S : S[m].retry \in Nat /\ t <= S[m].retry
    OBVIOUS
  <2>1. T # {}
    OBVIOUS
  <2>2. Earliest(T) \in T /\ \A x \in T : Earliest(T) <= x
    BY <1>3, <2>1, EarliestOfNats
  <2> QED BY <1>3, <2>2
<1>5. q \in Quota /\ Fits(q.level)
  <2>1. CASE over = {}
    BY <2>1, CleanIsSound DEF Sound, Clean, State
  <2>2. CASE over # {}
    <3>1. Earliest({S[m].quota.recover : m \in over}) \in Times
      <4>1. {S[m].quota.recover : m \in over} \in SUBSET Times
        BY <1>1
      <4> QED BY <4>1, EarliestTime
    <3>2. Max(L) \in L
      <4>1. L \in SUBSET Nat /\ L # {}
        BY <1>1, <2>2 DEF Fits
      <4>2. IsFiniteSet(L)
        <5>1. IsFiniteSet(over)
          BY FS_Subset DEF Book
        <5>2. [m \in over |-> S[m].quota.level] \in Surjection(over, L)
          BY DEF Surjection
        <5> HIDE DEF over, L
        <5> QED BY <5>1, <5>2, FS_Surjection
      <4> HIDE DEF L
      <4> QED BY <4>1, <4>2, MaxOfNats
    <3>3. Fits(Max(L))
      BY <1>1, <3>2
    <3> QED BY <2>2, <3>1, <3>3 DEF Quota, Fits
  <2> QED BY <2>1, <2>2
<1>6. t \in Times /\ all \in BOOLEAN
  BY <1>4 DEF Times
<1>7. /\ all => \A m \in DOMAIN S : S[m].unavailable
      /\ ~all => DOMAIN S = {} \/ \E m \in DOMAIN S : ~Down(S[m])
  BY <1>1 DEF Down
<1> HIDE DEF all, t, q, down, over, T, L
<1> DEFINE r == Aggregated(a, S)
<1>8. /\ r \in State /\ r.unavailable = all /\ r.retry = t /\ r.quota = q
      /\ r.status = a.status
  BY <1>2, <1>5, <1>6 DEF State
<1> HIDE DEF r
<1>9. Summarized(r, S)
  BY <1>4, <1>7, <1>8 DEF Summarized
<1> QED BY <1>5, <1>8, <1>9 DEF r

LEMMA SettleFacts ==
  ASSUME NEW S, Book(S), NEW a \in State, Settle(S, a)
  PROVE  /\ Book(states)' /\ (Erring(states)' <=> Erring(S))
         /\ auth' \in State /\ Fits(auth'.quota.level) /\ auth'.status = a.status
         /\ Summarized(auth, states)'
<1> DEFINE L == Lapse(S)
<1>1. states' = L /\ auth' = Aggregated(a, L)
  BY DEF Settle
<1>2. Book(L) /\ (Erring(L) <=> Erring(S))
  BY LapseFacts
<1> HIDE DEF L
<1>3. /\ Aggregated(a, L) \in State /\ Fits(Aggregated(a, L).quota.level)
      /\ Aggregated(a, L).status = a.status /\ Summarized(Aggregated(a, L), L)
  BY <1>2, AggregatedFacts
<1>4. Book(states') /\ (Erring(states') <=> Erring(S)) /\ Summarized(auth', states')
  BY <1>1, <1>2, <1>3
<1> QED BY <1>1, <1>3, <1>4 DEF Book, Erring, Summarized

-----------------------------------------------------------------------------
(* The invariant                                                            *)

Types == /\ Book(states) /\ auth \in State /\ Fits(auth.quota.level)
         /\ inFlight \in [Models -> 0..MaxInFlight]
         /\ direct \subseteq {"availability", "status"}
StatusOK == "status" \notin direct => (auth.status = "error" <=> Erring(states))
AvailabilityOK == "availability" \notin direct => Summarized(auth, states)
Inv == Types /\ StatusOK /\ AvailabilityOK

LEMMA InitInv == Init => Inv
<1> SUFFICES ASSUME Init PROVE Inv
  OBVIOUS
<1>1. DOMAIN states = {} /\ auth = Clean /\ direct = {}
  BY DEF Init
<1>2. Book(states) /\ ~Erring(states)
  BY <1>1, FS_EmptySet DEF Book, Erring
<1>3. Clean \in State /\ Fits(Clean.quota.level) /\ Clean.status = "active" /\ ~Clean.unavailable
  BY CleanIsSound DEF Sound, Clean
<1>4. inFlight \in [Models -> 0..MaxInFlight]
  BY RequestsAssumption DEF Init
<1> QED BY <1>1, <1>2, <1>3, <1>4 DEF Inv, Types, StatusOK, AvailabilityOK, Summarized

LEMMA ReportTypes ==
  ASSUME Types, NEW m \in Models, Report(m) PROVE inFlight' \in [Models -> 0..MaxInFlight]
BY RequestsAssumption DEF Types, Report

LEMMA WithBook ==
  ASSUME Types, NEW m \in Models, NEW s, Sound(s)
  PROVE  /\ Book(With(m, s)) /\ With(m, s)[m] = s /\ m \in DOMAIN With(m, s)
         /\ DOMAIN With(m, s) = Tracked \cup {m}
         /\ \A n \in Tracked \ {m} : With(m, s)[n] = states[n]
<1>1. DOMAIN With(m, s) = Tracked \cup {m}
  BY DEF With
<1>2. IsFiniteSet(Tracked \cup {m})
  BY FS_AddElement DEF Types, Book, Tracked
<1> QED BY <1>1, <1>2 DEF With, Types, Book, Tracked

LEMMA SuccessKeeps == ASSUME Inv, NEW m \in Models, Success(m) PROVE Inv'
<1> DEFINE W == With(m, Clean)
           S == Lapse(W)
           a == Healed(auth, S)
<1>1. Settle(S, a) /\ Recomputed(S) /\ Report(m)
  BY DEF Success
<1>2. /\ Book(W) /\ W[m] = Clean /\ DOMAIN W = Tracked \cup {m}
      /\ \A n \in Tracked \ {m} : W[n] = states[n]
  BY WithBook, CleanIsSound DEF Inv
<1>3. Erring(W) => Erring(states)
  BY <1>2, CleanIsSound DEF Erring, Tracked
<1> HIDE DEF W
<1>4. Book(S) /\ (Erring(S) <=> Erring(W))
  BY <1>2, LapseFacts
<1>5. HasModelError(S) <=> Erring(S)
  BY <1>4, ErrorsShow
<1> HIDE DEF S
<1>6. a \in State /\ (Erring(S) => a = auth) /\ (~Erring(S) => a.status = "active")
  BY <1>5 DEF Healed, Inv, Types, State
<1> HIDE DEF a
<1>7. /\ Book(states)' /\ (Erring(states)' <=> Erring(S))
      /\ auth' \in State /\ Fits(auth'.quota.level) /\ auth'.status = a.status
      /\ Summarized(auth, states)'
  BY <1>1, <1>4, <1>6, SettleFacts
<1>8. Types'
  BY <1>1, <1>7, ReportTypes DEF Inv, Types, Recomputed
<1>9. StatusOK'
  BY <1>1, <1>3, <1>4, <1>5, <1>6, <1>7 DEF Inv, StatusOK, Recomputed
<1> QED BY <1>7, <1>8, <1>9 DEF Inv, AvailabilityOK

LEMMA FailureKeeps ==
  ASSUME Inv, NEW m \in Models, NEW kind \in Kinds, NEW off \in CoolingOff,
         NEW hint \in HintsFor(kind), Failure(m, kind, hint, off)
  PROVE  Inv'
<1> DEFINE s == Failed(StateOf(m), kind, hint, off)
           W == With(m, s)
           a == [auth EXCEPT !.status = "error", !.error = TRUE]
<1>1. Settle(W, a) /\ direct' = {} /\ Report(m)
  BY DEF Failure
<1>2. Sound(StateOf(m))
  BY CleanIsSound DEF StateOf, Inv, Types, Book, Tracked
<1>3. Sound(s) /\ s.error
  BY <1>2, FailedSound, SwitchAssumption
<1> HIDE DEF s
<1>4. Book(W) /\ Erring(W)
  <2>1. Book(W) /\ W[m] = s /\ m \in DOMAIN W
    BY <1>3, WithBook DEF Inv
  <2> HIDE DEF W
  <2> QED BY <1>3, <2>1 DEF Erring
<1>5. a \in State /\ a.status = "error"
  BY DEF Inv, Types, State
<1> HIDE DEF W, a
<1>6. /\ Book(states)' /\ (Erring(states)' <=> Erring(W))
      /\ auth' \in State /\ Fits(auth'.quota.level) /\ auth'.status = a.status
      /\ Summarized(auth, states)'
  BY <1>1, <1>4, <1>5, SettleFacts
<1>7. Types'
  BY <1>1, <1>6, ReportTypes DEF Inv, Types
<1> QED BY <1>1, <1>4, <1>5, <1>6, <1>7 DEF Inv, StatusOK, AvailabilityOK

LEMMA ReconcileKeeps ==
  ASSUME Inv, NEW supported \in SUBSET Models, Reconcile(supported) PROVE Inv'
<1> DEFINE S == [m \in Tracked \cap supported |-> Clean]
           a == Healed(auth, S)
<1>1. Settle(S, a) /\ Recomputed(S) /\ UNCHANGED inFlight
  BY DEF Reconcile
<1>2. Book(S) /\ ~Erring(S)
  <2>1. IsFiniteSet(Tracked \cap supported)
    BY FS_Subset DEF Inv, Types, Book, Tracked
  <2> QED BY <2>1, CleanIsSound DEF Book, Erring
<1>3. ~HasModelError(S)
  BY <1>2, ErrorsShow
<1> HIDE DEF S
<1>4. a \in State /\ a.status = "active"
  BY <1>3 DEF Healed, Inv, Types, State
<1> HIDE DEF a
<1>5. /\ Book(states)' /\ (Erring(states)' <=> Erring(S))
      /\ auth' \in State /\ Fits(auth'.quota.level) /\ auth'.status = a.status
      /\ Summarized(auth, states)'
  BY <1>1, <1>2, <1>4, SettleFacts
<1>6. direct' = {}
  BY <1>1, <1>3 DEF Recomputed
<1> QED BY <1>1, <1>2, <1>4, <1>5, <1>6 DEF Inv, Types, StatusOK, AvailabilityOK

LEMMA DirectKeeps ==
  ASSUME Inv, \/ AuthSuccess
              \/ \E kind \in Kinds \ {"unsupported"}, off \in CoolingOff :
                   \E hint \in HintsFor(kind) : AuthFailure(kind, hint, off)
  PROVE  Inv'
<1>1. direct' = {"availability", "status"} /\ UNCHANGED <<states, inFlight>>
  BY DEF AuthSuccess, AuthFailure
<1>2. auth' \in State /\ Fits(auth'.quota.level)
  <2>1. CASE AuthSuccess
    BY <2>1, CleanIsSound DEF AuthSuccess, Sound
  <2>2. ASSUME NEW kind \in Kinds, NEW off \in CoolingOff, NEW hint \in HintsFor(kind),
               AuthFailure(kind, hint, off)
        PROVE  auth' \in State /\ Fits(auth'.quota.level)
    <3>1. auth' = AuthFailed(auth, kind, hint, off)
      BY <2>2 DEF AuthFailure
    <3>2. CASE kind = "other"
      BY <3>1, <3>2 DEF AuthFailed, Inv, Types, State
    <3>3. CASE kind # "other"
      \* The table looks at the quota only: any error flag will do.
      <4> DEFINE s == [auth EXCEPT !.error = TRUE]
      <4>1. Sound(s)
        BY DEF Inv, Types, Sound, State
      <4>2. Failed(s, kind, hint, off) = Failed(auth, kind, hint, off)
        <5>1. s.quota = auth.quota
              /\ [s EXCEPT !.unavailable = TRUE, !.status = "error", !.error = TRUE]
                 = [auth EXCEPT !.unavailable = TRUE, !.status = "error", !.error = TRUE]
          BY DEF Inv, Types, State
        <5> HIDE DEF s
        <5> QED BY <5>1 DEF Failed
      <4>3. Sound(Failed(s, kind, hint, off))
        BY <4>1, FailedSound, SwitchAssumption
      <4> HIDE DEF s
      <4> QED BY <3>1, <3>3, <4>2, <4>3 DEF AuthFailed, Sound
    <3> QED BY <3>2, <3>3
  <2> QED BY <2>1, <2>2
<1> QED BY <1>1, <1>2 DEF Inv, Types, StatusOK, AvailabilityOK

\* Times run out together, so that the first to end stays the first.
LEMMA TickKeeps == ASSUME Inv, Tick PROVE Inv'
<1>1. ASSUME NEW s \in State
      PROVE  /\ Aged(s) \in State /\ Aged(s).status = s.status /\ Aged(s).error = s.error
             /\ Aged(s).unavailable = s.unavailable /\ Aged(s).retry = Less(s.retry)
             /\ Aged(s).quota.level = s.quota.level
  <2> DEFINE t == Less(s.retry)
             q == [s.quota EXCEPT !.recover = Less(s.quota.recover)]
  <2>1. \A u \in Times : Less(u) \in Times
    BY NoTimeAssumption DEF Less, Times
  <2>2. t \in Times /\ q \in Quota /\ q.level = s.quota.level
    BY <2>1 DEF State, Quota
  <2>3. Aged(s) = [s EXCEPT !.retry = t, !.quota = q]
    BY DEF Aged
  <2>4. t = Less(s.retry)
    OBVIOUS
  <2> HIDE DEF t, q
  <2> QED BY <2>2, <2>3, <2>4 DEF State
<1>2. /\ DOMAIN states' = DOMAIN states /\ \A m \in DOMAIN states : states'[m] = Aged(states[m])
      /\ auth' = Aged(auth) /\ UNCHANGED <<inFlight, direct>>
  BY DEF Tick, Tracked
<1>3. auth \in State /\ \A m \in DOMAIN states : states[m] \in State
  BY DEF Inv, Types, Book, Sound
<1>4. Types'
  BY <1>1, <1>2, <1>3 DEF Inv, Types, Book, Sound
<1>5. Erring(states)' <=> Erring(states)
  BY <1>1, <1>2, <1>3 DEF Erring
<1>6. StatusOK'
  BY <1>1, <1>2, <1>3, <1>5 DEF Inv, StatusOK
<1>7. ASSUME Summarized(auth, states) PROVE Summarized(auth, states)'
  <2>1. /\ auth'.unavailable = auth.unavailable /\ auth'.retry = Less(auth.retry)
        /\ \A m \in DOMAIN states : /\ states'[m].unavailable = states[m].unavailable
                                    /\ states'[m].retry = Less(states[m].retry)
                                    /\ states[m].retry \in Times
    BY <1>1, <1>2, <1>3 DEF State
  <2>2. ASSUME NEW t \in Nat PROVE Less(t) \in Nat /\ Less(t) = IF t = 0 THEN 0 ELSE t - 1
    BY NoTimeAssumption DEF Less
  <2>3. CASE auth.unavailable
    BY <1>2, <1>7, <2>1, <2>2, <2>3 DEF Summarized
  <2>4. CASE ~auth.unavailable
    <3>1. ASSUME NEW m \in DOMAIN states, ~Down(states[m]) PROVE ~Down(states'[m])
      BY <2>1, <3>1, NoTimeAssumption DEF Down, After, Less, Times
    <3> QED BY <1>2, <1>7, <2>1, <2>4, <3>1 DEF Summarized
  <2> QED BY <2>3, <2>4
<1> QED BY <1>2, <1>4, <1>6, <1>7 DEF Inv, AvailabilityOK

LEMMA NextInv == Inv /\ [Next]_vars => Inv'
<1> SUFFICES ASSUME Inv, [Next]_vars PROVE Inv'
  OBVIOUS
<1>1. ASSUME UNCHANGED <<states, auth, direct>>, inFlight' \in [Models -> 0..MaxInFlight]
      PROVE  Inv'
  BY <1>1 DEF Inv, Types, StatusOK, AvailabilityOK, Book, Erring, Summarized
<1>2. CASE UNCHANGED vars
  BY <1>1, <1>2 DEF vars, Inv, Types
<1>3. ASSUME NEW m \in Models, Start(m) PROVE Inv'
  <2>1. inFlight' \in [Models -> 0..MaxInFlight]
    BY <1>3, RequestsAssumption DEF Start, Inv, Types
  <2> QED BY <1>1, <1>3, <2>1 DEF Start
<1>4. ASSUME NEW m \in Models, NoVerdict(m) PROVE Inv'
  <2>1. inFlight' \in [Models -> 0..MaxInFlight]
    BY <1>4, ReportTypes DEF NoVerdict, Inv
  <2> QED BY <1>1, <1>4, <2>1 DEF NoVerdict
<1> QED
  BY <1>2, <1>3, <1>4, SuccessKeeps, FailureKeeps, ReconcileKeeps, DirectKeeps, TickKeeps
  DEF Next

-----------------------------------------------------------------------------
LEMMA InvHolds == Spec => []Inv
BY InitInv, NextInv, PTL DEF Spec

\* The states keep their types, whatever results meet whatever states.
THEOREM TypeCorrect == Spec => []TypeOK
<1>1. Inv => TypeOK
  BY DEF Inv, Types, Book, Sound, TypeOK, Tracked
<1> QED BY <1>1, InvHolds, PTL

\* The credential as a whole is blocked exactly while all its models are,
\* although its block is computed only when a result arrives.
THEOREM AggregateFollows == Spec => []AggregateExact
<1>1. Inv => AggregateExact
  <2> SUFFICES ASSUME Inv, "availability" \notin direct
               PROVE  AuthBlocked <=> Tracked # {} /\ \A m \in Tracked : Blocked(m)
    BY DEF AggregateExact
  <2>1. Summarized(auth, states)
    BY DEF Inv, AvailabilityOK
  <2>2. \A m \in Tracked : Blocked(m) <=> Down(states[m])
    BY DEF Blocked, Down
  <2>3. CASE auth.unavailable
    BY <2>1, <2>2, <2>3, NoTimeAssumption DEF Summarized, AuthBlocked, Down, After, Tracked
  <2>4. CASE ~auth.unavailable
    BY <2>1, <2>2, <2>4 DEF Summarized, AuthBlocked, Tracked
  <2> QED BY <2>3, <2>4
<1> QED BY <1>1, InvHolds, PTL

\* The credential shows an error exactly when one of its models has one.
THEOREM StatusFollows == Spec => []StatusHonest
<1>1. Inv => StatusHonest
  BY ErrorsShow DEF Inv, Types, StatusOK, StatusHonest
<1> QED BY <1>1, InvHolds, PTL

\* No sequence of results takes a level past the one whose cooldown is cut.
THEOREM LevelsStayBounded == Spec => []LevelsBounded
<1>1. Inv => LevelsBounded
  BY DEF Inv, Types, Book, Sound, Fits, LevelsBounded, Tracked
<1> QED BY <1>1, InvHolds, PTL

-----------------------------------------------------------------------------
(* AuthWatcher                                                              *)

Event == [file : Files, gone : BOOLEAN]
ReloadPlaces == {"scan", "scanned", "filter", "snapshot", "refresh"}

\* What each place of a goroutine says of what it carries.
HandlerPlaces(j) ==
    /\ j.at \in {"stat", "read", "hash", "commit", "remove"} => j.file \in Files
    /\ j.at \in {"hash", "commit"} => j.data \in Versions
ReloaderPlaces(j) ==
    /\ j.at \in {"filter", "snapshot"} =>
          j \in [at : {"filter", "snapshot"}, affected : SUBSET Ids, force : BOOLEAN]
    /\ j.at = "scanned" => j.seen \in [Files -> Val]
    /\ j.at = "refresh" => j.view \in [Files \cup Keys -> Val]
CallerPlaces(j) == j.at = "persisted" => j.file \in Files /\ j.data \in Versions
Dispatching(j) ==
    j.at = "dispatch" => DOMAIN j.out \subseteq Ids /\ \A i \in DOMAIN j.out : j.out[i] \in Val

JobOK(p, j) ==
    /\ HandlerPlaces(j) /\ ReloaderPlaces(j) /\ CallerPlaces(j) /\ Dispatching(j)
    /\ p # Handler => j.at \notin {"stat", "read", "hash", "commit", "remove"}
    /\ p \notin Reloaders => j.at \notin ReloadPlaces
    /\ p \notin Callers => j.at # "persisted"

JobTypes == DOMAIN job = Procs /\ \A p \in Procs : JobOK(p, job[p])

SourceTypes ==
    /\ disk \in [Files -> Val \cup {Torn}] /\ events \in Seq(Event)
    /\ config \in [Keys -> Val] /\ runtime \in [Channels -> Val]
ViewTypes ==
    /\ hashes \in [Files -> Val] /\ current \in [Ids -> Val] /\ sent \in [Ids -> Val]
    /\ known \subseteq Files

TypeInv == JobTypes /\ SourceTypes /\ ViewTypes

-----------------------------------------------------------------------------
(* Goroutines                                                               *)

\* One goroutine goes on, the others stay where they are.
LEMMA Moves ==
    ASSUME NEW p \in Procs, NEW j, DOMAIN job = Procs, Goto(p, j)
    PROVE  /\ DOMAIN job' = Procs
           /\ \A q \in Procs \ {p} : job'[q] = job[q]
           /\ job'[p] = IF j.at = "dispatch" /\ DOMAIN j.out = {} THEN Idle ELSE j
BY DEF Goto

LEMMA IdleIsOK == ASSUME NEW p PROVE JobOK(p, Idle)
BY DEF JobOK, HandlerPlaces, ReloaderPlaces, CallerPlaces, Dispatching, Idle, ReloadPlaces

LEMMA MovesOK ==
    ASSUME JobTypes, NEW p \in Procs, NEW j, Goto(p, j), JobOK(p, j)
    PROVE  JobTypes'
<1>1. DOMAIN job = Procs
  BY DEF JobTypes
<1>2. /\ DOMAIN job' = Procs
      /\ \A q \in Procs \ {p} : job'[q] = job[q]
      /\ job'[p] = Idle \/ job'[p] = j
  BY <1>1, Moves
<1>3. \A q \in Procs : JobOK(q, job'[q])
  BY <1>2, IdleIsOK DEF JobTypes
<1> QED BY <1>2, <1>3 DEF JobTypes, JobOK, HandlerPlaces, ReloaderPlaces, CallerPlaces,
                         Dispatching

\* The update a goroutine has committed is the one it carries.
LEMMA GoesToDispatch ==
    ASSUME NEW p \in Procs, DOMAIN job = Procs, NEW out, Goto(p, ToDispatch(out))
    PROVE  /\ \A q \in Procs \ {p} : job'[q] = job[q]
           /\ OnTheWay(p)' = DOMAIN out
           /\ DOMAIN out # {} => job'[p].at = "dispatch" /\ job'[p].out = out
           /\ job'[p].at \in {"idle", "dispatch"}
<1> DEFINE j == ToDispatch(out)
<1>1. j.at = "dispatch" /\ j.out = out
  BY DEF ToDispatch
<1> HIDE DEF j
<1>2. Goto(p, j)
  BY DEF j
<1>3. /\ \A q \in Procs \ {p} : job'[q] = job[q]
      /\ job'[p] = IF j.at = "dispatch" /\ DOMAIN j.out = {} THEN Idle ELSE j
  BY <1>2, Moves
<1> QED BY <1>1, <1>3 DEF OnTheWay, Idle

LEMMA OutIsOK ==
    ASSUME NEW p, NEW out, DOMAIN out \subseteq Ids, \A i \in DOMAIN out : out[i] \in Val
    PROVE  JobOK(p, ToDispatch(out))
<1>1. ToDispatch(out).at = "dispatch" /\ ToDispatch(out).out = out
  BY DEF ToDispatch
<1> HIDE DEF ToDispatch
<1> QED BY <1>1 DEF JobOK, HandlerPlaces, ReloaderPlaces, CallerPlaces, Dispatching,
                    ReloadPlaces

LEMMA Sets ==
    /\ None \in Val /\ Versions \subseteq Val
    /\ Files \subseteq Ids /\ Channels \subseteq Ids /\ Keys \subseteq Ids
    /\ Ids \subseteq Files \cup Keys \cup Channels
    /\ Handler \in Procs /\ Reloaders \subseteq Procs /\ Callers \subseteq Procs
    /\ Handler \notin Reloaders /\ Handler \notin Callers /\ Reloaders \cap Callers = {}
    /\ \A c \in Channels : c \notin Files /\ c \notin Keys
BY WatcherAssumption DEF Val, Ids, Procs

\* The file an event is about, and the other events.
LEMMA EventFacts ==
    ASSUME events \in Seq(Event), events # <<>>
    PROVE  /\ Head(events).file \in Files /\ Head(events).gone \in BOOLEAN
           /\ Tail(events) \in Seq(Event)
<1>1. Head(events) \in Event /\ Tail(events) \in Seq(Event)
  OBVIOUS
<1> QED BY <1>1 DEF Event

LEMMA ReadableType == ASSUME NEW f \in Files PROVE Readable(f) \in Val
BY DEF Readable, Val

-----------------------------------------------------------------------------
(* Types                                                                    *)

LEMMA InitTypes == WatcherInit => TypeInv
<1> SUFFICES ASSUME WatcherInit PROVE TypeInv
  OBVIOUS
<1>1. JobTypes
  <2>1. PICK s \in Reloaders : job = [p \in Procs |-> IF p = s THEN [at |-> "scan"] ELSE Idle]
    BY DEF WatcherInit
  <2>2. \A p \in Procs : JobOK(p, job[p])
    BY <2>1, IdleIsOK, Sets DEF JobOK, HandlerPlaces, ReloaderPlaces, CallerPlaces, Dispatching
  <2> QED BY <2>1, <2>2 DEF JobTypes
<1>2. SourceTypes
  <2>1. disk \in [Files -> Val \cup {Torn}]
    BY DEF WatcherInit, Val
  <2> QED BY <2>1, Sets DEF WatcherInit, SourceTypes
<1>3. ViewTypes
  BY Sets DEF WatcherInit, ViewTypes
<1> QED BY <1>1, <1>2, <1>3 DEF TypeInv

\* The steps of the handler.
HandlerStep == \/ HandleWrite \/ HandleRemove \/ StatFile \/ ReadFile \/ CheckHash
               \/ CommitFile \/ RemoveClient
ReloaderStep(p) ==
    \/ \E c \in [Keys -> Val], affected \in {{}, Ids}, force \in BOOLEAN :
          ReloadConfig(p, c, affected, force)
    \/ FilterView(p) \/ ScanFiles(p) \/ ReplaceCache(p)
    \/ SnapshotCoreAuths(p) \/ RefreshAuthState(p)
CallerStep(p) ==
    \/ \E c \in Channels, v \in Val : RuntimeUpdate(p, c, v)
    \/ \E f \in Files, v \in Versions : SaveAuth(p, f, v)
    \/ PersistedUpdate(p)
Environment ==
    \/ \E f \in Files : WindowPasses(f)
    \/ \E f \in Files, c \in Val \cup {Torn} : WriteFile(f, c)

LEMMA NextSteps ==
    WatcherNext =>
            \/ Environment \/ HandlerStep
            \/ \E p \in Reloaders : ReloaderStep(p)
            \/ \E p \in Callers : CallerStep(p)
            \/ \E p \in Procs : DispatchAuthUpdates(p)
BY DEF WatcherNext, Environment, HandlerStep, ReloaderStep, CallerStep

LEMMA SourcesStay ==
    ASSUME SourceTypes, UNCHANGED <<disk, events, config, runtime>> PROVE SourceTypes'
BY DEF SourceTypes

LEMMA EnvironmentTypes == ASSUME TypeInv, Environment PROVE TypeInv'
<1>1. ASSUME NEW f \in Files, WindowPasses(f) PROVE TypeInv'
  BY <1>1 DEF WindowPasses, TypeInv, JobTypes, SourceTypes, ViewTypes
<1>2. ASSUME NEW f \in Files, NEW c \in Val \cup {Torn}, WriteFile(f, c) PROVE TypeInv'
  <2>1. disk' \in [Files -> Val \cup {Torn}]
    BY <1>2 DEF WriteFile, TypeInv, SourceTypes
  <2>2. events' \in Seq(Event)
    <3>1. PICK x \in Event, y \in Event :
            events' = Append(events, x) \/ events' = events \o <<x, y>>
      <4> DEFINE a == [file |-> f, gone |-> c = None]
                 x == [file |-> f, gone |-> TRUE]
                 y == [file |-> f, gone |-> FALSE]
      <4>1. a \in Event /\ x \in Event /\ y \in Event
        BY DEF Event
      <4>2. events' = Append(events, a) \/ events' = events \o <<x, y>>
        BY <1>2 DEF WriteFile
      <4> HIDE DEF a, x, y
      <4> QED BY <4>1, <4>2
    <3>2. events \in Seq(Event)
      BY DEF TypeInv, SourceTypes
    <3>3. <<x, y>> \in Seq(Event)
      OBVIOUS
    <3> DEFINE t == <<x, y>>
    <3>4. events \o t \in Seq(Event)
      <4> HIDE DEF t
      <4>1. t \in Seq(Event)
        BY <3>3 DEF t
      <4> QED BY <3>2, <4>1
    <3>5. Append(events, x) \in Seq(Event)
      BY <3>2
    <3> QED BY <3>1, <3>4, <3>5
  <2> QED BY <1>2, <2>1, <2>2 DEF WriteFile, code, TypeInv, JobTypes, SourceTypes, ViewTypes
<1> QED BY <1>1, <1>2 DEF Environment

LEMMA HandlerTypes == ASSUME TypeInv, HandlerStep PROVE TypeInv'
<1>0. /\ JobOK(Handler, job[Handler]) /\ Handler \in Procs /\ JobTypes
      /\ SourceTypes /\ ViewTypes
  BY Sets DEF TypeInv, JobTypes
<1>1. CASE HandleWrite
  <2> DEFINE f == Head(events).file
             j == IF AuthFileUnchanged(f) THEN Idle ELSE [at |-> "read", file |-> f]
  <2>1. f \in Files /\ Tail(events) \in Seq(Event)
    BY <1>0, <1>1, EventFacts DEF HandleWrite, SourceTypes
  <2>2. JobOK(Handler, j)
    BY <2>1, IdleIsOK DEF JobOK, HandlerPlaces, ReloaderPlaces, CallerPlaces, Dispatching,
       ReloadPlaces
  <2>3. Goto(Handler, j) /\ events' = Tail(events) /\ UNCHANGED <<disk, config, code>>
    BY <1>1 DEF HandleWrite
  <2> HIDE DEF j
  <2>4. JobTypes'
    BY <1>0, <2>2, <2>3, MovesOK
  <2> QED BY <1>0, <2>1, <2>3, <2>4 DEF code, TypeInv, SourceTypes, ViewTypes
<1>2. CASE HandleRemove
  <2> DEFINE f == Head(events).file
             j == [at |-> "stat", file |-> f]
  <2>1. f \in Files /\ Tail(events) \in Seq(Event)
    BY <1>0, <1>2, EventFacts DEF HandleRemove, SourceTypes
  <2>2. JobOK(Handler, j)
    BY <2>1 DEF JobOK, HandlerPlaces, ReloaderPlaces, CallerPlaces, Dispatching, ReloadPlaces
  <2>3. /\ UNCHANGED job \/ Goto(Handler, j)
        /\ events' = Tail(events)
        /\ UNCHANGED <<disk, config, hashes, known, current, runtime, sent>>
    BY <1>2 DEF HandleRemove
  <2> HIDE DEF j
  <2>4. JobTypes'
    <3>1. CASE UNCHANGED job
      BY <1>0, <3>1 DEF JobTypes
    <3> QED BY <1>0, <2>2, <2>3, <3>1, MovesOK
  <2> QED BY <1>0, <2>1, <2>3, <2>4 DEF TypeInv, SourceTypes, ViewTypes
<1>3. CASE StatFile \/ ReadFile
  <2> DEFINE f == job[Handler].file
  <2>1. f \in Files
    BY <1>0, <1>3 DEF StatFile, ReadFile, JobOK, HandlerPlaces
  <2>2. \E j : Goto(Handler, j) /\ JobOK(Handler, j)
    <3>1. JobOK(Handler, Idle)
      BY IdleIsOK
    <3>2. /\ JobOK(Handler, [at |-> "read", file |-> f])
          /\ JobOK(Handler, [at |-> "remove", file |-> f])
      BY <2>1 DEF JobOK, HandlerPlaces, ReloaderPlaces, CallerPlaces, Dispatching, ReloadPlaces
    <3>3. disk[f] \in Versions => JobOK(Handler, [at |-> "hash", file |-> f, data |-> disk[f]])
      BY <2>1 DEF JobOK, HandlerPlaces, ReloaderPlaces, CallerPlaces, Dispatching, ReloadPlaces
    <3> HIDE DEF f
    <3> QED BY <1>3, <3>1, <3>2, <3>3 DEF StatFile, ReadFile, f
  <2>3. JobTypes'
    BY <1>0, <2>2, MovesOK
  <2> QED BY <1>0, <1>3, <2>3 DEF StatFile, ReadFile, code, TypeInv, SourceTypes, ViewTypes
<1>4. CASE CheckHash
  <2> DEFINE f == job[Handler].file
             v == job[Handler].data
             j == IF hashes[f] = v THEN Idle ELSE [at |-> "commit", file |-> f, data |-> v]
  <2>1. f \in Files /\ v \in Versions
    BY <1>0, <1>4 DEF CheckHash, JobOK, HandlerPlaces
  <2>2. JobOK(Handler, j)
    BY <2>1, IdleIsOK DEF JobOK, HandlerPlaces, ReloaderPlaces, CallerPlaces, Dispatching,
       ReloadPlaces
  <2>3. Goto(Handler, j) /\ hashes' = [hashes EXCEPT ![f] = v]
    BY <1>4 DEF CheckHash
  <2> HIDE DEF j
  <2>4. JobTypes'
    BY <1>0, <2>2, <2>3, MovesOK
  <2> QED BY <1>0, <1>4, <2>1, <2>3, <2>4, Sets DEF CheckHash, TypeInv, SourceTypes, ViewTypes
<1>5. CASE CommitFile
  <2> DEFINE f == job[Handler].file
             v == job[Handler].data
             S == IF current[f] = v THEN {} ELSE {f}
             out == [i \in S |-> v]
  <2>1. f \in Files /\ v \in Versions
    BY <1>0, <1>5 DEF CommitFile, JobOK, HandlerPlaces
  <2>2. JobOK(Handler, ToDispatch(out))
    <3>1. DOMAIN out \subseteq Ids /\ \A i \in DOMAIN out : out[i] \in Val
      BY <2>1, Sets
    <3> QED BY <3>1, OutIsOK
  <2>3. Goto(Handler, ToDispatch(out)) /\ current' = [current EXCEPT ![f] = v]
        /\ known' = known \cup {f}
    BY <1>5 DEF CommitFile
  <2>4. JobTypes'
    BY <1>0, <2>2, <2>3, MovesOK
  <2> QED BY <1>0, <1>5, <2>1, <2>3, <2>4, Sets DEF CommitFile, TypeInv, SourceTypes, ViewTypes
<1>6. CASE RemoveClient
  <2> DEFINE f == job[Handler].file
             S == GoneWith(f)
             out == [i \in S |-> None]
  <2>1. f \in Files
    BY <1>0, <1>6 DEF RemoveClient, JobOK, HandlerPlaces
  <2>2. JobOK(Handler, ToDispatch(out))
    <3>1. DOMAIN out \subseteq Ids /\ \A i \in DOMAIN out : out[i] \in Val
      BY <2>1, Sets DEF GoneWith
    <3> QED BY <3>1, OutIsOK
  <2>3. /\ Goto(Handler, ToDispatch(out)) /\ known' = known \ {f}
        /\ current' = [i \in Ids |-> IF i \in S THEN None ELSE current[i]]
        /\ hashes' = [hashes EXCEPT ![f] = None]
    BY <1>6 DEF RemoveClient
  <2>4. JobTypes'
    BY <1>0, <2>2, <2>3, MovesOK
  <2> QED BY <1>0, <1>6, <2>1, <2>3, <2>4, Sets DEF RemoveClient, TypeInv, SourceTypes, ViewTypes
<1> QED BY <1>1, <1>2, <1>3, <1>4, <1>5, <1>6 DEF HandlerStep

LEMMA ReloaderTypes ==
    ASSUME TypeInv, NEW p \in Reloaders, ReloaderStep(p) PROVE TypeInv'
<1>0. /\ JobOK(p, job[p]) /\ p \in Procs /\ p # Handler /\ p \notin Callers /\ JobTypes
      /\ SourceTypes /\ ViewTypes
  BY Sets DEF TypeInv, JobTypes
<1>1. ASSUME NEW c \in [Keys -> Val], NEW affected \in {{}, Ids}, NEW force \in BOOLEAN,
             ReloadConfig(p, c, affected, force)
      PROVE  TypeInv'
  <2> DEFINE j == [at |-> IF affected = {} THEN "snapshot" ELSE "filter",
                   affected |-> affected, force |-> force]
  <2>1. JobOK(p, j)
    BY <1>0 DEF JobOK, HandlerPlaces, ReloaderPlaces, CallerPlaces, Dispatching
  <2>2. Goto(p, j)
    BY <1>1 DEF ReloadConfig
  <2> HIDE DEF j
  <2>3. JobTypes'
    BY <1>0, <2>1, <2>2, MovesOK
  <2> QED BY <1>0, <1>1, <2>3 DEF ReloadConfig, code, TypeInv, SourceTypes, ViewTypes
<1>2. CASE FilterView(p)
  <2> DEFINE j == [job[p] EXCEPT !.at = "snapshot"]
  <2>1. JobOK(p, j)
    <3>1. job[p] \in [at : {"filter", "snapshot"}, affected : SUBSET Ids, force : BOOLEAN]
      BY <1>0, <1>2 DEF FilterView, JobOK, ReloaderPlaces
    <3>2. /\ j \in [at : {"filter", "snapshot"}, affected : SUBSET Ids, force : BOOLEAN]
          /\ j.at = "snapshot"
      BY <3>1
    <3> HIDE DEF j
    <3> QED BY <1>0, <3>2 DEF JobOK, HandlerPlaces, ReloaderPlaces, CallerPlaces, Dispatching
  <2>2. Goto(p, j)
    BY <1>2 DEF FilterView
  <2> HIDE DEF j
  <2>3. JobTypes'
    BY <1>0, <2>1, <2>2, MovesOK
  <2> QED BY <1>0, <1>2, <2>3, Sets DEF FilterView, TypeInv, SourceTypes, ViewTypes
<1>3. CASE ScanFiles(p)
  <2> DEFINE j == [at |-> "scanned", seen |-> [f \in Files |-> Readable(f)]]
  <2>1. JobOK(p, j)
    BY <1>0, ReadableType DEF JobOK, HandlerPlaces, ReloaderPlaces, CallerPlaces, Dispatching
  <2>2. Goto(p, j)
    BY <1>3 DEF ScanFiles
  <2> HIDE DEF j
  <2>3. JobTypes'
    BY <1>0, <2>1, <2>2, MovesOK
  <2> QED BY <1>0, <1>3, <2>3 DEF ScanFiles, code, TypeInv, SourceTypes, ViewTypes
<1>4. CASE ReplaceCache(p)
  <2> DEFINE j == [at |-> "snapshot", affected |-> {}, force |-> FALSE]
  <2>1. JobOK(p, j)
    BY <1>0 DEF JobOK, HandlerPlaces, ReloaderPlaces, CallerPlaces, Dispatching
  <2>2. Goto(p, j) /\ job[p].seen \in [Files -> Val]
    BY <1>0, <1>4 DEF ReplaceCache, JobOK, ReloaderPlaces
  <2> HIDE DEF j
  <2>3. JobTypes'
    BY <1>0, <2>1, <2>2, MovesOK
  <2> QED BY <1>0, <1>4, <2>2, <2>3 DEF ReplaceCache, TypeInv, SourceTypes, ViewTypes
<1>5. CASE SnapshotCoreAuths(p)
  <2> DEFINE j == [at |-> "refresh", force |-> job[p].force,
                   view |-> [i \in Files \cup Keys |->
                                IF i \in Files THEN Readable(i) ELSE config[i]]]
  <2>1. JobOK(p, j)
    BY <1>0, ReadableType DEF JobOK, HandlerPlaces, ReloaderPlaces, CallerPlaces, Dispatching,
       SourceTypes
  <2>2. Goto(p, j)
    BY <1>5 DEF SnapshotCoreAuths
  <2> HIDE DEF j
  <2>3. JobTypes'
    BY <1>0, <2>1, <2>2, MovesOK
  <2> QED BY <1>0, <1>5, <2>3 DEF SnapshotCoreAuths, code, TypeInv, SourceTypes, ViewTypes
<1>6. CASE RefreshAuthState(p)
  <2> DEFINE S == Difference(NewState(p), job[p].force)
             out == [i \in S |-> NewState(p)[i]]
  <2>1. NewState(p) \in [Ids -> Val]
    BY <1>0, <1>6, Sets DEF RefreshAuthState, JobOK, ReloaderPlaces, NewState, SourceTypes
  <2>2. S \subseteq Ids
    BY DEF Difference, AddedOrModified
  <2>3. JobOK(p, ToDispatch(out))
    <3>1. DOMAIN out \subseteq Ids /\ \A i \in DOMAIN out : out[i] \in Val
      <4> HIDE DEF S
      <4> QED BY <2>1, <2>2
    <3> QED BY <3>1, OutIsOK
  <2>4. Goto(p, ToDispatch(out)) /\ current' = NewState(p)
    BY <1>6 DEF RefreshAuthState
  <2>5. JobTypes'
    BY <1>0, <2>3, <2>4, MovesOK
  <2> QED BY <1>0, <1>6, <2>1, <2>4, <2>5 DEF RefreshAuthState, TypeInv, SourceTypes, ViewTypes
<1> QED BY <1>1, <1>2, <1>3, <1>4, <1>5, <1>6 DEF ReloaderStep

LEMMA CallerTypes ==
    ASSUME TypeInv, NEW p \in Callers, CallerStep(p) PROVE TypeInv'
<1>0. /\ JobOK(p, job[p]) /\ p \in Procs /\ p # Handler /\ p \notin Reloaders /\ JobTypes
      /\ SourceTypes /\ ViewTypes
  BY Sets DEF TypeInv, JobTypes
<1>1. ASSUME NEW c \in Channels, NEW v \in Val, RuntimeUpdate(p, c, v) PROVE TypeInv'
  <2> DEFINE out == [i \in {c} |-> v]
  <2>1. DOMAIN out \subseteq Ids /\ \A i \in DOMAIN out : out[i] \in Val
    BY Sets
  <2>2. JobOK(p, ToDispatch(out))
    BY <2>1, OutIsOK
  <2>3. Goto(p, ToDispatch(out))
    BY <1>1 DEF RuntimeUpdate
  <2>4. JobTypes'
    BY <1>0, <2>2, <2>3, MovesOK
  <2> QED BY <1>0, <1>1, <2>4, Sets DEF RuntimeUpdate, TypeInv, SourceTypes, ViewTypes
<1>2. ASSUME NEW f \in Files, NEW v \in Versions, SaveAuth(p, f, v) PROVE TypeInv'
  <2> DEFINE j == [at |-> "persisted", file |-> f, data |-> v]
  <2>1. JobOK(p, j)
    BY <1>0 DEF JobOK, HandlerPlaces, ReloaderPlaces, CallerPlaces, Dispatching, ReloadPlaces
  <2>2. Goto(p, j)
    BY <1>2 DEF SaveAuth
  <2> HIDE DEF j
  <2>3. JobTypes'
    BY <1>0, <2>1, <2>2, MovesOK
  <2>4. [file |-> f, gone |-> FALSE] \in Event
    BY DEF Event
  <2>5. events' \in Seq(Event) /\ disk' \in [Files -> Val \cup {Torn}]
    <3> HIDE DEF Event
    <3> QED BY <1>0, <1>2, <2>4, Sets DEF SaveAuth, SourceTypes
  <2> QED BY <1>0, <1>2, <2>3, <2>5 DEF SaveAuth, code, TypeInv, SourceTypes, ViewTypes
<1>3. CASE PersistedUpdate(p)
  <2> DEFINE f == job[p].file
             v == job[p].data
             out == [i \in {f} |-> v]
  <2>1. f \in Files /\ v \in Versions
    BY <1>0, <1>3 DEF PersistedUpdate, JobOK, CallerPlaces
  <2>2. JobOK(p, ToDispatch(out))
    <3>1. DOMAIN out \subseteq Ids /\ \A i \in DOMAIN out : out[i] \in Val
      BY <2>1, Sets
    <3> QED BY <3>1, OutIsOK
  <2>3. Goto(p, ToDispatch(out))
    BY <1>3 DEF PersistedUpdate
  <2>4. JobTypes'
    BY <1>0, <2>2, <2>3, MovesOK
  <2> QED BY <1>0, <1>3, <2>1, <2>4, Sets DEF PersistedUpdate, TypeInv, SourceTypes, ViewTypes
<1> QED BY <1>1, <1>2, <1>3 DEF CallerStep

LEMMA DispatchTypes ==
    ASSUME TypeInv, NEW p \in Procs, DispatchAuthUpdates(p) PROVE TypeInv'
<1>1. JobTypes'
  BY IdleIsOK, MovesOK DEF DispatchAuthUpdates, TypeInv
<1>2. sent' \in [Ids -> Val]
  BY DEF DispatchAuthUpdates, TypeInv, ViewTypes, JobTypes, JobOK, Dispatching, OnTheWay
<1> QED BY <1>1, <1>2 DEF DispatchAuthUpdates, TypeInv, SourceTypes, ViewTypes

LEMMA NextTypes == ASSUME TypeInv, [WatcherNext]_watcherVars PROVE TypeInv'
<1>1. CASE UNCHANGED watcherVars
  BY <1>1 DEF watcherVars, code, history, TypeInv, JobTypes, SourceTypes, ViewTypes
<1> QED BY <1>1, NextSteps, EnvironmentTypes, HandlerTypes, ReloaderTypes, CallerTypes,
           DispatchTypes

-----------------------------------------------------------------------------
(* Reloads                                                                  *)

\* Somebody is going to make the view what it reads of the sources.
Reloading == \E p \in Reloaders : job[p].at \in ReloadPlaces

Others(p) == \A q \in Procs \ {p} : job'[q] = job[q]

LEMMA HandlerMoves ==
    ASSUME TypeInv, HandlerStep
    PROVE  Others(Handler) /\ job[Handler].at # "dispatch"
<1>1. \/ UNCHANGED job /\ job[Handler] = Idle
      \/ \E j : Goto(Handler, j) /\ job[Handler].at # "dispatch"
  BY DEF HandlerStep, HandleWrite, HandleRemove, StatFile, ReadFile, CheckHash, CommitFile,
         RemoveClient, Idle
<1>2. DOMAIN job = Procs /\ Handler \in Procs
  BY Sets DEF TypeInv, JobTypes
<1>3. CASE UNCHANGED job /\ job[Handler] = Idle
  BY <1>3 DEF Others, Idle
<1>4. ASSUME NEW j, Goto(Handler, j), job[Handler].at # "dispatch"
      PROVE  Others(Handler) /\ job[Handler].at # "dispatch"
  BY <1>2, <1>4, Moves DEF Others
<1> QED BY <1>1, <1>3, <1>4

LEMMA ReloaderMoves ==
    ASSUME TypeInv, NEW p \in Reloaders, ReloaderStep(p)
    PROVE  /\ Others(p) /\ job[p].at # "dispatch"
           /\ RefreshAuthState(p) \/ job'[p].at \in ReloadPlaces
<1>1. DOMAIN job = Procs /\ p \in Procs
  BY Sets DEF TypeInv, JobTypes
<1>2. CASE RefreshAuthState(p)
  BY <1>1, <1>2, Moves DEF RefreshAuthState, Others
<1>3. CASE ~RefreshAuthState(p)
  <2>1. PICK j : Goto(p, j) /\ j.at \in ReloadPlaces /\ job[p].at # "dispatch"
    <3>1. ASSUME NEW c, NEW affected, NEW force, ReloadConfig(p, c, affected, force)
          PROVE  \E j : Goto(p, j) /\ j.at \in ReloadPlaces /\ job[p].at # "dispatch"
      <4> DEFINE j == [at |-> IF affected = {} THEN "snapshot" ELSE "filter",
                       affected |-> affected, force |-> force]
      <4>1. Goto(p, j) /\ job[p].at # "dispatch"
        BY <3>1 DEF ReloadConfig, Idle
      <4>2. j.at \in ReloadPlaces
        BY DEF ReloadPlaces
      <4> QED BY <4>1, <4>2
    <3>2. CASE FilterView(p)
      <4>1. job[p] \in [at : {"filter", "snapshot"}, affected : SUBSET Ids, force : BOOLEAN]
        BY <1>1, <3>2 DEF FilterView, TypeInv, JobTypes, JobOK, ReloaderPlaces
      <4> DEFINE j == [job[p] EXCEPT !.at = "snapshot"]
      <4>2. j.at \in ReloadPlaces
        BY <4>1 DEF ReloadPlaces
      <4>3. Goto(p, j) /\ job[p].at # "dispatch"
        BY <3>2 DEF FilterView
      <4> QED BY <4>2, <4>3
    <3>3. CASE ScanFiles(p) \/ ReplaceCache(p) \/ SnapshotCoreAuths(p)
      BY <3>3 DEF ScanFiles, ReplaceCache, SnapshotCoreAuths, ReloadPlaces
    <3> QED BY <1>3, <3>1, <3>2, <3>3 DEF ReloaderStep
  <2>2. j.at # "dispatch"
    BY <2>1 DEF ReloadPlaces
  <2> QED BY <1>1, <2>1, <2>2, Moves DEF Others
<1> QED BY <1>2, <1>3

LEMMA CallerMoves ==
    ASSUME TypeInv, NEW p \in Callers, CallerStep(p)
    PROVE  Others(p) /\ job[p].at # "dispatch"
<1>1. DOMAIN job = Procs /\ p \in Procs
  BY Sets DEF TypeInv, JobTypes
<1>2. PICK j : Goto(p, j) /\ job[p].at # "dispatch"
  <2>1. ASSUME NEW c, NEW v, RuntimeUpdate(p, c, v)
        PROVE  \E j : Goto(p, j) /\ job[p].at # "dispatch"
    BY <2>1 DEF RuntimeUpdate, Idle
  <2>2. ASSUME NEW f, NEW v, SaveAuth(p, f, v)
        PROVE  \E j : Goto(p, j) /\ job[p].at # "dispatch"
    BY <2>2 DEF SaveAuth, Idle
  <2>3. CASE PersistedUpdate(p)
    BY <2>3 DEF PersistedUpdate
  <2> QED BY <2>1, <2>2, <2>3 DEF CallerStep
<1> QED BY <1>1, <1>2, Moves DEF Others

LEMMA DispatchMoves ==
    ASSUME TypeInv, NEW p \in Procs, DispatchAuthUpdates(p)
    PROVE  Others(p) /\ job'[p] = Idle
<1>1. DOMAIN job = Procs
  BY DEF TypeInv, JobTypes
<1>2. Goto(p, Idle) /\ Idle.at # "dispatch"
  BY DEF DispatchAuthUpdates, Idle
<1> QED BY <1>1, <1>2, Moves DEF Others

\* A reload goes on until its refresh.
LEMMA ReloadGoesOn ==
    ASSUME TypeInv, WatcherNext, Reloading, \A p \in Reloaders : ~RefreshAuthState(p)
    PROVE  Reloading'
<1>1. PICK r \in Reloaders : job[r].at \in ReloadPlaces
  BY DEF Reloading
<1>2. r \in Procs
  BY Sets
<1>3. job'[r] = job[r] \/ job'[r].at \in ReloadPlaces
  <2>1. CASE Environment
    BY <2>1 DEF Environment, WindowPasses, WriteFile
  <2>2. CASE HandlerStep
    BY <1>2, <2>2, HandlerMoves, Sets DEF Others
  <2>3. ASSUME NEW p \in Reloaders, ReloaderStep(p)
        PROVE  job'[r] = job[r] \/ job'[r].at \in ReloadPlaces
    BY <1>2, <2>3, ReloaderMoves DEF Others
  <2>4. ASSUME NEW p \in Callers, CallerStep(p) PROVE job'[r] = job[r]
    BY <1>2, <2>4, CallerMoves, Sets DEF Others
  <2>5. ASSUME NEW p \in Procs, DispatchAuthUpdates(p) PROVE job'[r] = job[r]
    <3>1. p # r
      BY <1>1, <2>5 DEF DispatchAuthUpdates, ReloadPlaces
    <3> QED BY <1>2, <2>5, <3>1, DispatchMoves DEF Others
  <2> QED BY <2>1, <2>2, <2>3, <2>4, <2>5, NextSteps
<1> QED BY <1>1, <1>3 DEF Reloading

LEMMA QuietMeansLoaded ==
    ASSUME NEW i, Quiet(i) PROVE ~Reloading
<1>1. \A p \in Reloaders : job[p].at \notin ReloadPlaces
  BY Sets DEF Quiet, ReloadPlaces
<1> QED BY <1>1 DEF Reloading

LEMMA InitReloading == WatcherInit => Reloading
BY Sets DEF WatcherInit, Reloading, ReloadPlaces

-----------------------------------------------------------------------------
(* The view and the channels                                                *)

RuntimeOK == \A c \in Channels : Reloading \/ current[c] = runtime[c]

LEMMA NextRuntime == ASSUME TypeInv, RuntimeOK, [WatcherNext]_watcherVars PROVE RuntimeOK'
<1>0. ViewTypes /\ JobTypes /\ SourceTypes
  BY DEF TypeInv
<1>1. CASE UNCHANGED watcherVars
  BY <1>1 DEF watcherVars, code, RuntimeOK, Reloading
<1>2. ASSUME NEW p \in Reloaders, RefreshAuthState(p) PROVE RuntimeOK'
  <2>1. \A c \in Channels : current'[c] = runtime[c]
    BY <1>2, Sets DEF RefreshAuthState, NewState
  <2> QED BY <1>2, <2>1 DEF RefreshAuthState, RuntimeOK
<1>3. ASSUME WatcherNext, \A p \in Reloaders : ~RefreshAuthState(p) PROVE RuntimeOK'
  <2>1. CASE Reloading
    BY <1>3, <2>1, ReloadGoesOn DEF RuntimeOK
  <2>2. CASE ~Reloading
    <3>1. \A c \in Channels : current[c] = runtime[c]
      BY <2>2 DEF RuntimeOK
    <3>2. \A c \in Channels : current'[c] = runtime'[c]
      <4>1. CASE Environment
        BY <3>1, <4>1 DEF Environment, WindowPasses, WriteFile, code
      <4>2. CASE HandlerStep
        <5>1. CASE CommitFile
          <6>1. job[Handler].file \in Files
            BY <1>0, <5>1, Sets DEF CommitFile, JobTypes, JobOK, HandlerPlaces
          <6> QED BY <1>0, <3>1, <5>1, <6>1, Sets DEF CommitFile, ViewTypes
        <5>2. CASE RemoveClient
          <6>1. job[Handler].file \in Files
            BY <1>0, <5>2, Sets DEF RemoveClient, JobTypes, JobOK, HandlerPlaces
          <6> QED BY <1>0, <3>1, <5>2, <6>1, Sets DEF RemoveClient, GoneWith
        <5> QED BY <3>1, <4>2, <5>1, <5>2 DEF HandlerStep, HandleWrite, HandleRemove, StatFile,
                   ReadFile, CheckHash, code
      <4>3. ASSUME NEW p \in Reloaders, ReloaderStep(p)
            PROVE  \A c \in Channels : current'[c] = runtime'[c]
        <5>1. ~FilterView(p)
          BY <2>2 DEF FilterView, Reloading, ReloadPlaces
        <5> QED BY <1>3, <3>1, <4>3, <5>1 DEF ReloaderStep, ReloadConfig, ScanFiles,
                   ReplaceCache, SnapshotCoreAuths, code
      <4>4. ASSUME NEW p \in Callers, CallerStep(p)
            PROVE  \A c \in Channels : current'[c] = runtime'[c]
        <5>1. ASSUME NEW c \in Channels, NEW v \in Val, RuntimeUpdate(p, c, v)
              PROVE  \A d \in Channels : current'[d] = runtime'[d]
          BY <1>0, <3>1, <5>1, Sets DEF RuntimeUpdate, ViewTypes, SourceTypes
        <5>2. ASSUME NEW f \in Files, NEW v \in Versions, SaveAuth(p, f, v)
              PROVE  \A d \in Channels : current'[d] = runtime'[d]
          BY <3>1, <5>2 DEF SaveAuth, code
        <5>3. CASE PersistedUpdate(p)
          <6>1. job[p].file \in Files
            BY <1>0, <5>3, Sets DEF PersistedUpdate, JobTypes, JobOK, CallerPlaces
          <6> QED BY <1>0, <3>1, <5>3, <6>1, Sets DEF PersistedUpdate, ViewTypes
        <5> QED BY <4>4, <5>1, <5>2, <5>3 DEF CallerStep
      <4>5. ASSUME NEW p \in Procs, DispatchAuthUpdates(p)
            PROVE  \A c \in Channels : current'[c] = runtime'[c]
        BY <3>1, <4>5 DEF DispatchAuthUpdates
      <4> QED BY <1>3, <4>1, <4>2, <4>3, <4>4, <4>5, NextSteps
    <3> QED BY <3>2 DEF RuntimeOK
  <2> QED BY <2>1, <2>2
<1> QED BY <1>1, <1>2, <1>3

\* No reload brings a channel back that has gone meanwhile, nor drops one that
\* has come, however many reloads and calls are under way.
THEOREM RuntimeFollows == WatcherSpec => []ViewMirrorsRuntime
<1>1. WatcherInit => RuntimeOK
  BY InitReloading DEF RuntimeOK
<1>2. RuntimeOK => ViewMirrorsRuntime
  BY QuietMeansLoaded DEF RuntimeOK, ViewMirrorsRuntime
<1> QED BY <1>1, <1>2, InitTypes, NextTypes, NextRuntime, PTL DEF WatcherSpec

-----------------------------------------------------------------------------
(* The view and what was handed over                                        *)

\* v is what the view says, or a reload is about to compare with it again.
Told(i, v) == v = current[i] \/ (current[i] = None /\ Reloading)

\* Of a credential whose updates did not cross at most one goroutine carries an
\* update, and that one, or else the last one sent, is what the view says.
SentOf(i) ==
    /\ \A p, q \in Procs : i \in OnTheWay(p) /\ i \in OnTheWay(q) => p = q
    /\ \A p \in Procs : i \in OnTheWay(p) => Told(i, job[p].out[i])
    /\ (\A p \in Procs : i \notin OnTheWay(p)) => Told(i, sent[i])

SentOK == \A i \in Ids \ (crossed \cup unreported) : SentOf(i)

\* A goroutine commits updates of S and is going to hand them over.
LEMMA CommitStep ==
    ASSUME SentOK, NEW p \in Procs, NEW S \in SUBSET Ids, Reloading => Reloading',
           Others(p), OnTheWay(p) = {}, OnTheWay(p)' = S, UNCHANGED sent,
           \A i \in S : job'[p].out[i] = current'[i],
           \A i \in Ids \ S : current'[i] = current[i],
           Committing(p, S)
    PROVE  SentOK'
<1> SUFFICES ASSUME NEW i \in Ids, i \notin crossed', i \notin unreported'
             PROVE  SentOf(i)'
  BY DEF SentOK
<1>1. \A q \in Procs \ {p} : OnTheWay(q)' = OnTheWay(q)
  BY DEF Others, OnTheWay
<1>2. CASE i \in S
  <2>1. \A q \in Procs \ {p} : i \notin OnTheWay(q)'
    BY <1>1, <1>2 DEF Committing
  <2> QED BY <1>2, <2>1 DEF SentOf, Told
<1>3. CASE i \notin S
  <2>1. i \notin crossed /\ i \notin unreported
    BY <1>3 DEF Committing
  <2>2. SentOf(i) /\ current'[i] = current[i]
    BY <1>3, <2>1 DEF SentOK
  <2>3. \A v : Told(i, v) => Told(i, v)'
    BY <2>2 DEF Told
  <2>4. \A q \in Procs : i \in OnTheWay(q)' => i \in OnTheWay(q) /\ job'[q] = job[q]
    BY <1>1, <1>3 DEF Others
  <2>5. \A q \in Procs : i \in OnTheWay(q) => i \in OnTheWay(q)'
    BY <1>1
  <2> QED BY <2>2, <2>3, <2>4, <2>5 DEF SentOf
<1> QED BY <1>2, <1>3

\* Nothing of the kind happens.
LEMMA StillStep ==
    ASSUME SentOK, NEW p \in Procs, Reloading => Reloading', Others(p),
           OnTheWay(p) = {}, OnTheWay(p)' = {}, UNCHANGED <<sent, crossed, unreported>>,
           \A i \in Ids : \/ current'[i] = current[i]
                          \/ current'[i] = None /\ Reloading'
    PROVE  SentOK'
<1> SUFFICES ASSUME NEW i \in Ids \ (crossed \cup unreported) PROVE SentOf(i)'
  BY DEF SentOK
<1>1. \A q \in Procs : OnTheWay(q)' = OnTheWay(q)
  BY DEF Others, OnTheWay
<1>2. \A v : Told(i, v) => Told(i, v)'
  BY DEF Told
<1>3. \A q \in Procs : i \in OnTheWay(q)' => i \in OnTheWay(q) /\ job'[q] = job[q]
  BY <1>1 DEF Others
<1> QED BY <1>1, <1>2, <1>3 DEF SentOK, SentOf

LEMMA NotOnTheWay ==
    ASSUME NEW p, job[p].at # "dispatch" PROVE OnTheWay(p) = {}
BY DEF OnTheWay

LEMMA NotOnTheWayNext ==
    ASSUME NEW p, job'[p].at # "dispatch" PROVE OnTheWay(p)' = {}
BY DEF OnTheWay

\* The steps of the handler that commit no update.
HandlerLooks == HandleWrite \/ HandleRemove \/ StatFile \/ ReadFile \/ CheckHash

LEMMA LooksOn ==
    ASSUME TypeInv, HandlerLooks PROVE job'[Handler].at # "dispatch"
<1>1. \/ UNCHANGED job /\ job[Handler] = Idle
      \/ \E j : Goto(Handler, j) /\ j.at # "dispatch"
  <2>1. CASE HandleWrite \/ HandleRemove
    BY <2>1 DEF HandleWrite, HandleRemove, Idle
  <2>2. CASE StatFile \/ ReadFile
    BY <2>2 DEF StatFile, ReadFile, Idle
  <2>3. CASE CheckHash
    BY <2>3 DEF CheckHash, Idle
  <2> QED BY <2>1, <2>2, <2>3 DEF HandlerLooks
<1>2. DOMAIN job = Procs /\ Handler \in Procs
  BY Sets DEF TypeInv, JobTypes
<1>3. CASE UNCHANGED job /\ job[Handler] = Idle
  BY <1>3 DEF Idle
<1>4. ASSUME NEW j, Goto(Handler, j), j.at # "dispatch" PROVE job'[Handler].at # "dispatch"
  BY <1>2, <1>4, Moves
<1> QED BY <1>1, <1>3, <1>4

LEMMA HandlerSent ==
    ASSUME TypeInv, SentOK, HandlerStep, Reloading => Reloading' PROVE SentOK'
<1>0. /\ ViewTypes /\ JobOK(Handler, job[Handler]) /\ Handler \in Procs
      /\ DOMAIN job = Procs /\ Others(Handler) /\ OnTheWay(Handler) = {}
  BY Sets, HandlerMoves, NotOnTheWay DEF TypeInv, JobTypes
<1>1. CASE HandlerLooks
  <2>1. UNCHANGED <<current, sent, crossed, unreported>>
    BY <1>1 DEF HandlerLooks, HandleWrite, HandleRemove, StatFile, ReadFile, CheckHash, code,
       history
  <2>2. OnTheWay(Handler)' = {}
    BY <1>1, LooksOn, NotOnTheWayNext
  <2> QED BY <1>0, <2>1, <2>2, StillStep
<1>2. CASE CommitFile
  <2> DEFINE f == job[Handler].file
             v == job[Handler].data
             S == IF current[f] = v THEN {} ELSE {f}
             out == [i \in S |-> v]
  <2>1. f \in Ids /\ S \in SUBSET Ids
    BY <1>0, <1>2, Sets DEF CommitFile, JobOK, HandlerPlaces
  <2>2. /\ Goto(Handler, ToDispatch(out)) /\ current' = [current EXCEPT ![f] = v]
        /\ Committing(Handler, S) /\ UNCHANGED sent
    BY <1>2 DEF CommitFile
  <2>3. /\ OnTheWay(Handler)' = DOMAIN out
        /\ DOMAIN out # {} => job'[Handler].out = out
    BY <1>0, <2>2, GoesToDispatch
  <2>4. /\ \A i \in S : job'[Handler].out[i] = current'[i]
        /\ \A i \in Ids \ S : current'[i] = current[i]
    BY <1>0, <2>1, <2>2, <2>3 DEF ViewTypes
  <2>5. OnTheWay(Handler)' = S
    BY <2>3
  <2> HIDE DEF S
  <2> QED BY <1>0, <2>1, <2>2, <2>4, <2>5, CommitStep
<1>3. CASE RemoveClient
  <2> DEFINE f == job[Handler].file
             S == GoneWith(f)
             out == [i \in S |-> None]
  <2>1. S \in SUBSET Ids
    BY <1>0, <1>3, Sets DEF RemoveClient, JobOK, HandlerPlaces, GoneWith
  <2>2. /\ Goto(Handler, ToDispatch(out)) /\ Committing(Handler, S) /\ UNCHANGED sent
        /\ current' = [i \in Ids |-> IF i \in S THEN None ELSE current[i]]
    BY <1>3 DEF RemoveClient
  <2>3. /\ OnTheWay(Handler)' = DOMAIN out
        /\ DOMAIN out # {} => job'[Handler].out = out
    BY <1>0, <2>2, GoesToDispatch
  <2>4. /\ \A i \in S : job'[Handler].out[i] = current'[i]
        /\ \A i \in Ids \ S : current'[i] = current[i]
    BY <1>0, <2>1, <2>2, <2>3
  <2>5. OnTheWay(Handler)' = S
    BY <2>3
  <2> HIDE DEF S
  <2> QED BY <1>0, <2>1, <2>2, <2>4, <2>5, CommitStep
<1> QED BY <1>1, <1>2, <1>3 DEF HandlerStep, HandlerLooks

LEMMA CallerSent ==
    ASSUME TypeInv, SentOK, NEW p \in Callers, CallerStep(p), Reloading => Reloading'
    PROVE  SentOK'
<1>0. /\ ViewTypes /\ JobOK(p, job[p]) /\ p \in Procs
      /\ DOMAIN job = Procs /\ Others(p) /\ OnTheWay(p) = {}
  BY Sets, CallerMoves, NotOnTheWay DEF TypeInv, JobTypes
\* A channel and a persisted file commit the update of one credential.
<1>1. ASSUME NEW i \in Ids, NEW v, Goto(p, ToDispatch([k \in {i} |-> v])), UNCHANGED sent,
             current' = [current EXCEPT ![i] = v], Committing(p, {i})
      PROVE  SentOK'
  <2> DEFINE out == [k \in {i} |-> v]
  <2>1. OnTheWay(p)' = DOMAIN out /\ job'[p].out = out
    BY <1>0, <1>1, GoesToDispatch
  <2>2. /\ \A k \in {i} : job'[p].out[k] = current'[k]
        /\ \A k \in Ids \ {i} : current'[k] = current[k]
    BY <1>0, <1>1, <2>1 DEF ViewTypes
  <2>3. OnTheWay(p)' = {i} /\ {i} \in SUBSET Ids
    BY <2>1
  <2> QED BY <1>0, <1>1, <2>2, <2>3, CommitStep
<1>2. ASSUME NEW c \in Channels, NEW v \in Val, RuntimeUpdate(p, c, v) PROVE SentOK'
  <2>1. Goto(p, ToDispatch([k \in {c} |-> v])) /\ Committing(p, {c})
    BY <1>2 DEF RuntimeUpdate
  <2>2. current' = [current EXCEPT ![c] = v] /\ UNCHANGED sent /\ c \in Ids
    BY <1>2, Sets DEF RuntimeUpdate
  <2> QED BY <1>1, <2>1, <2>2
<1>3. ASSUME NEW f \in Files, NEW v \in Versions, SaveAuth(p, f, v) PROVE SentOK'
  <2> DEFINE j == [at |-> "persisted", file |-> f, data |-> v]
  <2>1. Goto(p, j) /\ UNCHANGED <<current, sent, crossed, unreported>>
    BY <1>3 DEF SaveAuth, code, history
  <2>2. j.at # "dispatch"
    OBVIOUS
  <2> HIDE DEF j
  <2>3. job'[p].at # "dispatch"
    BY <1>0, <2>1, <2>2, Moves
  <2>4. OnTheWay(p)' = {}
    BY <2>3, NotOnTheWayNext
  <2> QED BY <1>0, <2>1, <2>4, StillStep
<1>4. CASE PersistedUpdate(p)
  <2> DEFINE f == job[p].file
             v == job[p].data
  <2>1. f \in Ids
    BY <1>0, <1>4, Sets DEF PersistedUpdate, JobOK, CallerPlaces
  <2>2. Goto(p, ToDispatch([k \in {f} |-> v])) /\ Committing(p, {f})
    BY <1>4 DEF PersistedUpdate
  <2>3. current' = [current EXCEPT ![f] = v] /\ UNCHANGED sent
    BY <1>4 DEF PersistedUpdate
  <2> HIDE DEF f, v
  <2> QED BY <1>1, <2>1, <2>2, <2>3
<1> QED BY <1>2, <1>3, <1>4 DEF CallerStep

\* A refresh compares with the view, whatever that has become: where it finds
\* no difference the last update is the one that led there.
LEMMA RefreshSent ==
    ASSUME TypeInv, SentOK, NEW p \in Reloaders, RefreshAuthState(p) PROVE SentOK'
<1> DEFINE new == NewState(p)
           S == Difference(new, job[p].force)
           out == [i \in S |-> new[i]]
           others == UNION {OnTheWay(q) : q \in Procs \ {p}}
<1>0. /\ p \in Procs /\ DOMAIN job = Procs /\ Others(p) /\ job[p].at # "dispatch"
  BY Sets, ReloaderMoves DEF TypeInv, JobTypes, ReloaderStep
<1>1. /\ current' = new /\ Goto(p, ToDispatch(out)) /\ UNCHANGED sent
      /\ crossed' = (crossed \ S) \cup (S \cap others)
      /\ \A i \in Ids : new[i] = None /\ ~Had(i) /\ (sent[i] # None \/ i \in others)
                          => i \in unreported'
      /\ unreported \ S \subseteq unreported'
  BY DEF RefreshAuthState
<1>2. OnTheWay(p)' = DOMAIN out /\ (DOMAIN out # {} => job'[p].out = out)
  BY <1>0, <1>1, GoesToDispatch
<1>3. \A q \in Procs \ {p} : OnTheWay(q)' = OnTheWay(q) /\ job'[q] = job[q]
  BY <1>0 DEF Others, OnTheWay
<1>4. \A i \in S : job'[p].out[i] = current'[i]
  <2> HIDE DEF S, new
  <2> QED BY <1>1, <1>2
<1>5. \A i \in Ids \ S : \/ new[i] # None /\ current[i] = new[i]
                         \/ new[i] = None /\ ~Had(i)
  BY DEF Difference, AddedOrModified, Had
<1> HIDE DEF S, new
<1> SUFFICES ASSUME NEW i \in Ids, i \notin crossed', i \notin unreported'
             PROVE  SentOf(i)'
  BY DEF SentOK
<1>6. CASE i \in S
  <2>1. \A q \in Procs \ {p} : i \notin OnTheWay(q)'
    BY <1>1, <1>3, <1>6
  <2>2. i \in OnTheWay(p)'
    BY <1>2, <1>6
  <2>3. Told(i, job[p].out[i])'
    BY <1>4, <1>6 DEF Told
  <2> QED BY <1>0, <2>1, <2>2, <2>3 DEF SentOf
<1>7. CASE i \notin S
  <2>1. SentOf(i) /\ i \notin OnTheWay(p)'
    BY <1>1, <1>2, <1>7 DEF SentOK
  <2>2. CASE new[i] # None /\ current[i] = new[i]
    <3>1. \A v : Told(i, v) => Told(i, v)'
      BY <1>1, <2>2 DEF Told
    <3>2. i \notin OnTheWay(p)
      BY <1>0, NotOnTheWay
    <3> QED BY <1>1, <1>3, <2>1, <3>1, <3>2 DEF SentOf
  <2>3. CASE new[i] = None /\ ~Had(i)
    <3>1. sent[i] = None /\ i \notin others
      BY <1>1, <2>3
    <3>2. \A q \in Procs : i \notin OnTheWay(q)'
      BY <1>3, <2>1, <3>1
    <3> QED BY <1>1, <2>3, <3>1, <3>2 DEF SentOf, Told
  <2> QED BY <1>5, <1>7, <2>2, <2>3
<1> QED BY <1>6, <1>7

LEMMA NextSent == ASSUME TypeInv, SentOK, [WatcherNext]_watcherVars PROVE SentOK'
<1>1. CASE UNCHANGED watcherVars
  BY <1>1 DEF watcherVars, code, history, SentOK, SentOf, OnTheWay, Told, Reloading
<1>2. ASSUME NEW p \in Reloaders, RefreshAuthState(p) PROVE SentOK'
  BY <1>2, RefreshSent
<1>3. ASSUME WatcherNext, \A p \in Reloaders : ~RefreshAuthState(p) PROVE SentOK'
  <2>0. Reloading => Reloading'
    BY <1>3, ReloadGoesOn
  <2>1. CASE Environment
    BY <2>1 DEF Environment, WindowPasses, WriteFile, code, history, SentOK, SentOf, OnTheWay,
       Told, Reloading
  <2>2. CASE HandlerStep
    BY <2>0, <2>2, HandlerSent
  <2>3. ASSUME NEW p \in Reloaders, ReloaderStep(p) PROVE SentOK'
    <3>1. /\ p \in Procs /\ Others(p) /\ job[p].at # "dispatch" /\ job'[p].at \in ReloadPlaces
      BY <1>3, <2>3, ReloaderMoves, Sets
    <3>2. OnTheWay(p) = {} /\ OnTheWay(p)' = {} /\ Reloading'
      BY <2>3, <3>1, NotOnTheWay, NotOnTheWayNext DEF Reloading, ReloadPlaces
    <3>3. UNCHANGED <<sent, crossed, unreported>>
      BY <1>3, <2>3 DEF ReloaderStep, ReloadConfig, FilterView, ScanFiles, ReplaceCache,
         SnapshotCoreAuths, code, history
    <3>4. \A i \in Ids : current'[i] = current[i] \/ current'[i] = None
      BY <1>3, <2>3 DEF ReloaderStep, ReloadConfig, FilterView, ScanFiles, ReplaceCache,
         SnapshotCoreAuths, code
    <3> QED BY <3>1, <3>2, <3>3, <3>4, StillStep
  <2>4. ASSUME NEW p \in Callers, CallerStep(p) PROVE SentOK'
    BY <2>0, <2>4, CallerSent
  <2>5. ASSUME NEW p \in Procs, DispatchAuthUpdates(p) PROVE SentOK'
    <3>1. Others(p) /\ job'[p] = Idle
      BY <2>5, DispatchMoves
    <3>2. /\ \A i \in Ids : sent'[i] = IF i \in OnTheWay(p) THEN job[p].out[i] ELSE sent[i]
          /\ UNCHANGED <<current, crossed, unreported>>
      BY <2>5 DEF DispatchAuthUpdates, history
    <3>3. /\ \A q \in Procs \ {p} : OnTheWay(q)' = OnTheWay(q) /\ job'[q] = job[q]
          /\ OnTheWay(p)' = {}
      BY <3>1 DEF Others, OnTheWay, Idle
    <3> SUFFICES ASSUME NEW i \in Ids \ (crossed \cup unreported) PROVE SentOf(i)'
      BY <3>2 DEF SentOK
    <3>4. SentOf(i) /\ \A v : Told(i, v) => Told(i, v)'
      BY <2>0, <3>2 DEF SentOK, Told
    <3> QED BY <3>2, <3>3, <3>4 DEF SentOf
  <2> QED BY <1>3, <2>1, <2>2, <2>3, <2>4, <2>5, NextSteps
<1> QED BY <1>1, <1>2, <1>3

\* What was handed over follows the view, but for credentials whose updates
\* crossed or that left the view without a difference.
THEOREM SentFollows == WatcherSpec => []SentMirrorsView
<1>1. WatcherInit => SentOK
  <2> SUFFICES ASSUME WatcherInit PROVE SentOK
    OBVIOUS
  <2>1. Reloading /\ \A i \in Ids : current[i] = None
    BY InitReloading DEF WatcherInit
  <2>2. \A p \in Procs : OnTheWay(p) = {}
    BY DEF WatcherInit, OnTheWay, Idle
  <2> QED BY <2>1, <2>2 DEF SentOK, SentOf, Told
<1>2. SentOK => SentMirrorsView
  <2> SUFFICES ASSUME SentOK, NEW i \in Ids, Quiet(i), i \notin crossed \cup unreported
               PROVE  sent[i] = current[i]
    BY DEF SentMirrorsView
  <2> QED BY QuietMeansLoaded DEF SentOK, SentOf, Told, Quiet
<1> QED BY <1>1, <1>2, InitTypes, NextTypes, NextSent, PTL DEF WatcherSpec

-----------------------------------------------------------------------------
(* The files                                                                *)

Mentioned(f, g) == \E k \in DOMAIN events : events[k].file = f /\ events[k].gone = g
At(place, f) == job[Handler].at = place /\ job[Handler].file = f
Handling == {"stat", "read", "hash", "commit", "remove", "dispatch"}

\* The scan and the handling of an event exclude each other.
Excluded == \A r \in Reloaders : job[r].at = "scanned" => job[Handler].at \notin Handling

\* The hash that was set before a commit is still there.
HashHeld == job[Handler].at = "commit" => hashes[job[Handler].file] = job[Handler].data

\* Whatever the cache does not know of a file is announced, or being looked at.
CacheOf(f) ==
    disk[f] \in Versions =>
        \/ Mentioned(f, FALSE)
        \/ /\ \/ hashes[f] = disk[f] \/ At("read", f) \/ At("hash", f)
              \/ \E r \in Reloaders : job[r].at \in {"scan", "scanned"}
           /\ At("hash", f) => job[Handler].data = disk[f]
           /\ ~At("remove", f)
           /\ \A r \in Reloaders : job[r].at = "scanned" => job[r].seen[f] = disk[f]

\* A file with a hash has an entry, which its removal takes with it.
KnownOf(f) == hashes[f] # None => f \in known \/ At("commit", f)

\* The view is what the cache is about.
ViewOf(f) ==
    f \notin overwritten => current[f] = hashes[f] \/ At("commit", f) \/ Reloading

\* Whoever is about to bring back a file that is gone will hear of it. Else the
\* cache has no hash of it, or the view has lost it and gets it from nobody.
GoneOf(f) ==
    disk[f] = None =>
        /\ At("hash", f) \/ At("commit", f) => Mentioned(f, TRUE)
        /\ \A r \in Reloaders :
              job[r].at = "scanned" /\ job[r].seen[f] # None => Mentioned(f, TRUE)
        /\ \/ f \in forgotten
           \/ Mentioned(f, TRUE) \/ At("stat", f) \/ At("remove", f)
           \/ hashes[f] = None
           \/ /\ current[f] = None \/ f \in overwritten
              /\ \A r \in Reloaders : job[r].at = "refresh" => job[r].view[f] = None

FileOf(f) == CacheOf(f) /\ KnownOf(f) /\ ViewOf(f) /\ GoneOf(f)

FilesOK == Excluded /\ HashHeld /\ \A f \in Files : FileOf(f)

Joined(s, t) == s \o t

LEMMA JoinFacts ==
    ASSUME NEW S, NEW s \in Seq(S), NEW t \in Seq(S)
    PROVE  /\ Joined(s, t) \in Seq(S) /\ Len(Joined(s, t)) = Len(s) + Len(t)
           /\ \A k \in 1 .. Len(s) : Joined(s, t)[k] = s[k]
           /\ \A k \in 1 .. Len(t) : Joined(s, t)[Len(s) + k] = t[k]
BY DEF Joined

LEMMA OneEventMore ==
    ASSUME events \in Seq(Event), NEW x \in Event, events' = Append(events, x), NEW f, NEW g
    PROVE  /\ Mentioned(f, g) => Mentioned(f, g)'
           /\ x.file = f /\ x.gone = g => Mentioned(f, g)'
<1> DEFINE n == Len(events)
<1>1. n \in Nat /\ DOMAIN events = 1 .. n
  OBVIOUS
<1>2. Len(events') = n + 1 /\ events'[n + 1] = x /\ \A k \in 1 .. n : events'[k] = events[k]
  OBVIOUS
<1>3. DOMAIN events' = 1 .. (n + 1)
  OBVIOUS
<1> HIDE DEF n
<1> QED BY <1>1, <1>2, <1>3 DEF Mentioned

LEMMA MoreEvents ==
    ASSUME events \in Seq(Event), NEW t \in Seq(Event), events' = events \o t, NEW f, NEW g
    PROVE  /\ Mentioned(f, g) => Mentioned(f, g)'
           /\ \A k \in 1 .. Len(t) : t[k].file = f /\ t[k].gone = g => Mentioned(f, g)'
<1> DEFINE n == Len(events)
<1>1. n \in Nat /\ DOMAIN events = 1 .. n
  OBVIOUS
<1> DEFINE u == Joined(events, t)
<1>2. u \in Seq(Event) /\ Len(u) = n + Len(t)
  BY JoinFacts
<1>3. \A k \in 1 .. n : u[k] = events[k]
  BY JoinFacts
<1>4. \A k \in 1 .. Len(t) : u[n + k] = t[k]
  BY JoinFacts
<1>5. events' = u
  BY DEF Joined
<1> HIDE DEF n, u
<1>6. DOMAIN u = 1 .. (n + Len(t)) /\ Len(t) \in Nat
  BY <1>2
<1>7. \A k \in 1 .. Len(t) : n + k \in DOMAIN u
  BY <1>1, <1>6
<1>8. \A k \in 1 .. n : k \in DOMAIN u
  BY <1>1, <1>6
<1> QED BY <1>1, <1>3, <1>4, <1>5, <1>7, <1>8 DEF Mentioned

LEMMA EventsGrow ==
    ASSUME events \in Seq(Event), NEW x \in Event, NEW y \in Event, NEW f, NEW g,
           events' = Append(events, x) \/ events' = events \o <<x, y>>
    PROVE  /\ Mentioned(f, g) => Mentioned(f, g)'
           /\ x.file = f /\ x.gone = g => Mentioned(f, g)'
           /\ events' = events \o <<x, y>> /\ y.file = f /\ y.gone = g => Mentioned(f, g)'
<1>1. CASE events' = events \o <<x, y>>
  <2> DEFINE t == <<x, y>>
  <2>1. t \in Seq(Event) /\ Len(t) = 2 /\ t[1] = x /\ t[2] = y
    OBVIOUS
  <2>2. events' = events \o t
    BY <1>1
  <2> HIDE DEF t
  <2>3. /\ Mentioned(f, g) => Mentioned(f, g)'
        /\ \A k \in 1 .. Len(t) : t[k].file = f /\ t[k].gone = g => Mentioned(f, g)'
    BY <2>1, <2>2, MoreEvents
  <2> QED BY <2>1, <2>3
<1>2. CASE events' = Append(events, x) /\ events' # events \o <<x, y>>
  BY <1>2, OneEventMore
<1> QED BY <1>1, <1>2

LEMMA EventTaken ==
    ASSUME events \in Seq(Event), events # <<>>, events' = Tail(events), NEW f, NEW g,
           Mentioned(f, g), ~(Head(events).file = f /\ Head(events).gone = g)
    PROVE  Mentioned(f, g)'
<1>1. PICK k \in DOMAIN events : events[k].file = f /\ events[k].gone = g
  BY DEF Mentioned
<1>2. k \in 1 .. Len(events) /\ k # 1
  BY <1>1
<1>3. k - 1 \in DOMAIN events' /\ events'[k - 1] = events[k]
  BY <1>2
<1> QED BY <1>1, <1>3 DEF Mentioned

LEMMA HandlerGoto ==
    ASSUME TypeInv, NEW j, Goto(Handler, j), j.at # "dispatch"
    PROVE  job'[Handler] = j /\ Others(Handler)
<1>1. DOMAIN job = Procs /\ Handler \in Procs
  BY Sets DEF TypeInv, JobTypes
<1> QED BY <1>1, Moves DEF Others

LEMMA HandlerOthers ==
    ASSUME Others(Handler)
    PROVE  /\ \A r \in Reloaders : job'[r] = job[r]
           /\ Reloading' <=> Reloading
BY Sets DEF Others, Reloading

LEMMA OthersHandle ==
    ASSUME NEW p \in Procs, p # Handler, Others(p) PROVE job'[Handler] = job[Handler]
BY Sets DEF Others

-----------------------------------------------------------------------------
\* The environment.
LEMMA WriteFiles ==
    ASSUME TypeInv, FilesOK, NEW f \in Files, NEW c \in Val \cup {Torn},
           NEW x \in Event, NEW y \in Event, disk' = [disk EXCEPT ![f] = c],
           \/ events' = Append(events, x) /\ x.file = f /\ x.gone = (c = None)
           \/ /\ events' = events \o <<x, y>> /\ c \in Versions
              /\ y.file = f /\ ~y.gone,
           job'[Handler] = job[Handler],
           \A r \in Reloaders : job'[r] = job[r],
           UNCHANGED <<hashes, known, current, overwritten, forgotten>>
    PROVE  FilesOK'
<1>0. events \in Seq(Event) /\ disk \in [Files -> Val \cup {Torn}] /\ None \notin Versions
  BY WatcherAssumption DEF TypeInv, SourceTypes
<1>1. Excluded' /\ HashHeld'
  BY DEF FilesOK, Excluded, HashHeld
<1>2. ASSUME NEW g \in Files PROVE FileOf(g)'
  <2>1. /\ Mentioned(g, TRUE) => Mentioned(g, TRUE)'
        /\ Mentioned(g, FALSE) => Mentioned(g, FALSE)'
    BY <1>0, EventsGrow
  <2>2. FileOf(g)
    BY DEF FilesOK
  <2>3. KnownOf(g)' /\ ViewOf(g)'
    BY <2>2 DEF FileOf, KnownOf, ViewOf, At, Reloading
  <2>4. CASE g # f
    <3>1. disk'[g] = disk[g]
      BY <1>0, <2>4
    <3> QED BY <2>1, <2>2, <2>3, <3>1 DEF FileOf, CacheOf, GoneOf, At
  <2>5. CASE g = f
    <3>1. disk'[g] = c
      BY <1>0, <2>5
    <3>2. c \in Versions => Mentioned(g, FALSE)'
      <4>1. CASE events' = Append(events, x) /\ x.file = f /\ x.gone = (c = None)
        BY <1>0, <2>5, <4>1, EventsGrow
      <4>2. CASE events' = events \o <<x, y>> /\ y.file = f /\ ~y.gone
        <5>1. y.gone = FALSE
          BY <4>2 DEF Event
        <5> QED BY <1>0, <2>5, <4>2, <5>1, EventsGrow
      <4> QED BY <4>1, <4>2
    <3>3. c = None => Mentioned(g, TRUE)'
      BY <1>0, <2>5, EventsGrow
    <3> QED BY <1>0, <2>3, <3>1, <3>2, <3>3 DEF FileOf, CacheOf, GoneOf
  <2> QED BY <2>4, <2>5
<1> QED BY <1>1, <1>2 DEF FilesOK

\* Neither the files nor what the watcher has of them change, and nobody who
\* works on files moves.
SameFiles ==
    /\ disk' = disk /\ events' = events /\ hashes' = hashes /\ known' = known
    /\ overwritten' = overwritten /\ forgotten' = forgotten
    /\ \A f \in Files : current'[f] = current[f]
NobodyOnFiles ==
    /\ \/ job'[Handler] = job[Handler]
       \/ job'[Handler].at = "idle" /\ job[Handler].at = "dispatch"
    /\ \A r \in Reloaders :
          \/ job'[r] = job[r]
          \/ /\ job[r].at \notin ReloadPlaces
             /\ job'[r].at \in {"idle", "filter", "snapshot", "dispatch"}

LEMMA FilesStay == ASSUME FilesOK, SameFiles, NobodyOnFiles PROVE FilesOK'
<1> USE DEF SameFiles, NobodyOnFiles
<1>1. Excluded' /\ HashHeld'
  BY DEF FilesOK, Excluded, HashHeld, Handling, ReloadPlaces
<1>2. Reloading => Reloading'
  BY DEF Reloading, ReloadPlaces
<1>3. ASSUME NEW f \in Files PROVE FileOf(f)'
  <2>1. FileOf(f)
    BY DEF FilesOK
  <2>2. \A pl \in {"stat", "read", "hash", "commit", "remove"} :
          /\ At(pl, f)' <=> At(pl, f)
          /\ At(pl, f) => job'[Handler] = job[Handler]
    BY DEF At
  <2>3. \A g : Mentioned(f, g)' <=> Mentioned(f, g)
    BY DEF Mentioned
  <2>4. \A r \in Reloaders : /\ job[r].at \in {"scan", "scanned"} => job'[r] = job[r]
                             /\ job'[r].at \in {"scanned", "refresh"} => job'[r] = job[r]
    BY DEF ReloadPlaces
  <2>5. CacheOf(f)'
    BY <2>1, <2>2, <2>3, <2>4 DEF FileOf, CacheOf
  <2>6. KnownOf(f)' /\ ViewOf(f)'
    BY <1>2, <2>1, <2>2 DEF FileOf, KnownOf, ViewOf
  <2>7. GoneOf(f)'
    BY <2>1, <2>2, <2>3, <2>4 DEF FileOf, GoneOf
  <2> QED BY <2>5, <2>6, <2>7 DEF FileOf
<1> QED BY <1>1, <1>3 DEF FilesOK

LEMMA EnvironmentFiles == ASSUME TypeInv, FilesOK, Environment PROVE FilesOK'
<1>1. ASSUME NEW f \in Files, WindowPasses(f) PROVE FilesOK'
  <2>1. SameFiles /\ NobodyOnFiles
    BY <1>1 DEF WindowPasses, history, SameFiles, NobodyOnFiles
  <2> QED BY <2>1, FilesStay
<1>2. ASSUME NEW f \in Files, NEW c \in Val \cup {Torn}, WriteFile(f, c) PROVE FilesOK'
  <2> DEFINE a == [file |-> f, gone |-> c = None]
             x == [file |-> f, gone |-> TRUE]
             y == [file |-> f, gone |-> FALSE]
  <2>1. /\ a \in Event /\ x \in Event /\ y \in Event
        /\ a.file = f /\ a.gone = (c = None) /\ y.file = f /\ ~y.gone
    BY DEF Event
  <2>2. /\ disk' = [disk EXCEPT ![f] = c]
        /\ UNCHANGED <<hashes, known, current, overwritten, forgotten, job>>
    BY <1>2 DEF WriteFile, code, history
  <2>5. events' = Append(events, a) \/ events' = events \o <<x, y>>
    BY <1>2 DEF WriteFile
  <2>6. events' # Append(events, a) => c \in Versions
    BY <1>2 DEF WriteFile
  <2> HIDE DEF a, x, y
  <2>3. CASE events' = Append(events, a)
    BY <2>1, <2>2, <2>3, WriteFiles
  <2>4. CASE events' = events \o <<x, y>> /\ c \in Versions
    BY <2>1, <2>2, <2>4, WriteFiles
  <2> QED BY <2>3, <2>4, <2>5, <2>6
<1> QED BY <1>1, <1>2 DEF Environment

-----------------------------------------------------------------------------
\* The handler.
Looking == {"stat", "read", "hash", "commit", "remove"}

\* A file the handler is not about.
LEMMA FileApart ==
    ASSUME NEW g \in Files, FileOf(g), Others(Handler), UNCHANGED disk,
           \A b : Mentioned(g, b) => Mentioned(g, b)',
           \A pl \in Looking : ~At(pl, g) /\ ~At(pl, g)',
           hashes'[g] = hashes[g], current'[g] = current[g], g \in known => g \in known',
           g \in overwritten' <=> g \in overwritten, g \in forgotten => g \in forgotten'
    PROVE  FileOf(g)'
<1>1. /\ \A r \in Reloaders : job'[r] = job[r]
      /\ Reloading' <=> Reloading
  BY HandlerOthers
<1>2. /\ ~At("stat", g) /\ ~At("read", g) /\ ~At("hash", g) /\ ~At("commit", g)
      /\ ~At("remove", g)
      /\ ~At("stat", g)' /\ ~At("read", g)' /\ ~At("hash", g)' /\ ~At("commit", g)'
      /\ ~At("remove", g)'
  BY DEF Looking
<1>3. CacheOf(g)'
  BY <1>1, <1>2 DEF FileOf, CacheOf
<1>4. KnownOf(g)' /\ ViewOf(g)'
  BY <1>1, <1>2 DEF FileOf, KnownOf, ViewOf
<1>5. GoneOf(g)'
  BY <1>1, <1>2 DEF FileOf, GoneOf
<1> QED BY <1>3, <1>4, <1>5 DEF FileOf

\* The handler does not look at files while a scan is under way.
LEMMA NoneScanned ==
    ASSUME TypeInv, FilesOK, HandlerStep
    PROVE  /\ \A r \in Reloaders : job[r].at # "scanned" /\ job'[r] = job[r]
           /\ Others(Handler) /\ Excluded'
<1>1. RescanFree \/ job[Handler].at \in Handling
  BY DEF HandlerStep, HandleWrite, HandleRemove, StatFile, ReadFile, CheckHash, CommitFile,
         RemoveClient, Handling
<1>2. \A r \in Reloaders : job[r].at # "scanned"
  BY <1>1 DEF RescanFree, FilesOK, Excluded
<1>3. Others(Handler) /\ \A r \in Reloaders : job'[r] = job[r]
  BY HandlerMoves, HandlerOthers
<1> QED BY <1>2, <1>3 DEF Excluded

LEMMA HandleWriteFiles == ASSUME TypeInv, FilesOK, HandleWrite PROVE FilesOK'
<1>f. PICK f \in Files : f = Head(events).file
  BY EventFacts DEF HandleWrite, TypeInv, SourceTypes
<1> DEFINE j == IF AuthFileUnchanged(f) THEN Idle ELSE [at |-> "read", file |-> f]
<1>0. /\ events \in Seq(Event) /\ events # <<>> /\ events' = Tail(events)
      /\ job[Handler] = Idle /\ ~Head(events).gone
      /\ UNCHANGED <<disk, hashes, known, current, overwritten, forgotten>>
      /\ Goto(Handler, j)
  BY <1>f DEF HandleWrite, TypeInv, SourceTypes, code, history
<1>1. Head(events).file = f /\ Head(events).gone = FALSE
  BY <1>f, <1>0, EventFacts
<1>2. /\ \A r \in Reloaders : job[r].at # "scanned" /\ job'[r] = job[r]
      /\ Others(Handler) /\ Excluded'
  BY NoneScanned DEF HandlerStep
<1>3. job'[Handler] = j
  <2>1. j.at # "dispatch"
    BY DEF Idle
  <2> HIDE DEF j
  <2> QED BY <1>0, <2>1, HandlerGoto
<1>4. HashHeld'
  BY <1>3 DEF HashHeld, Idle
<1>5. \A g \in Files : FileOf(g) /\ \A pl \in Looking : ~At(pl, g)
  BY <1>0 DEF FilesOK, At, Looking, Idle
<1>6. ASSUME NEW g \in Files, g # f PROVE FileOf(g)'
  <2>1. \A b : Mentioned(g, b) => Mentioned(g, b)'
    BY <1>0, <1>1, <1>6, EventTaken
  <2>2. \A pl \in Looking : ~At(pl, g)'
    BY <1>3, <1>6 DEF At, Looking, Idle
  <2> QED BY <1>0, <1>2, <1>5, <2>1, <2>2, FileApart
<1>7. FileOf(f)'
  <2>1. Mentioned(f, TRUE) => Mentioned(f, TRUE)'
    BY <1>0, <1>1, EventTaken
  <2>2. /\ \A pl \in {"stat", "hash", "commit", "remove"} : ~At(pl, f)'
        /\ AuthFileUnchanged(f) \/ At("read", f)'
    BY <1>3 DEF At, Idle
  <2>3. \A pl \in {"stat", "hash", "commit", "remove"} : ~At(pl, f)
    BY <1>1, <1>5 DEF Looking
  <2>4. FileOf(f) /\ (Reloading' <=> Reloading)
    BY <1>1, <1>2, <1>5, HandlerOthers
  <2>5. CacheOf(f)'
    BY <1>0, <1>2, <2>2 DEF CacheOf, AuthFileUnchanged
  <2>6. KnownOf(f)' /\ ViewOf(f)'
    BY <1>0, <2>2, <2>3, <2>4 DEF FileOf, KnownOf, ViewOf
  <2>7. GoneOf(f)'
    BY <1>0, <1>2, <2>1, <2>2, <2>3, <2>4 DEF FileOf, GoneOf
  <2> QED BY <2>5, <2>6, <2>7 DEF FileOf
<1> QED BY <1>2, <1>4, <1>6, <1>7 DEF FilesOK

LEMMA HandleRemoveFiles == ASSUME TypeInv, FilesOK, HandleRemove PROVE FilesOK'
<1>f. PICK f \in Files : f = Head(events).file
  BY EventFacts DEF HandleRemove, TypeInv, SourceTypes
<1> DEFINE j == [at |-> "stat", file |-> f]
<1>0. /\ events \in Seq(Event) /\ events # <<>> /\ events' = Tail(events)
      /\ job[Handler] = Idle /\ Head(events).gone
      /\ UNCHANGED <<disk, hashes, known, current, overwritten>>
      /\ \/ UNCHANGED job /\ forgotten' = IF disk[f] = None THEN forgotten \cup {f} ELSE forgotten
         \/ Goto(Handler, j) /\ UNCHANGED forgotten
  BY <1>f DEF HandleRemove, TypeInv, SourceTypes
<1>1. Head(events).file = f /\ Head(events).gone # FALSE
  BY <1>f, <1>0, EventFacts
<1>2. /\ \A r \in Reloaders : job[r].at # "scanned" /\ job'[r] = job[r]
      /\ Others(Handler) /\ Excluded'
  BY NoneScanned DEF HandlerStep
<1>3. \/ job'[Handler] = Idle /\ (disk[f] = None => f \in forgotten')
      \/ job'[Handler] = j
  <2>1. j.at # "dispatch"
    OBVIOUS
  <2> HIDE DEF j
  <2>2. CASE /\ UNCHANGED job
             /\ forgotten' = IF disk[f] = None THEN forgotten \cup {f} ELSE forgotten
    BY <1>0, <2>2
  <2>3. CASE Goto(Handler, j)
    BY <2>1, <2>3, HandlerGoto
  <2> QED BY <1>0, <2>2, <2>3
<1>4. HashHeld'
  BY <1>3 DEF HashHeld, Idle
<1>5. \A g \in Files : FileOf(g) /\ \A pl \in Looking : ~At(pl, g)
  BY <1>0 DEF FilesOK, At, Looking, Idle
<1>6. ASSUME NEW g \in Files, g # f PROVE FileOf(g)'
  <2>1. \A b : Mentioned(g, b) => Mentioned(g, b)'
    BY <1>0, <1>1, <1>6, EventTaken
  <2>2. \A pl \in Looking : ~At(pl, g)'
    BY <1>3, <1>6 DEF At, Looking, Idle
  <2> QED BY <1>0, <1>2, <1>5, <2>1, <2>2, FileApart
<1>7. FileOf(f)'
  <2>1. Mentioned(f, FALSE) => Mentioned(f, FALSE)'
    BY <1>0, <1>1, EventTaken
  <2>2. /\ \A pl \in {"read", "hash", "commit", "remove"} : ~At(pl, f)'
        /\ disk[f] = None => f \in forgotten' \/ At("stat", f)'
    BY <1>3 DEF At, Idle
  <2>3. \A pl \in {"stat", "read", "hash", "commit", "remove"} : ~At(pl, f)
    BY <1>5 DEF Looking
  <2>4. FileOf(f) /\ (Reloading' <=> Reloading)
    BY <1>2, <1>5, HandlerOthers
  <2>5. CacheOf(f)'
    BY <1>0, <1>2, <2>1, <2>2, <2>3, <2>4 DEF FileOf, CacheOf
  <2>6. KnownOf(f)' /\ ViewOf(f)'
    BY <1>0, <2>2, <2>3, <2>4 DEF FileOf, KnownOf, ViewOf
  <2>7. GoneOf(f)'
    BY <1>0, <1>2, <2>2 DEF GoneOf
  <2> QED BY <2>5, <2>6, <2>7 DEF FileOf
<1> QED BY <1>2, <1>4, <1>6, <1>7 DEF FilesOK

\* A step that goes on with the file of the last one.
LEMMA SameFile ==
    ASSUME TypeInv, FilesOK, HandlerStep, NEW f \in Files, job[Handler].file = f,
           UNCHANGED <<disk, events>>,
           job'[Handler].at \in {"idle", "dispatch"} \/ job'[Handler].file = f,
           \A g \in Files \ {f} :
              /\ hashes'[g] = hashes[g] /\ current'[g] = current[g]
              /\ g \in known => g \in known'
              /\ g \in overwritten' <=> g \in overwritten
              /\ g \in forgotten => g \in forgotten'
    PROVE  \A g \in Files \ {f} : FileOf(g)'
<1> SUFFICES ASSUME NEW g \in Files \ {f} PROVE FileOf(g)'
  OBVIOUS
<1>1. FileOf(g) /\ Others(Handler)
  BY NoneScanned DEF FilesOK
<1>2. \A b : Mentioned(g, b) => Mentioned(g, b)'
  BY DEF Mentioned
<1>3. \A pl \in Looking : ~At(pl, g) /\ ~At(pl, g)'
  BY DEF Looking, At
<1> QED BY <1>1, <1>2, <1>3, FileApart

LEMMA StatAndReadFiles == ASSUME TypeInv, FilesOK, StatFile \/ ReadFile PROVE FilesOK'
<1>f. PICK f \in Files : f = job[Handler].file
  BY Sets DEF StatFile, ReadFile, TypeInv, JobTypes, JobOK, HandlerPlaces
<1>0. /\ UNCHANGED <<disk, events, hashes, known, current, overwritten>>
      /\ \A g \in Files : g \in forgotten => g \in forgotten'
      /\ job[Handler].at \in {"stat", "read"}
  BY DEF StatFile, ReadFile, code, history
<1>1. /\ \A r \in Reloaders : job[r].at # "scanned" /\ job'[r] = job[r]
      /\ Others(Handler) /\ Excluded' /\ HandlerStep
  BY NoneScanned DEF HandlerStep
<1>2. \/ job'[Handler] = Idle /\ (disk[f] \in Versions => hashes[f] = disk[f])
                              /\ (disk[f] = None => f \in forgotten' \/ At("read", f))
      \/ job'[Handler] = [at |-> "read", file |-> f] /\ disk[f] # None
      \/ job'[Handler] = [at |-> "remove", file |-> f] /\ disk[f] = None
      \/ job'[Handler] = [at |-> "hash", file |-> f, data |-> disk[f]] /\ disk[f] \in Versions
  <2>1. ASSUME NEW j, Goto(Handler, j),
               \/ j = Idle \/ j = [at |-> "read", file |-> f]
               \/ j = [at |-> "remove", file |-> f]
               \/ j = [at |-> "hash", file |-> f, data |-> disk[f]]
        PROVE  job'[Handler] = j
    <3>1. j.at # "dispatch"
      BY <2>1 DEF Idle
    <3> QED BY <2>1, <3>1, HandlerGoto
  <2>2. CASE StatFile
    <3>1. CASE disk[f] # None /\ AuthFileUnchanged(f) /\ Goto(Handler, Idle)
      BY <2>1, <3>1 DEF AuthFileUnchanged
    <3>2. CASE disk[f] # None /\ Goto(Handler, [at |-> "read", file |-> f])
      BY <2>1, <3>2
    <3>3. CASE disk[f] = None /\ Goto(Handler, Idle) /\ f \in forgotten'
      BY <2>1, <3>3, WatcherAssumption
    <3>4. CASE disk[f] = None /\ Goto(Handler, [at |-> "remove", file |-> f])
      BY <2>1, <3>4
    <3> QED BY <1>f, <2>2, <3>1, <3>2, <3>3, <3>4 DEF StatFile
  <2>3. CASE ReadFile
    <3>1. At("read", f)
      BY <1>f, <2>3 DEF ReadFile, At
    <3>2. CASE disk[f] \in Versions /\ Goto(Handler, [at |-> "hash", file |-> f, data |-> disk[f]])
      BY <2>1, <3>2
    <3>3. CASE disk[f] \notin Versions /\ Goto(Handler, Idle)
      BY <2>1, <3>1, <3>3
    <3> QED BY <1>f, <2>3, <3>2, <3>3 DEF ReadFile
  <2> QED BY <2>2, <2>3
<1>3. HashHeld'
  BY <1>2 DEF HashHeld, Idle
<1>4. \A g \in Files \ {f} : FileOf(g)'
  <2>1. job'[Handler].at \in {"idle", "dispatch"} \/ job'[Handler].file = f
    BY <1>2 DEF Idle
  <2> QED BY <1>f, <1>0, <1>1, <2>1, SameFile
<1>5. FileOf(f)'
  <2>1. FileOf(f) /\ (Reloading' <=> Reloading)
    BY <1>1, HandlerOthers DEF FilesOK
  <2>2. \A b : Mentioned(f, b) <=> Mentioned(f, b)'
    BY <1>0 DEF Mentioned
  <2>3. /\ ~At("hash", f) /\ ~At("commit", f) /\ ~At("remove", f)
        /\ ~At("stat", f)' /\ ~At("commit", f)'
        /\ At("remove", f)' => disk[f] = None
        /\ At("hash", f)' => disk[f] \in Versions /\ job'[Handler].data = disk[f]
        /\ disk[f] \in Versions => hashes[f] = disk[f] \/ At("read", f)' \/ At("hash", f)'
        /\ disk[f] = None /\ At("stat", f) => f \in forgotten' \/ At("remove", f)'
    BY <1>0, <1>2, WatcherAssumption DEF At, Idle
  <2>4. CacheOf(f)'
    BY <1>0, <1>1, <2>3, WatcherAssumption DEF CacheOf
  <2>5. KnownOf(f)' /\ ViewOf(f)'
    BY <1>0, <2>1, <2>3 DEF FileOf, KnownOf, ViewOf
  <2>6. GoneOf(f)'
    BY <1>0, <1>1, <2>1, <2>2, <2>3, WatcherAssumption DEF FileOf, GoneOf
  <2> QED BY <2>4, <2>5, <2>6 DEF FileOf
<1> QED BY <1>1, <1>3, <1>4, <1>5 DEF FilesOK

LEMMA CheckHashFiles == ASSUME TypeInv, FilesOK, CheckHash PROVE FilesOK'
<1>f. PICK f \in Files : f = job[Handler].file
  BY Sets DEF CheckHash, TypeInv, JobTypes, JobOK, HandlerPlaces
<1>v. PICK v \in Versions : v = job[Handler].data
  BY Sets DEF CheckHash, TypeInv, JobTypes, JobOK, HandlerPlaces
<1> DEFINE j == IF hashes[f] = v THEN Idle ELSE [at |-> "commit", file |-> f, data |-> v]
<1>0. /\ UNCHANGED <<disk, events, known, current, overwritten, forgotten>>
      /\ At("hash", f) /\ Goto(Handler, j)
      /\ hashes' = [hashes EXCEPT ![f] = v] /\ hashes \in [Files -> Val]
  BY <1>f, <1>v DEF CheckHash, history, At, TypeInv, ViewTypes
<1>1. /\ \A r \in Reloaders : job[r].at # "scanned" /\ job'[r] = job[r]
      /\ Others(Handler) /\ Excluded' /\ HandlerStep
  BY NoneScanned DEF HandlerStep
<1>2. job'[Handler] = j
  <2>1. j.at # "dispatch"
    BY DEF Idle
  <2> HIDE DEF j
  <2> QED BY <1>0, <2>1, HandlerGoto
<1>3. hashes'[f] = v /\ \A g \in Files \ {f} : hashes'[g] = hashes[g]
  BY <1>0
<1>4. HashHeld'
  BY <1>2, <1>3 DEF HashHeld, Idle
<1>5. \A g \in Files \ {f} : FileOf(g)'
  <2>1. job'[Handler].at = "idle" \/ job'[Handler].file = f
    BY <1>2 DEF Idle
  <2> QED BY <1>f, <1>0, <1>1, <1>3, <2>1, SameFile
<1>6. FileOf(f)'
  <2>1. FileOf(f) /\ (Reloading' <=> Reloading)
    BY <1>1, HandlerOthers DEF FilesOK
  <2>2. \A b : Mentioned(f, b) <=> Mentioned(f, b)'
    BY <1>0 DEF Mentioned
  <2>3. /\ ~At("stat", f) /\ ~At("commit", f) /\ ~At("remove", f)
        /\ \A pl \in {"stat", "read", "hash", "remove"} : ~At(pl, f)'
        /\ hashes[f] = v \/ At("commit", f)'
    BY <1>0, <1>2 DEF At, Idle
  <2>4. CacheOf(f)'
    BY <1>0, <1>1, <1>v, <1>3, <2>1, <2>2, <2>3 DEF FileOf, CacheOf
  <2>5. KnownOf(f)' /\ ViewOf(f)'
    BY <1>0, <1>3, <2>1, <2>3 DEF FileOf, KnownOf, ViewOf
  <2>6. GoneOf(f)'
    BY <1>0, <1>1, <2>1, <2>2, <2>3 DEF FileOf, GoneOf
  <2> QED BY <2>4, <2>5, <2>6 DEF FileOf
<1> QED BY <1>1, <1>4, <1>5, <1>6 DEF FilesOK

LEMMA CommitFileFiles == ASSUME TypeInv, FilesOK, CommitFile PROVE FilesOK'
<1>f. PICK f \in Files : f = job[Handler].file
  BY Sets DEF CommitFile, TypeInv, JobTypes, JobOK, HandlerPlaces
<1>v. PICK v \in Versions : v = job[Handler].data
  BY Sets DEF CommitFile, TypeInv, JobTypes, JobOK, HandlerPlaces
<1> DEFINE S == IF current[f] = v THEN {} ELSE {f}
           out == [i \in S |-> v]
<1>0. /\ UNCHANGED <<disk, events, hashes>> /\ At("commit", f)
      /\ Goto(Handler, ToDispatch(out))
      /\ known' = known \cup {f} /\ current' = [current EXCEPT ![f] = v]
      /\ overwritten' = overwritten \ {f} /\ forgotten' = forgotten \ {f}
      /\ current \in [Ids -> Val] /\ DOMAIN job = Procs
  BY <1>f, <1>v DEF CommitFile, At, TypeInv, ViewTypes, JobTypes
<1>1. /\ \A r \in Reloaders : job[r].at # "scanned" /\ job'[r] = job[r]
      /\ Others(Handler) /\ Excluded' /\ HandlerStep
  BY NoneScanned DEF HandlerStep
<1>2. job'[Handler].at \in {"idle", "dispatch"}
  BY <1>0, Sets, GoesToDispatch
<1>3. /\ current'[f] = v /\ hashes[f] = v
      /\ \A g \in Files \ {f} : current'[g] = current[g]
  BY <1>f, <1>v, <1>0, Sets DEF FilesOK, HashHeld, At
<1>4. HashHeld'
  BY <1>2 DEF HashHeld
<1>5. \A g \in Files \ {f} : FileOf(g)'
  BY <1>f, <1>0, <1>1, <1>2, <1>3, SameFile
<1>6. FileOf(f)'
  <2>1. FileOf(f)
    BY DEF FilesOK
  <2>2. \A b : Mentioned(f, b) <=> Mentioned(f, b)'
    BY <1>0 DEF Mentioned
  <2>3. /\ ~At("read", f) /\ ~At("hash", f)
        /\ \A pl \in Looking : ~At(pl, f)'
    BY <1>0, <1>2 DEF At, Looking
  <2>4. CacheOf(f)'
    BY <1>0, <1>1, <2>1, <2>2, <2>3 DEF FileOf, CacheOf, Looking
  <2>5. KnownOf(f)' /\ ViewOf(f)'
    BY <1>0, <1>3 DEF KnownOf, ViewOf
  <2>6. GoneOf(f)'
    BY <1>0, <1>1, <2>1, <2>2 DEF FileOf, GoneOf
  <2> QED BY <2>4, <2>5, <2>6 DEF FileOf
<1> QED BY <1>1, <1>4, <1>5, <1>6 DEF FilesOK

LEMMA RemoveClientFiles == ASSUME TypeInv, FilesOK, RemoveClient PROVE FilesOK'
<1>f. PICK f \in Files : f = job[Handler].file
  BY Sets DEF RemoveClient, TypeInv, JobTypes, JobOK, HandlerPlaces
<1> DEFINE S == GoneWith(f)
           out == [i \in S |-> None]
<1>0. /\ UNCHANGED <<disk, events>> /\ At("remove", f)
      /\ Goto(Handler, ToDispatch(out))
      /\ known' = known \ {f} /\ hashes' = [hashes EXCEPT ![f] = None]
      /\ current' = [i \in Ids |-> IF i \in S THEN None ELSE current[i]]
      /\ overwritten' = overwritten \ S /\ forgotten' = forgotten \ {f}
      /\ hashes \in [Files -> Val] /\ DOMAIN job = Procs
  BY <1>f DEF RemoveClient, At, TypeInv, ViewTypes, JobTypes
<1>1. /\ \A r \in Reloaders : job[r].at # "scanned" /\ job'[r] = job[r]
      /\ Others(Handler) /\ Excluded' /\ HandlerStep
  BY NoneScanned DEF HandlerStep
<1>2. job'[Handler].at \in {"idle", "dispatch"}
  BY <1>0, Sets, GoesToDispatch
<1>3. /\ hashes'[f] = None
      /\ f \in known => current'[f] = None
      /\ f \notin known => current'[f] = current[f] /\ f \notin S
      /\ \A g \in Files \ {f} : /\ current'[g] = current[g] /\ hashes'[g] = hashes[g]
                                /\ g \notin S
  BY <1>0, Sets DEF GoneWith
<1>4. HashHeld'
  BY <1>2 DEF HashHeld
<1>5. \A g \in Files \ {f} : FileOf(g)'
  BY <1>f, <1>0, <1>1, <1>2, <1>3, SameFile
<1>6. FileOf(f)'
  <2>1. FileOf(f) /\ (Reloading' <=> Reloading)
    BY <1>1, HandlerOthers DEF FilesOK
  <2>2. \A b : Mentioned(f, b) <=> Mentioned(f, b)'
    BY <1>0 DEF Mentioned
  <2>3. ~At("commit", f) /\ \A pl \in Looking : ~At(pl, f)'
    BY <1>0, <1>2 DEF At, Looking
  <2>4. CacheOf(f)'
    BY <1>0, <2>1, <2>2 DEF FileOf, CacheOf
  <2>5. KnownOf(f)' /\ ViewOf(f)'
    <3>1. KnownOf(f)'
      BY <1>3 DEF KnownOf
    <3>2. f \notin known => hashes[f] = None
      BY <2>1, <2>3 DEF FileOf, KnownOf
    <3>3. ViewOf(f)'
      BY <1>0, <1>3, <2>1, <2>3, <3>2 DEF FileOf, ViewOf
    <3> QED BY <3>1, <3>3
  <2>6. GoneOf(f)'
    BY <1>0, <1>1, <1>3, <2>3 DEF GoneOf, Looking
  <2> QED BY <2>4, <2>5, <2>6 DEF FileOf
<1> QED BY <1>1, <1>4, <1>5, <1>6 DEF FilesOK

LEMMA HandlerFiles == ASSUME TypeInv, FilesOK, HandlerStep PROVE FilesOK'
BY HandleWriteFiles, HandleRemoveFiles, StatAndReadFiles, CheckHashFiles, CommitFileFiles,
   RemoveClientFiles DEF HandlerStep

-----------------------------------------------------------------------------
\* Reloads. Everybody but the one that goes on stays, the handler among them.
LEMMA ReloaderAlone ==
    ASSUME TypeInv, NEW p \in Reloaders, Others(p)
    PROVE  /\ job'[Handler] = job[Handler]
           /\ \A pl, f : At(pl, f)' <=> At(pl, f)
           /\ \A r \in Reloaders \ {p} : job'[r] = job[r]
BY Sets DEF Others, At

LEMMA ReloadGoto ==
    ASSUME TypeInv, NEW p \in Reloaders, NEW j, Goto(p, j), j.at # "dispatch"
    PROVE  job'[p] = j
BY Sets, Moves DEF TypeInv, JobTypes

LEMMA ReloadConfigFiles ==
    ASSUME TypeInv, FilesOK, NEW p \in Reloaders, NEW c, NEW affected, NEW force,
           ReloadConfig(p, c, affected, force)
    PROVE  FilesOK'
<1> DEFINE j == [at |-> IF affected = {} THEN "snapshot" ELSE "filter",
                 affected |-> affected, force |-> force]
<1>1. j.at \in {"filter", "snapshot"}
  OBVIOUS
<1>2. /\ Goto(p, j) /\ job[p] = Idle
      /\ SameFiles
  BY DEF ReloadConfig, SameFiles, code, history
<1> HIDE DEF j
<1>3. job'[p] = j
  BY <1>1, <1>2, ReloadGoto
<1>4. Others(p)
  BY <1>2, Sets, Moves DEF Others, TypeInv, JobTypes
<1>5. NobodyOnFiles
  BY <1>1, <1>2, <1>3, <1>4, ReloaderAlone DEF NobodyOnFiles, Idle, ReloadPlaces
<1> QED BY <1>2, <1>5, FilesStay

LEMMA FilterViewFiles ==
    ASSUME TypeInv, FilesOK, NEW p \in Reloaders, FilterView(p) PROVE FilesOK'
<1>1. Others(p) /\ job'[p].at = "snapshot"
  <2> DEFINE j == [job[p] EXCEPT !.at = "snapshot"]
  <2>1. job[p] \in [at : {"filter", "snapshot"}, affected : SUBSET Ids, force : BOOLEAN]
    BY Sets DEF FilterView, TypeInv, JobTypes, JobOK, ReloaderPlaces
  <2>2. j.at = "snapshot" /\ Goto(p, j)
    BY <2>1 DEF FilterView
  <2> HIDE DEF j
  <2> QED BY <2>2, ReloadGoto, Sets, Moves DEF Others, TypeInv, JobTypes
<1>2. /\ UNCHANGED <<disk, events, hashes, known, overwritten, forgotten>>
      /\ \A f \in Files : current'[f] = current[f] \/ current'[f] = None
      /\ job[p].at = "filter"
  BY Sets DEF FilterView, history
<1>3. Reloading'
  BY <1>1 DEF Reloading, ReloadPlaces
<1>4. /\ job'[Handler] = job[Handler]
      /\ \A pl, f : At(pl, f)' <=> At(pl, f)
      /\ \A r \in Reloaders \ {p} : job'[r] = job[r]
  BY <1>1, ReloaderAlone
<1>5. \A r \in Reloaders : \/ job'[r] = job[r]
                           \/ job[r].at = "filter" /\ job'[r].at = "snapshot"
  BY <1>1, <1>2, <1>4
<1>6. Excluded' /\ HashHeld'
  BY <1>2, <1>4, <1>5 DEF FilesOK, Excluded, HashHeld
<1>7. ASSUME NEW f \in Files PROVE FileOf(f)'
  <2>1. FileOf(f) /\ \A b : Mentioned(f, b) <=> Mentioned(f, b)'
    BY <1>2 DEF FilesOK, Mentioned
  <2>2. CacheOf(f)'
    BY <1>2, <1>4, <1>5, <2>1 DEF FileOf, CacheOf
  <2>3. KnownOf(f)' /\ ViewOf(f)'
    BY <1>2, <1>3, <1>4, <2>1 DEF FileOf, KnownOf, ViewOf
  <2>4. GoneOf(f)'
    BY <1>2, <1>4, <1>5, <2>1 DEF FileOf, GoneOf
  <2> QED BY <2>2, <2>3, <2>4 DEF FileOf
<1> QED BY <1>6, <1>7 DEF FilesOK

LEMMA ScanFilesFiles ==
    ASSUME TypeInv, FilesOK, NEW p \in Reloaders, ScanFiles(p) PROVE FilesOK'
<1> DEFINE j == [at |-> "scanned", seen |-> [f \in Files |-> Readable(f)]]
<1>1. Others(p) /\ job'[p] = j
  <2>1. Goto(p, j) /\ j.at # "dispatch"
    BY DEF ScanFiles
  <2> HIDE DEF j
  <2> QED BY <2>1, ReloadGoto, Sets, Moves DEF Others, TypeInv, JobTypes
<1>2. /\ UNCHANGED <<disk, events, hashes, known, current, overwritten, forgotten>>
      /\ job[p].at = "scan" /\ RescanFree
  BY DEF ScanFiles, code, history
<1>3. /\ job'[Handler] = job[Handler]
      /\ \A pl, f : At(pl, f)' <=> At(pl, f)
      /\ \A r \in Reloaders \ {p} : job'[r] = job[r]
  BY <1>1, ReloaderAlone
<1>4. /\ job[Handler].at \notin Handling
      /\ \A f : \A pl \in Looking : ~At(pl, f)
  BY <1>2 DEF RescanFree, Handling, Looking, At
<1>5. Excluded' /\ HashHeld'
  BY <1>3, <1>4 DEF Excluded, HashHeld, Handling
<1>6. Reloading'
  BY <1>1 DEF Reloading, ReloadPlaces
<1>7. ASSUME NEW f \in Files PROVE FileOf(f)'
  <2>1. FileOf(f) /\ \A b : Mentioned(f, b) <=> Mentioned(f, b)'
    BY <1>2 DEF FilesOK, Mentioned
  <2>2. /\ job'[p].at = "scanned" /\ job'[p].seen[f] = Readable(f)
        /\ disk[f] \in Versions => job'[p].seen[f] = disk[f]
        /\ disk[f] = None => job'[p].seen[f] = None
    BY <1>1 DEF Readable
  <2>3. CacheOf(f)'
    BY <1>2, <1>3, <1>4, <2>1, <2>2 DEF FileOf, CacheOf, Looking
  <2>4. KnownOf(f)' /\ ViewOf(f)'
    BY <1>2, <1>3, <1>6, <2>1 DEF FileOf, KnownOf, ViewOf
  <2>5. GoneOf(f)'
    BY <1>2, <1>3, <2>1, <2>2 DEF FileOf, GoneOf
  <2> QED BY <2>3, <2>4, <2>5 DEF FileOf
<1> QED BY <1>5, <1>7 DEF FilesOK

LEMMA ReplaceCacheFiles ==
    ASSUME TypeInv, FilesOK, NEW p \in Reloaders, ReplaceCache(p) PROVE FilesOK'
<1> DEFINE j == [at |-> "snapshot", affected |-> {}, force |-> FALSE]
<1>1. Others(p) /\ job'[p] = j
  <2>1. Goto(p, j) /\ j.at # "dispatch"
    BY DEF ReplaceCache
  <2> HIDE DEF j
  <2> QED BY <2>1, ReloadGoto, Sets, Moves DEF Others, TypeInv, JobTypes
<1>2. /\ UNCHANGED <<disk, events, current, overwritten, forgotten>>
      /\ job[p].at = "scanned" /\ hashes' = job[p].seen
      /\ \A f \in Files : hashes'[f] # None => f \in known'
  BY DEF ReplaceCache, history
<1>3. /\ job'[Handler] = job[Handler]
      /\ \A pl, f : At(pl, f)' <=> At(pl, f)
      /\ \A r \in Reloaders \ {p} : job'[r] = job[r]
      /\ job'[p].at = "snapshot"
  BY <1>1, ReloaderAlone
<1>4. /\ job[Handler].at \notin Handling
      /\ \A f : \A pl \in Looking : ~At(pl, f)
  BY <1>2 DEF FilesOK, Excluded, Handling, Looking, At
<1>5. Excluded' /\ HashHeld'
  BY <1>3, <1>4 DEF Excluded, HashHeld, Handling
<1>6. Reloading'
  BY <1>3 DEF Reloading, ReloadPlaces
<1>7. ASSUME NEW f \in Files PROVE FileOf(f)'
  <2>1. FileOf(f) /\ \A b : Mentioned(f, b) <=> Mentioned(f, b)'
    BY <1>2 DEF FilesOK, Mentioned
  <2>2. CacheOf(f)'
    <3>1. \A r \in Reloaders : job'[r].at = "scanned" => job'[r] = job[r]
      BY <1>3
    <3> QED BY <1>2, <1>3, <1>4, <2>1, <3>1 DEF FileOf, CacheOf, Looking
  <2>3. KnownOf(f)' /\ ViewOf(f)'
    BY <1>2, <1>6 DEF KnownOf, ViewOf
  <2>4. GoneOf(f)'
    <3>1. \A r \in Reloaders : job'[r].at \in {"scanned", "refresh"} => job'[r] = job[r]
      BY <1>3
    <3>2. disk[f] = None => hashes'[f] = None \/ Mentioned(f, TRUE)
      BY <1>2, <2>1 DEF FileOf, GoneOf
    <3>3. ~At("hash", f)' /\ ~At("commit", f)'
      BY <1>3, <1>4 DEF Looking
    <3> QED BY <1>2, <2>1, <3>1, <3>2, <3>3 DEF FileOf, GoneOf
  <2> QED BY <2>2, <2>3, <2>4 DEF FileOf
<1> QED BY <1>5, <1>7 DEF FilesOK

LEMMA SnapshotFiles ==
    ASSUME TypeInv, FilesOK, NEW p \in Reloaders, SnapshotCoreAuths(p) PROVE FilesOK'
<1> DEFINE j == [at |-> "refresh", force |-> job[p].force,
                 view |-> [i \in Files \cup Keys |->
                              IF i \in Files THEN Readable(i) ELSE config[i]]]
<1>1. Others(p) /\ job'[p] = j
  <2>1. Goto(p, j) /\ j.at # "dispatch"
    BY DEF SnapshotCoreAuths
  <2> HIDE DEF j
  <2> QED BY <2>1, ReloadGoto, Sets, Moves DEF Others, TypeInv, JobTypes
<1>2. /\ UNCHANGED <<disk, events, hashes, known, current, overwritten, forgotten>>
      /\ job[p].at = "snapshot"
  BY DEF SnapshotCoreAuths, code, history
<1>3. /\ job'[Handler] = job[Handler]
      /\ \A pl, f : At(pl, f)' <=> At(pl, f)
      /\ \A r \in Reloaders \ {p} : job'[r] = job[r]
      /\ job'[p].at = "refresh"
  BY <1>1, ReloaderAlone
<1>4. Excluded' /\ HashHeld'
  BY <1>2, <1>3 DEF FilesOK, Excluded, HashHeld
<1>5. Reloading'
  BY <1>3 DEF Reloading, ReloadPlaces
<1>6. ASSUME NEW f \in Files PROVE FileOf(f)'
  <2>1. FileOf(f) /\ \A b : Mentioned(f, b) <=> Mentioned(f, b)'
    BY <1>2 DEF FilesOK, Mentioned
  <2>2. disk[f] = None => job'[p].view[f] = None
    BY <1>1 DEF Readable
  <2>3. \A r \in Reloaders : /\ job[r].at \in {"scan", "scanned"} => job'[r] = job[r]
                             /\ job'[r].at = "scanned" => job'[r] = job[r]
    BY <1>2, <1>3
  <2>4. CacheOf(f)'
    BY <1>2, <1>3, <2>1, <2>3 DEF FileOf, CacheOf
  <2>5. KnownOf(f)' /\ ViewOf(f)'
    BY <1>2, <1>3, <1>5, <2>1 DEF FileOf, KnownOf, ViewOf
  <2>6. GoneOf(f)'
    BY <1>2, <1>3, <2>1, <2>2 DEF FileOf, GoneOf
  <2> QED BY <2>4, <2>5, <2>6 DEF FileOf
<1> QED BY <1>4, <1>6 DEF FilesOK

LEMMA RefreshFiles ==
    ASSUME TypeInv, FilesOK, NEW p \in Reloaders, RefreshAuthState(p) PROVE FilesOK'
<1>1. Others(p) /\ job'[p].at \in {"idle", "dispatch"}
  BY GoesToDispatch, Sets, Zenon DEF RefreshAuthState, Others, TypeInv, JobTypes
<1>2. /\ UNCHANGED <<disk, events, hashes, known>>
      /\ job[p].at = "refresh"
      /\ \A f \in Files : /\ current'[f] = job[p].view[f]
                          /\ f \in overwritten' <=> job[p].view[f] # hashes[f]
  BY Sets DEF RefreshAuthState, NewState
<1>3. \A f \in Files : f \in forgotten /\ f \notin forgotten' =>
                       job[p].view[f] = None /\ ~ReadBefore(p, f)
  BY Sets DEF RefreshAuthState, NewState
<1>4. /\ job'[Handler] = job[Handler]
      /\ \A pl, f : At(pl, f)' <=> At(pl, f)
      /\ \A r \in Reloaders \ {p} : job'[r] = job[r]
  BY <1>1, ReloaderAlone
<1>5. Excluded' /\ HashHeld'
  BY <1>1, <1>2, <1>4 DEF FilesOK, Excluded, HashHeld
<1>6. ASSUME NEW f \in Files PROVE FileOf(f)'
  <2>1. FileOf(f) /\ \A b : Mentioned(f, b) <=> Mentioned(f, b)'
    BY <1>2 DEF FilesOK, Mentioned
  <2>2. \A r \in Reloaders : /\ job[r].at \in {"scan", "scanned"} => job'[r] = job[r]
                             /\ job'[r].at \in {"scanned", "refresh"} => job'[r] = job[r] /\ r # p
    BY <1>1, <1>2, <1>4
  <2>3. CacheOf(f)'
    BY <1>2, <1>4, <2>1, <2>2 DEF FileOf, CacheOf
  <2>4. KnownOf(f)' /\ ViewOf(f)'
    <3>1. KnownOf(f)'
      BY <1>2, <1>4, <2>1 DEF FileOf, KnownOf
    <3>2. f \notin overwritten' => current'[f] = hashes'[f]
      BY <1>2
    <3> QED BY <3>1, <3>2 DEF ViewOf
  <2>5. GoneOf(f)'
    <3> SUFFICES ASSUME disk[f] = None PROVE GoneOf(f)'
      BY <1>2 DEF GoneOf
    <3>1. CASE f \in forgotten'
      BY <1>2, <1>4, <2>1, <2>2, <3>1 DEF FileOf, GoneOf
    <3>2. CASE f \in forgotten /\ f \notin forgotten'
      <4>1. job[p].view[f] = None /\ ~ReadBefore(p, f)
        BY <1>3, <3>2
      <4>2. \A r \in Reloaders \ {p} : job[r].at = "refresh" => job[r].view[f] = None
        BY <4>1 DEF ReadBefore
      <4>3. current'[f] = None
        BY <1>2, <4>1
      <4> QED BY <1>2, <1>4, <2>1, <2>2, <4>2, <4>3 DEF FileOf, GoneOf
    <3>3. CASE f \notin forgotten
      BY <1>2, <1>4, <2>1, <2>2, <3>3 DEF FileOf, GoneOf
    <3> QED BY <3>1, <3>2, <3>3
  <2> QED BY <2>3, <2>4, <2>5 DEF FileOf
<1> QED BY <1>5, <1>6 DEF FilesOK

LEMMA ReloaderFiles ==
    ASSUME TypeInv, FilesOK, NEW p \in Reloaders, ReloaderStep(p) PROVE FilesOK'
BY ReloadConfigFiles, FilterViewFiles, ScanFilesFiles, ReplaceCacheFiles, SnapshotFiles,
   RefreshFiles DEF ReloaderStep

-----------------------------------------------------------------------------
\* Calls, and updates that are handed over.
LEMMA CallerAlone ==
    ASSUME TypeInv, NEW p \in Callers, CallerStep(p)
    PROVE  /\ job'[Handler] = job[Handler]
           /\ \A pl, f : At(pl, f)' <=> At(pl, f)
           /\ \A r \in Reloaders : job'[r] = job[r]
           /\ Reloading' <=> Reloading
<1>1. Others(p) /\ p # Handler /\ p \notin Reloaders
  BY CallerMoves, Sets
<1>2. job'[Handler] = job[Handler] /\ \A r \in Reloaders : job'[r] = job[r]
  BY <1>1, Sets DEF Others
<1> QED BY <1>2 DEF At, Reloading

LEMMA CallerFiles == ASSUME TypeInv, FilesOK, NEW p \in Callers, CallerStep(p) PROVE FilesOK'
<1>0. /\ job'[Handler] = job[Handler]
      /\ \A r \in Reloaders : job'[r] = job[r]
      /\ Reloading' <=> Reloading
  BY CallerAlone
<1>1. ASSUME NEW c \in Channels, NEW v \in Val, RuntimeUpdate(p, c, v) PROVE FilesOK'
  <2>1. NobodyOnFiles
    BY <1>0 DEF NobodyOnFiles
  <2>2. current' = [current EXCEPT ![c] = v] /\ current \in [Ids -> Val]
    BY <1>1 DEF RuntimeUpdate, TypeInv, ViewTypes
  <2>3. \A f \in Files : current'[f] = current[f]
    BY <2>2, Sets
  <2>4. SameFiles
    BY <1>1, <2>3 DEF RuntimeUpdate, SameFiles
  <2> QED BY <2>1, <2>4, FilesStay
<1>2. ASSUME NEW f \in Files, NEW v \in Versions, SaveAuth(p, f, v) PROVE FilesOK'
  <2> DEFINE x == [file |-> f, gone |-> FALSE]
  <2>1. x \in Event /\ x.file = f /\ x.gone = (v = None)
    BY WatcherAssumption DEF Event
  <2>2. events' = Append(events, x)
    BY <1>2 DEF SaveAuth
  <2>3. /\ disk' = [disk EXCEPT ![f] = v]
        /\ UNCHANGED <<hashes, known, current, overwritten, forgotten>>
    BY <1>2 DEF SaveAuth, code, history
  <2>4. v \in Val \cup {Torn}
    BY Sets
  <2> HIDE DEF x
  <2> QED BY <1>0, <2>1, <2>2, <2>3, <2>4, WriteFiles
<1>3. CASE PersistedUpdate(p)
  <2>1. PICK f \in Files : f = job[p].file
    BY <1>3, Sets DEF PersistedUpdate, TypeInv, JobTypes, JobOK, CallerPlaces
  <2>2. PICK v \in Versions : v = job[p].data
    BY <1>3, Sets DEF PersistedUpdate, TypeInv, JobTypes, JobOK, CallerPlaces
  <2>3. /\ UNCHANGED <<disk, events, hashes, forgotten>>
        /\ known' = known \cup {f} /\ current' = [current EXCEPT ![f] = v]
        /\ current \in [Ids -> Val]
        /\ overwritten' = IF hashes[f] = v /\ disk[f] = v
                          THEN overwritten \ {f} ELSE overwritten \cup {f}
    BY <1>3, <2>1, <2>2 DEF PersistedUpdate, TypeInv, ViewTypes
  <2>4. /\ current'[f] = v /\ v # None
        /\ \A g \in Files \ {f} : current'[g] = current[g]
    BY <2>3, Sets, WatcherAssumption
  <2>5. Excluded' /\ HashHeld'
    BY <1>0, <2>3 DEF FilesOK, Excluded, HashHeld
  <2>6. ASSUME NEW g \in Files PROVE FileOf(g)'
    <3>1. FileOf(g) /\ \A b : Mentioned(g, b) <=> Mentioned(g, b)'
      BY <2>3 DEF FilesOK, Mentioned
    <3>2. /\ At("stat", g)' <=> At("stat", g)
          /\ At("read", g)' <=> At("read", g)
          /\ At("hash", g)' <=> At("hash", g)
          /\ At("commit", g)' <=> At("commit", g)
          /\ At("remove", g)' <=> At("remove", g)
      BY <1>0 DEF At
    <3>3. CacheOf(g)'
      BY <1>0, <2>3, <3>1, <3>2 DEF FileOf, CacheOf
    <3>4. KnownOf(g)'
      BY <2>3, <3>1, <3>2 DEF FileOf, KnownOf
    <3>5. CASE g # f
      <4>1. current'[g] = current[g] /\ (g \in overwritten' <=> g \in overwritten)
        BY <2>3, <2>4, <3>5
      <4>2. ViewOf(g)'
        BY <1>0, <2>3, <3>1, <3>2, <4>1 DEF FileOf, ViewOf
      <4>3. GoneOf(g)'
        BY <1>0, <2>3, <3>1, <3>2, <4>1 DEF FileOf, GoneOf
      <4> QED BY <3>3, <3>4, <4>2, <4>3 DEF FileOf
    <3>6. CASE g = f
      <4>1. ViewOf(g)'
        BY <2>3, <2>4, <3>6 DEF ViewOf
      <4>2. disk[g] = None => g \in overwritten'
        BY <2>3, <2>4, <3>6
      <4>3. GoneOf(g)'
        BY <1>0, <2>3, <3>1, <3>2, <4>2 DEF FileOf, GoneOf
      <4> QED BY <3>3, <3>4, <4>1, <4>3 DEF FileOf
    <3> QED BY <3>5, <3>6
  <2> QED BY <2>5, <2>6 DEF FilesOK
<1> QED BY <1>1, <1>2, <1>3 DEF CallerStep

LEMMA DispatchFiles ==
    ASSUME TypeInv, FilesOK, NEW p \in Procs, DispatchAuthUpdates(p) PROVE FilesOK'
<1>1. SameFiles
  BY DEF DispatchAuthUpdates, SameFiles, history
<1>2. Others(p) /\ job'[p] = Idle /\ job[p].at = "dispatch"
  BY DispatchMoves DEF DispatchAuthUpdates
<1>3. job'[p].at = "idle" /\ \A q \in Procs : q # p => job'[q] = job[q]
  BY <1>2 DEF Others, Idle
<1>4. NobodyOnFiles
  <2>1. \/ job'[Handler] = job[Handler]
        \/ job'[Handler].at = "idle" /\ job[Handler].at = "dispatch"
    BY <1>2, <1>3, Sets
  <2>2. ASSUME NEW r \in Reloaders
        PROVE  \/ job'[r] = job[r]
               \/ job'[r].at = "idle" /\ job[r].at = "dispatch"
    BY <1>2, <1>3, Sets
  <2> QED BY <2>1, <2>2 DEF NobodyOnFiles, ReloadPlaces
<1> QED BY <1>1, <1>4, FilesStay

LEMMA NextFiles == ASSUME TypeInv, FilesOK, [WatcherNext]_watcherVars PROVE FilesOK'
<1>1. CASE UNCHANGED watcherVars
  <2>1. SameFiles /\ NobodyOnFiles
    BY <1>1 DEF watcherVars, code, history, SameFiles, NobodyOnFiles
  <2> QED BY <2>1, FilesStay
<1> QED BY <1>1, NextSteps, EnvironmentFiles, HandlerFiles, ReloaderFiles, CallerFiles,
           DispatchFiles

LEMMA InitFiles == ASSUME WatcherInit PROVE FilesOK
<1>1. PICK s \in Reloaders : job = [p \in Procs |-> IF p = s THEN [at |-> "scan"] ELSE Idle]
  BY DEF WatcherInit
<1>2. /\ \A p \in Procs : job[p].at \in {"idle", "scan"}
      /\ job[Handler].at = "idle" /\ job[s].at = "scan" /\ s \in Procs
  BY <1>1, Sets DEF Idle
<1>3. Excluded /\ HashHeld
  BY <1>2 DEF Excluded, HashHeld, Handling
<1>4. ASSUME NEW f \in Files PROVE FileOf(f)
  <2>1. /\ hashes[f] = None /\ current[f] = None
        /\ \A pl \in Looking : ~At(pl, f)
        /\ \A r \in Reloaders : job[r].at \notin {"scanned", "refresh"}
    BY <1>2, Sets DEF WatcherInit, At, Looking
  <2>2. Reloading
    BY InitReloading
  <2> QED BY <1>2, <2>1, <2>2 DEF FileOf, CacheOf, KnownOf, ViewOf, GoneOf, Looking
<1> QED BY <1>3, <1>4 DEF FilesOK

\* What is left when all is quiet about a file.
LEMMA QuietFile ==
    ASSUME NEW f \in Files, Quiet(f)
    PROVE  /\ \A b : ~Mentioned(f, b)
           /\ \A pl \in Looking : ~At(pl, f)
           /\ \A r \in Reloaders : job[r].at \notin {"scan", "scanned", "refresh"}
           /\ ~Reloading
<1>1. \A b : ~Mentioned(f, b)
  BY DEF Quiet, Mentioned
<1>2. \A pl \in Looking : ~At(pl, f)
  BY Sets DEF Quiet, At, Looking
<1>3. \A r \in Reloaders : job[r].at \notin {"scan", "scanned", "refresh"}
  BY Sets DEF Quiet
<1> QED BY <1>1, <1>2, <1>3, QuietMeansLoaded

\* The cache of the hashes is never behind the files, however the reads of the
\* files, their changes and the events about them interleave.
THEOREM CacheFollows == WatcherSpec => []CacheMirrorsDisk
<1>1. FilesOK => CacheMirrorsDisk
  <2> SUFFICES ASSUME FilesOK, NEW f \in Files, Quiet(f), disk[f] \in Versions
               PROVE  hashes[f] = disk[f]
    BY DEF CacheMirrorsDisk
  <2>1. CacheOf(f)
    BY DEF FilesOK, FileOf
  <2> QED BY <2>1, QuietFile DEF CacheOf, Looking
<1> QED BY <1>1, InitTypes, InitFiles, NextTypes, NextFiles, PTL DEF WatcherSpec

\* The view is what the files contain, but for files whose view was set behind
\* the cache and for removals that were ignored.
THEOREM ViewFollows == WatcherSpec => []ViewMirrorsDisk
<1>1. TypeInv /\ FilesOK => ViewMirrorsDisk
  <2> SUFFICES ASSUME TypeInv, FilesOK, NEW f \in Files, Quiet(f), disk[f] # Torn,
                      f \notin overwritten, f \notin forgotten
               PROVE  current[f] = disk[f]
    BY DEF ViewMirrorsDisk
  <2>1. /\ \A b : ~Mentioned(f, b)
        /\ ~At("stat", f) /\ ~At("read", f) /\ ~At("hash", f) /\ ~At("commit", f)
        /\ ~At("remove", f)
        /\ \A r \in Reloaders : job[r].at \notin {"scan", "scanned", "refresh"}
        /\ ~Reloading
    BY QuietFile DEF Looking
  <2>2. current[f] = hashes[f]
    BY <2>1 DEF FilesOK, FileOf, ViewOf
  <2>3. CASE disk[f] \in Versions
    BY <2>1, <2>2, <2>3 DEF FilesOK, FileOf, CacheOf
  <2>4. CASE disk[f] = None
    BY <2>1, <2>2, <2>4 DEF FilesOK, FileOf, GoneOf
  <2>5. disk[f] \in Versions \cup {None}
    BY DEF TypeInv, SourceTypes, Val
  <2> QED BY <2>3, <2>4, <2>5
<1> QED BY <1>1, InitTypes, InitFiles, NextTypes, NextFiles, PTL DEF WatcherSpec
=============================================================================
