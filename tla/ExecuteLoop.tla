---------------------------- MODULE ExecuteLoop ----------------------------
(***************************************************************************)
(* What the manager does with one request (conductor.go: Execute,          *)
(* ExecuteCount, ExecuteStream): it tries credential after credential and  *)
(* every upstream model of a credential's pool, waits for a cooldown and   *)
(* starts again, goes on to the next target of a virtual model, and at     *)
(* last tries the paid credits.  The client may cancel at any time.        *)
(*                                                                         *)
(* The three loops of the code are copies of each other; a kind of request *)
(* says whether it streams, may fall back to paid credits, which targets   *)
(* it has and the max-retry-credentials it was started under (0: no        *)
(* limit).  The block of a credential for a model is the time that is left *)
(* of it: AuthCooldown says where it comes from, ModelScheduler which of   *)
(* the credentials that may be picked is.  The results of other requests   *)
(* set and lift blocks at any time.  Requests dispatched by the home       *)
(* control plane are not modelled.                                         *)
(***************************************************************************)
EXTENDS Naturals, Sequences, FiniteSets, FiniteSetsExt, SequencesExt

CONSTANTS
    Kinds,         \* what may be requested: [streaming, credited, targets, limit]
    Auths, Provider, Models,
    Pool,          \* Pool[a][m]: the upstream models a credential has for m
    Preparing,     \* credentials whose executor prepares them first
    CreditAuths,   \* candidates of the paid credits
    Cooling,       \* credentials whose cooldowns are not switched off
    Retry,         \* Retry[a]: request-retry, or the credential's own
    MaxWait,       \* max-retry-interval
    Cooldowns,     \* lengths of blocks (a bound)
    NoAuth

ASSUME LoopAssumption ==
    /\ IsFiniteSet(Auths)
    /\ \A k \in Kinds :
          /\ Len(k.targets) \in Nat \ {0} /\ DOMAIN k.targets = 1..Len(k.targets)
          /\ \A t \in DOMAIN k.targets : k.targets[t].model \in Models
          /\ k.limit \in Nat
          /\ k.credited => Len(k.targets) = 1   \* executeVirtualChain has no fallback
    /\ Preparing \cup CreditAuths \cup Cooling \subseteq Auths /\ NoAuth \notin Auths
    /\ Retry \in [Auths -> Nat]
    /\ \A a \in Auths, m \in Models : Pool[a][m] \in Seq(Models) \ {<<>>}
    /\ MaxWait \in Nat /\ Cooldowns \subseteq Nat \ {0}

VARIABLES
    kind,    \* what is requested
    block,   \* block[a][m]: time until a may be used for m again
    req,     \* where the request is, with the local variables of the loops
    ledger   \* history: the calls that were made, the results reported, and
             \* whether a result was that the request itself is invalid

vars == <<kind, block, req, ledger>>

NoError == [kind |-> "none", after |-> 0]
Plain(k) == [kind |-> k, after |-> 0]
Ok == Plain("ok")
Canceled == Plain("ctx")

\* What an executor may answer; a 429 may say when to come back.
Failures ==
    {Plain(k) : k \in {"invalid", "unsupported", "down", "other", "limited"}}
        \cup {[kind |-> "limited", after |-> d] : d \in Cooldowns}

Invalid(e) == e.kind = "invalid"

Target == kind.targets[req.target]
Route == Target.model

\* The credentials that serve a target.
Serving(t) == {a \in Auths : Provider[a] \in kind.targets[t].providers}
Offered == Serving(req.target)

\* stateModelForExecution: the model a result is booked under.
StateModel(a, m, upstream) == IF Len(Pool[a][m]) > 1 THEN upstream ELSE m

At(pc) == req.pc = pc
Finish(e) == req' = [req EXCEPT !.pc = "done", !.last = e]

\* executeMixedOnce returns an error.
ReturnOnce(e) == req' = [req EXCEPT !.pc = "decide", !.last = e]

-----------------------------------------------------------------------------
(* One attempt: executeMixedOnce and its copies.                           *)

CredentialsSpent ==
    kind.limit > 0 /\ Cardinality(req.attempted) >= kind.limit

\* Without a further credential the attempt returns its last error.
Exhausted == IF req.last = NoError THEN Plain("nopick") ELSE req.last

GiveUp ==
    /\ At("pick") /\ CredentialsSpent
    /\ ReturnOnce(Exhausted)
    /\ UNCHANGED <<kind, block, ledger>>

Candidates == {a \in Offered \ req.tried : block[a][Route] = 0}

\* rotateStrings(pool, offset), for whatever offset other requests have left.
Rotations(pool) == {SubSeq(pool, k, Len(pool)) \o SubSeq(pool, 1, k - 1) : k \in DOMAIN pool}

\* The members of s at the positions K, in their order.
AtPositions(s, K) ==
    [n \in 1..Cardinality(K) |-> s[CHOOSE k \in K : Cardinality({j \in K : j < k}) = n - 1]]

\* filterExecutionModels: the upstream models that are not blocked.
FreeModels(a, pool) ==
    AtPositions(pool, {k \in DOMAIN pool : block[a][StateModel(a, Route, pool[k])] = 0})

\* Mutant of PickNextMixed: only a credential with a free upstream model counts
\* as tried.
PickNextMixedForgets ==
    /\ At("pick") /\ ~CredentialsSpent
    /\ \E a \in Candidates : \E pool \in Rotations(Pool[a][Route]) :
          LET free == FreeModels(a, pool)
          IN req' = IF free = <<>> THEN req
                    ELSE [req EXCEPT !.pc = "prepare", !.auth = a, !.models = free,
                                     !.tried = @ \cup {a}, !.attempted = @ \cup {a}]
    /\ UNCHANGED <<kind, block, ledger>>

\* preparedExecutionModels looks at the clone that was picked: upstream models
\* that were blocked then are left out, and without any the next is picked.
PickNextMixed ==
    /\ At("pick") /\ ~CredentialsSpent
    /\ \E a \in Candidates : \E pool \in Rotations(Pool[a][Route]) :
          LET free   == FreeModels(a, pool)
              picked == [req EXCEPT !.tried = @ \cup {a}]
          IN req' = IF free = <<>> THEN picked
                    ELSE [picked EXCEPT !.pc = "prepare", !.auth = a, !.models = free,
                                        !.attempted = @ \cup {a}]
    /\ UNCHANGED <<kind, block, ledger>>

PickFails ==
    /\ At("pick") /\ ~CredentialsSpent /\ Candidates = {}
    /\ ReturnOnce(Exhausted)
    /\ UNCHANGED <<kind, block, ledger>>

\* What a result does to a block: all but a missing item of the request
\* overwrite it, and a 500 of unknown cause counts as invalid but blocks.
BlockAfter(a, e, old) ==
    CASE e.kind \in {"ok", "other"} -> {0}
      [] e.kind = "unsupported"     -> Cooldowns
      [] e.kind = "invalid" -> {0, old} \cup IF a \in Cooling THEN Cooldowns ELSE {}
      [] e.kind \in {"limited", "down"} ->
            IF a \notin Cooling THEN {0} ELSE IF e.after > 0 THEN {e.after} ELSE Cooldowns

MarkResult(a, m, e) ==
    \E b \in BlockAfter(a, e, block[a][m]) : block' = [block EXCEPT ![a][m] = b]

Reported == [ledger EXCEPT !.results = @ + 1]

\* prepareRequestAuth; a failure is booked under the route's model.
PrepareRequestAuth ==
    /\ At("prepare")
    /\ \/ req' = [req EXCEPT !.pc = "call"] /\ UNCHANGED block
       \/ /\ req.auth \in Preparing
          /\ \E e \in {Plain("down"), Plain("other")} :
                /\ MarkResult(req.auth, Route, e)
                /\ req' = [req EXCEPT !.pc = "pick", !.auth = NoAuth, !.models = <<>>,
                                      !.last = e]
    /\ UNCHANGED <<kind, ledger>>

\* The executor returns. When the request was canceled meanwhile a failure is
\* nobody's fault and ends the attempt; only the paid credits book it, unless
\* they stream. A stream is handed over as soon as it has a first payload.
CallReturns ==
    /\ At("call")
    /\ \E e \in Failures \cup {Ok} :
          CASE e = Ok /\ kind.streaming -> req' = [req EXCEPT !.pc = "stream"]
            [] e # Ok /\ req.canceled /\ ~req.paid -> ReturnOnce(Canceled)
            [] e # Ok /\ req.canceled /\ req.paid /\ kind.streaming ->
                  req' = [req EXCEPT !.pc = "credits", !.models = <<>>]
            [] OTHER -> req' = [req EXCEPT !.pc = "mark", !.result = e]
    /\ ledger' = [ledger EXCEPT !.calls = @ + 1]
    /\ UNCHANGED <<kind, block>>

\* A stream that fails before its first payload loses the Retry-After of its
\* last error on the way (streamBootstrapError).
Wrapped(e) == IF kind.streaming THEN {e, Plain(e.kind)} ELSE {e}

\* Where the request goes on once a failed call of the pool is reported.
AfterFailure(e) ==
    LET rest == [req EXCEPT !.models = Tail(@), !.result = NoError]
        next == [rest EXCEPT !.auth = NoAuth, !.models = <<>>]
        stop == Invalid(e) /\ (~req.paid \/ kind.streaming)
    IN IF ~stop /\ rest.models # <<>> THEN {[rest EXCEPT !.pc = "call"]}
       ELSE IF req.paid THEN {[next EXCEPT !.pc = "credits"]}
       ELSE IF kind.streaming /\ req.canceled
            THEN {[next EXCEPT !.pc = "decide", !.last = Canceled]}
       ELSE IF stop THEN {[next EXCEPT !.pc = "decide", !.last = e]}
       ELSE {[next EXCEPT !.pc = "pick", !.last = w] : w \in Wrapped(e)}

\* MarkResult, and what follows.
Report ==
    /\ At("mark")
    /\ MarkResult(req.auth, StateModel(req.auth, Route, Head(req.models)), req.result)
    /\ IF req.result = Ok THEN Finish(Ok) ELSE req' \in AfterFailure(req.result)
    /\ ledger' = [Reported EXCEPT !.invalid = @ \/ (Invalid(req.result) /\ ~req.paid)]
    /\ UNCHANGED kind

\* Mutant of StreamEnds: a stream that breaks off is not reported.
StreamEndsQuietly ==
    /\ At("stream")
    /\ \/ /\ MarkResult(req.auth, StateModel(req.auth, Route, Head(req.models)), Ok)
          /\ ledger' = Reported
       \/ UNCHANGED <<block, ledger>>
    /\ \E e \in {Ok, Canceled} \cup Failures : Finish(e)
    /\ UNCHANGED kind

\* wrapStreamResult: the stream ends with an error, or without one, and is
\* reported; or its reader has gone and it is not.
StreamEnds ==
    /\ At("stream")
    /\ \/ \E e \in {Ok, Plain("invalid"), Plain("down"), Plain("limited"), Plain("other")} :
             /\ MarkResult(req.auth, StateModel(req.auth, Route, Head(req.models)), e)
             /\ ledger' = Reported
             /\ Finish(e)
       \/ req.canceled /\ Finish(Canceled) /\ UNCHANGED <<block, ledger>>
    /\ UNCHANGED kind

-----------------------------------------------------------------------------
(* Between attempts.                                                       *)

\* Credentials of the target's providers that allow one more attempt.
Retrying == {a \in Offered : req.attempt < Retry[a]}

\* closestCooldownWait.
Waits == {block[a][Route] : a \in Retrying} \ {0}

NoDelay == 0
UpTo(d) == IF d <= MaxWait THEN d ELSE NoDelay

\* Mutant of RetryDelay: however often the request was tried before.
RetryDelayAlways ==
    LET waits == {block[a][Route] : a \in Offered} \ {0}
    IN IF MaxWait = 0 \/ Invalid(req.last) \/ waits = {} THEN NoDelay ELSE UpTo(Min(waits))

\* shouldRetryAfterError: wait for the closest cooldown, or for what a 429
\* asks when no credential is blocked, but never longer than MaxWait.
RetryDelay ==
    IF MaxWait = 0 \/ Invalid(req.last) THEN NoDelay
    ELSE IF Waits # {} THEN UpTo(Min(Waits))
    ELSE IF req.last.kind = "limited" /\ Retrying # {} THEN UpTo(req.last.after)
    ELSE NoDelay

\* The locals of executeMixedOnce.
Fresh ==
    [req EXCEPT !.tried = {}, !.attempted = {}, !.auth = NoAuth, !.models = <<>>,
                !.result = NoError]

RetryAfterWait ==
    /\ At("decide") /\ RetryDelay > 0
    /\ req' = [Fresh EXCEPT !.pc = "wait", !.wait = RetryDelay, !.attempt = @ + 1,
                            !.last = NoError]
    /\ UNCHANGED <<kind, block, ledger>>

WaitForCooldown ==
    /\ At("wait")
    /\ \/ req.wait = 0 /\ req' = [req EXCEPT !.pc = "pick"]
       \/ req.canceled /\ Finish(Canceled)
    /\ UNCHANGED <<kind, block, ledger>>

LastTarget == req.target = Len(kind.targets)

\* Mutant of FallsBack: every error goes on to the next target.
FallsBackAlways == ~LastTarget

\* shouldFallbackVirtualTarget.
FallsBack == ~LastTarget /\ ~Invalid(req.last)

NextTarget ==
    /\ At("decide") /\ RetryDelay = NoDelay /\ FallsBack
    /\ req' = [Fresh EXCEPT !.pc = "pick", !.target = @ + 1, !.attempt = 0,
                            !.last = NoError]
    /\ UNCHANGED <<kind, block, ledger>>

\* The last error goes to the client, unless it is a 429, a 503 or a lack of
\* credentials, which make the paid credits worth a try.
GiveAnswer ==
    /\ At("decide") /\ RetryDelay = NoDelay /\ ~FallsBack
    /\ \/ /\ ~kind.credited \/ req.last.kind \notin {"limited", "nopick"}
          /\ Finish(req.last)
       \/ /\ kind.credited /\ req.last.kind \in {"limited", "down", "nopick"}
          /\ req' = [Fresh EXCEPT !.pc = "credits", !.paid = TRUE, !.credits = CreditAuths]
    /\ UNCHANGED <<kind, block, ledger>>

\* tryAntigravityCreditsExecute: every candidate in turn, whatever blocks it.
\* Which candidate comes first is a matter of hints and names.
TryCredits ==
    /\ At("credits")
    /\ \/ (req.canceled \/ req.credits = {}) /\ Finish(req.last)
       \/ /\ ~req.canceled
          /\ \E a \in req.credits :
                LET taken == [req EXCEPT !.credits = @ \ {a}]
                IN \/ \E pool \in Rotations(Pool[a][Route]) :
                         req' = [taken EXCEPT !.pc = "call", !.auth = a, !.models = pool]
                   \/ a \in Preparing /\ req' = taken
    /\ UNCHANGED <<kind, block, ledger>>

-----------------------------------------------------------------------------
(* The client, the other requests and the clock.                           *)

Cancel ==
    /\ ~At("done") /\ ~req.canceled
    /\ req' = [req EXCEPT !.canceled = TRUE]
    /\ UNCHANGED <<kind, block, ledger>>

\* Another request for the same model reports a result.
OthersReport ==
    /\ \E a \in Auths : \E u \in ToSet(Pool[a][Route]) :
          LET booked == StateModel(a, Route, u)
          IN \E b \in UNION {BlockAfter(a, e, block[a][booked]) : e \in Failures \cup {Ok}} :
                block' = [block EXCEPT ![a][booked] = b]
    /\ UNCHANGED <<kind, req, ledger>>

Less(n) == IF n = 0 THEN 0 ELSE n - 1

Tick ==
    /\ block' = [a \in Auths |-> [m \in Models |-> Less(block[a][m])]]
    /\ req' = [req EXCEPT !.wait = Less(@)]
    /\ UNCHANGED <<kind, ledger>>

Init ==
    /\ kind \in Kinds
    /\ block = [a \in Auths |-> [m \in Models |-> 0]]
    /\ req = [pc |-> "pick", target |-> 1, attempt |-> 0, tried |-> {}, attempted |-> {},
              auth |-> NoAuth, models |-> <<>>, result |-> NoError, last |-> NoError,
              wait |-> 0, paid |-> FALSE, credits |-> {}, canceled |-> FALSE]
    /\ ledger = [calls |-> 0, results |-> 0, invalid |-> FALSE]

Step ==
    \/ GiveUp \/ PickNextMixed \/ PickFails \/ PrepareRequestAuth \/ CallReturns
    \/ Report \/ StreamEnds \/ RetryAfterWait \/ WaitForCooldown \/ NextTarget
    \/ GiveAnswer \/ TryCredits

Next == Step \/ Cancel \/ OthersReport \/ Tick

\* Executors and streams end, time passes, and a goroutine that can run does.
Spec == Init /\ [][Next]_vars /\ WF_vars(Tick) /\ WF_vars(Step)

-----------------------------------------------------------------------------
(* Properties.                                                             *)

\* A call that has returned and waits to be reported, or streams.
Open == IF req.pc \in {"mark", "stream"} THEN 1 ELSE 0

\* Every call is reported once: at once, or when its stream ends. Only what a
\* cancellation interrupts may go unreported, and nothing is reported twice
\* (executeMixedOnce, executeStreamWithModelPool, wrapStreamResult).
EachCallReported ==
    /\ ledger.results + Open <= ledger.calls
    /\ ~req.canceled => ledger.results + Open = ledger.calls

\* The calls it takes to try every upstream model that credentials have for m.
CallsToTry(S, m) == SumFunctionOnSet([a \in Auths |-> Len(Pool[a][m])], S)

\* Each wait takes an attempt from a credential that allows a further one.
MostAttempts(t) == 1 + Max({0} \cup {Retry[a] : a \in Serving(t)})

MostOfTargets ==
    [t \in DOMAIN kind.targets |->
        MostAttempts(t) * CallsToTry(Serving(t), kind.targets[t].model)]

MostCalls ==
    SumFunctionOnSet(MostOfTargets, DOMAIN kind.targets)
        + IF kind.credited THEN CallsToTry(CreditAuths, kind.targets[1].model) ELSE 0

\* However cooldowns come and go, a request makes no more calls than its
\* targets' attempts times the upstream models of their credentials: an
\* attempt never takes a credential twice, and attempts are counted over all
\* waits (shouldRetryAfterError).
CallsBounded == ledger.calls <= MostCalls

\* "switching auths or pooled upstream models will not help" an invalid
\* request (isRequestInvalidError): once a call said so no further one is
\* made, by another credential, another attempt, another target or the paid
\* credits, unless the request was canceled, which replaces the error.
InvalidIsFinal ==
    [][ledger.invalid /\ ~req.canceled => ledger'.calls = ledger.calls]_vars

\* Every request is answered, whatever other requests report meanwhile.
RequestEnds == <>At("done")

=============================================================================
