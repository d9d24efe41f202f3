---------------------------- MODULE ExecuteProofs ----------------------------
(***************************************************************************)
(* For any credentials, pools, targets and settings: every call a request  *)
(* makes is reported once, an invalid request makes no further call, and   *)
(* no request makes more calls than its attempts allow.                    *)
(***************************************************************************)
EXTENDS ExecuteLoop, SetLemmas

Fields == {"pc", "target", "attempt", "tried", "attempted", "auth", "models", "result",
           "last", "wait", "paid", "credits", "canceled"}

\* As much of the types as the arguments need: what the pools of upstream
\* models hold plays no part in them.
Shape ==
    /\ DOMAIN req = Fields
    /\ req.canceled \in BOOLEAN
    /\ ledger \in [calls : Nat, results : Nat, invalid : BOOLEAN]

\* A request known to be invalid is about to be answered so, or answered.
Answering ==
    ledger.invalid /\ ~req.canceled => At("done") \/ (At("decide") /\ Invalid(req.last))

IInv == Shape /\ EachCallReported /\ Answering

-----------------------------------------------------------------------------
\* The inductive invariant holds at the start ...
LEMMA InitIInv == Init => IInv
BY DEF Init, IInv, Shape, Fields, EachCallReported, Open, Answering

\* Where nothing is called and nothing reported, only the place matters.
LEMMA QuietStep ==
    ASSUME IInv, UNCHANGED ledger, DOMAIN req' = Fields, req'.canceled \in BOOLEAN,
           req.canceled => req'.canceled, Open' = Open,
           ledger.invalid /\ ~req'.canceled
             => req'.pc = "done" \/ (req'.pc = "decide" /\ Invalid(req'.last))
    PROVE  IInv' /\ (ledger.invalid /\ ~req.canceled => ledger'.calls = ledger.calls)
BY DEF IInv, Shape, EachCallReported, Answering, At

LEMMA GiveUpStep ==
    ASSUME IInv, GiveUp \/ PickFails
    PROVE  IInv' /\ (ledger.invalid /\ ~req.canceled => ledger'.calls = ledger.calls)
<1>1. At("pick") /\ ReturnOnce(Exhausted) /\ UNCHANGED ledger
  BY DEF GiveUp, PickFails
<1>2. req.pc = "pick" /\ req'.pc = "decide" /\ req'.canceled = req.canceled
        /\ DOMAIN req' = Fields
  BY <1>1 DEF At, ReturnOnce, IInv, Shape, Fields
<1> QED BY <1>1, <1>2, QuietStep DEF IInv, Shape, Answering, At, Open

LEMMA PickNextMixedStep ==
    ASSUME IInv, PickNextMixed
    PROVE  IInv' /\ (ledger.invalid /\ ~req.canceled => ledger'.calls = ledger.calls)
<1>1. req.pc = "pick" /\ req'.pc \in {"pick", "prepare"} /\ req'.canceled = req.canceled
        /\ DOMAIN req' = Fields /\ UNCHANGED ledger
  BY DEF PickNextMixed, At, IInv, Shape, Fields
<1> QED BY <1>1, QuietStep DEF IInv, Shape, Answering, At, Open

LEMMA PrepareStep ==
    ASSUME IInv, PrepareRequestAuth
    PROVE  IInv' /\ (ledger.invalid /\ ~req.canceled => ledger'.calls = ledger.calls)
<1>1. req.pc = "prepare" /\ req'.pc \in {"pick", "call"} /\ req'.canceled = req.canceled
        /\ DOMAIN req' = Fields /\ UNCHANGED ledger
  BY DEF PrepareRequestAuth, At, IInv, Shape, Fields
<1> QED BY <1>1, QuietStep DEF IInv, Shape, Answering, At, Open

LEMMA CallReturnsStep ==
    ASSUME IInv, CallReturns
    PROVE  IInv' /\ (ledger.invalid /\ ~req.canceled => ledger'.calls = ledger.calls)
<1>1. req.pc = "call" /\ ledger' = [ledger EXCEPT !.calls = @ + 1]
  BY DEF CallReturns, At
<1>2. \/ req' = [req EXCEPT !.pc = "stream"]
      \/ req.canceled /\ ReturnOnce(Canceled)
      \/ req.canceled /\ req' = [req EXCEPT !.pc = "credits", !.models = <<>>]
      \/ \E e \in Failures \cup {Ok} : req' = [req EXCEPT !.pc = "mark", !.result = e]
  BY DEF CallReturns
<1>3. /\ DOMAIN req' = Fields /\ req'.canceled = req.canceled
      /\ req'.pc \in {"stream", "mark"} \/ (req.canceled /\ req'.pc \in {"decide", "credits"})
  BY <1>2 DEF ReturnOnce, IInv, Shape, Fields
<1>4. ledger'.calls = ledger.calls + 1 /\ ledger'.results = ledger.results
        /\ ledger'.invalid = ledger.invalid /\ Shape'
  BY <1>1, <1>3 DEF IInv, Shape
<1> QED BY <1>1, <1>3, <1>4 DEF IInv, Shape, EachCallReported, Open, Answering, At

LEMMA ReportStep ==
    ASSUME IInv, Report
    PROVE  IInv' /\ (ledger.invalid /\ ~req.canceled => ledger'.calls = ledger.calls)
<1>1. req.pc = "mark"
        /\ ledger' = [Reported EXCEPT !.invalid = @ \/ (Invalid(req.result) /\ ~req.paid)]
  BY DEF Report, At
<1>4. ASSUME NEW b \in BOOLEAN, ledger' = [Reported EXCEPT !.invalid = b]
      PROVE  /\ ledger'.calls = ledger.calls /\ ledger'.results = ledger.results + 1
             /\ ledger'.invalid = b
             /\ ledger' \in [calls : Nat, results : Nat, invalid : BOOLEAN]
  <2>1. /\ Reported \in [calls : Nat, results : Nat, invalid : BOOLEAN]
        /\ Reported.calls = ledger.calls /\ Reported.results = ledger.results + 1
    BY DEF Reported, IInv, Shape
  <2> QED BY <1>4, <2>1
<1> DEFINE b == Reported.invalid \/ (Invalid(req.result) /\ ~req.paid)
<1>5. /\ ledger'.calls = ledger.calls /\ ledger'.results = ledger.results + 1
      /\ ledger'.invalid = b
      /\ ledger' \in [calls : Nat, results : Nat, invalid : BOOLEAN]
  <2>1. b \in BOOLEAN /\ ledger' = [Reported EXCEPT !.invalid = b]
    BY <1>1
  <2> HIDE DEF b
  <2> QED BY <1>4, <2>1
<1>6. ledger'.invalid <=> ledger.invalid \/ (Invalid(req.result) /\ ~req.paid)
  BY <1>5 DEF Reported, IInv, Shape
<1> HIDE DEF b
<1>2. CASE req.result = Ok
  <2>1. req'.pc = "done" /\ DOMAIN req' = Fields /\ req'.canceled = req.canceled
    BY <1>2 DEF Report, Finish, IInv, Shape, Fields
  <2>2. ~Invalid(req.result)
    BY <1>2 DEF Ok, Plain, Invalid
  <2>3. ledger.invalid => req.canceled
    BY <1>1 DEF IInv, Answering, At
  <2> QED BY <1>1, <1>5, <1>6, <2>1, <2>2, <2>3
          DEF IInv, Shape, EachCallReported, Open, Answering, At
<1>3. CASE req.result # Ok
  <2>1. req' \in AfterFailure(req.result)
    BY <1>3 DEF Report
  <2> DEFINE rest == [req EXCEPT !.models = Tail(@), !.result = NoError]
             next == [rest EXCEPT !.auth = NoAuth, !.models = <<>>]
             stop == Invalid(req.result) /\ (~req.paid \/ kind.streaming)
  <2>5. DOMAIN rest = Fields /\ rest.canceled = req.canceled
    BY DEF IInv, Shape, Fields
  <2>6. DOMAIN next = Fields /\ next.canceled = req.canceled
    BY <2>5 DEF Fields
  <2>7. \/ ~stop /\ req' = [rest EXCEPT !.pc = "call"]
        \/ req.paid /\ req' = [next EXCEPT !.pc = "credits"]
        \/ req.canceled /\ req' = [next EXCEPT !.pc = "decide", !.last = Canceled]
        \/ req' = [next EXCEPT !.pc = "decide", !.last = req.result]
        \/ ~stop /\ \E w \in Wrapped(req.result) :
                       req' = [next EXCEPT !.pc = "pick", !.last = w]
    BY <2>1 DEF AfterFailure
  <2> HIDE DEF rest, next
  <2>2. DOMAIN req' = Fields /\ req'.canceled = req.canceled
          /\ req'.pc \in {"call", "credits", "decide", "pick"}
    BY <2>5, <2>6, <2>7 DEF Fields
  <2>3. ~req.canceled /\ Invalid(req.result) /\ ~req.paid
          => req'.pc = "decide" /\ Invalid(req'.last)
    BY <2>5, <2>6, <2>7 DEF Fields
  <2>4. ~(ledger.invalid /\ ~req.canceled)
    BY <1>1 DEF IInv, Answering, At
  <2> QED BY <1>1, <1>5, <1>6, <2>2, <2>3, <2>4
          DEF IInv, Shape, EachCallReported, Open, Answering, At
<1> QED BY <1>2, <1>3

LEMMA StreamEndsStep ==
    ASSUME IInv, StreamEnds
    PROVE  IInv' /\ (ledger.invalid /\ ~req.canceled => ledger'.calls = ledger.calls)
<1>1. /\ req.pc = "stream"
      /\ \E e : Finish(e)
      /\ ledger' = Reported \/ (req.canceled /\ UNCHANGED ledger)
  BY DEF StreamEnds, At
<1>2. req'.pc = "done" /\ DOMAIN req' = Fields /\ req'.canceled = req.canceled
  BY <1>1 DEF Finish, IInv, Shape, Fields
<1>3. /\ ledger' \in [calls : Nat, results : Nat, invalid : BOOLEAN]
      /\ ledger'.calls = ledger.calls
      /\ ledger'.results = ledger.results + 1 \/ (req.canceled
          /\ ledger'.results = ledger.results)
  BY <1>1 DEF Reported, IInv, Shape
<1> QED BY <1>1, <1>2, <1>3 DEF IInv, Shape, EachCallReported, Open, Answering, At

LEMMA FreshShape ==
    ASSUME IInv
    PROVE  DOMAIN Fresh = Fields /\ Fresh.canceled = req.canceled
BY DEF Fresh, IInv, Shape, Fields

\* After an invalid request there is neither another attempt nor another
\* target.
LEMMA BetweenStep ==
    ASSUME IInv, RetryAfterWait \/ NextTarget
    PROVE  IInv' /\ (ledger.invalid /\ ~req.canceled => ledger'.calls = ledger.calls)
<1>1. req.pc = "decide" /\ UNCHANGED ledger
  BY DEF RetryAfterWait, NextTarget, At
<1>2. DOMAIN req' = Fields /\ req'.canceled = req.canceled /\ req'.pc \in {"wait", "pick"}
  BY FreshShape DEF RetryAfterWait, NextTarget, Fields
<1>3. ~Invalid(req.last)
  BY DEF RetryAfterWait, NextTarget, RetryDelay, NoDelay, FallsBack
<1> QED BY <1>1, <1>2, <1>3, QuietStep DEF IInv, Shape, Answering, At, Open

LEMMA WaitStep ==
    ASSUME IInv, WaitForCooldown
    PROVE  IInv' /\ (ledger.invalid /\ ~req.canceled => ledger'.calls = ledger.calls)
<1>1. req.pc = "wait" /\ req'.pc \in {"pick", "done"} /\ req'.canceled = req.canceled
        /\ DOMAIN req' = Fields /\ UNCHANGED ledger
  BY DEF WaitForCooldown, Finish, At, IInv, Shape, Fields
<1> QED BY <1>1, QuietStep DEF IInv, Shape, Answering, At, Open

LEMMA GiveAnswerStep ==
    ASSUME IInv, GiveAnswer
    PROVE  IInv' /\ (ledger.invalid /\ ~req.canceled => ledger'.calls = ledger.calls)
<1>1. req.pc = "decide" /\ UNCHANGED ledger
  BY DEF GiveAnswer, At
<1>2. \/ Finish(req.last)
      \/ /\ req.last.kind \in {"limited", "down", "nopick"}
         /\ req' = [Fresh EXCEPT !.pc = "credits", !.paid = TRUE, !.credits = CreditAuths]
  BY DEF GiveAnswer
<1>3. /\ DOMAIN req' = Fields /\ req'.canceled = req.canceled
      /\ req'.pc = "done" \/ (req'.pc = "credits" /\ ~Invalid(req.last))
  BY <1>2, FreshShape DEF Finish, Invalid, IInv, Shape, Fields
<1> QED BY <1>1, <1>3, QuietStep DEF IInv, Shape, Answering, At, Open

LEMMA TryCreditsStep ==
    ASSUME IInv, TryCredits
    PROVE  IInv' /\ (ledger.invalid /\ ~req.canceled => ledger'.calls = ledger.calls)
<1>1. req.pc = "credits" /\ req'.pc \in {"done", "call", "credits"}
        /\ req'.canceled = req.canceled /\ DOMAIN req' = Fields /\ UNCHANGED ledger
  BY DEF TryCredits, Finish, At, IInv, Shape, Fields
<1> QED BY <1>1, QuietStep DEF IInv, Shape, Answering, At, Open

LEMMA OutsideStep ==
    ASSUME IInv, Cancel \/ OthersReport \/ Tick \/ UNCHANGED vars
    PROVE  IInv' /\ (ledger.invalid /\ ~req.canceled => ledger'.calls = ledger.calls)
<1>1. /\ UNCHANGED ledger /\ req'.pc = req.pc /\ req'.last = req.last /\ DOMAIN req' = Fields
      /\ req'.canceled \in BOOLEAN /\ (req.canceled => req'.canceled)
  BY DEF Cancel, OthersReport, Tick, vars, IInv, Shape, Fields
<1> QED BY <1>1, QuietStep DEF IInv, Shape, Answering, At, Open

-----------------------------------------------------------------------------
LEMMA NextStep ==
    IInv /\ [Next]_vars
      => IInv' /\ (ledger.invalid /\ ~req.canceled => ledger'.calls = ledger.calls)
<1> SUFFICES ASSUME IInv, [Next]_vars
             PROVE  IInv' /\ (ledger.invalid /\ ~req.canceled => ledger'.calls = ledger.calls)
  OBVIOUS
<1>1. CASE Step
  BY <1>1, GiveUpStep, PickNextMixedStep, PrepareStep, CallReturnsStep, ReportStep,
     StreamEndsStep, BetweenStep, WaitStep, GiveAnswerStep, TryCreditsStep DEF Step
<1>2. CASE Cancel \/ OthersReport \/ Tick \/ UNCHANGED vars
  BY <1>2, OutsideStep
<1> QED BY <1>1, <1>2 DEF Next

\* ... and in every reachable state.
LEMMA IInvHolds == Spec => []IInv
<1>1. IInv /\ [Next]_vars => IInv'
  BY NextStep
<1> QED BY <1>1, InitIInv, PTL DEF Spec

\* However retries, pools, targets and cancellation interleave, each call is
\* reported exactly once, but for those a cancellation cuts short.
THEOREM CallsAreReported == Spec => []EachCallReported
<1>1. IInv => EachCallReported
  BY DEF IInv
<1> QED BY <1>1, IInvHolds, PTL

\* Nothing is tried any more once a call said that the request is invalid.
THEOREM InvalidEndsTheCalls == Spec => InvalidIsFinal
<1>1. IInv /\ [Next]_vars
        => [ledger.invalid /\ ~req.canceled => ledger'.calls = ledger.calls]_vars
  BY NextStep
<1> QED BY <1>1, IInvHolds, PTL DEF Spec, InvalidIsFinal

-----------------------------------------------------------------------------
(* How many calls a request makes.                                         *)

\* The calls of the pool in hand that are still to be made.
Left ==
    CASE req.pc \in {"prepare", "call"} -> Len(req.models)
      [] req.pc \in {"mark", "stream"}  -> Len(req.models) - 1
      [] OTHER -> 0

Listed(s) == \E S : s \in Seq(S) \ {<<>>}
OnPool == req.pc \in {"prepare", "call", "mark", "stream"}

\* Where the request is: attempts and credentials are those its target allows,
\* and the paid credits are a dead end.
Places ==
    /\ kind \in Kinds
    /\ req.target \in DOMAIN kind.targets
    /\ req.attempt \in Nat /\ req.attempt < MostAttempts(req.target)
    /\ req.tried \subseteq Offered
    /\ OnPool => Listed(req.models)
    /\ req.paid => kind.credited /\ req.pc \in {"credits", "call", "mark", "stream", "done"}
    /\ req.pc = "credits" => req.paid
    /\ req.credits \subseteq CreditAuths

\* What the targets before t may take, and all of them.
Before(t) == SumFunctionOnSet(MostOfTargets, 1..t-1)
OfAll == SumFunctionOnSet(MostOfTargets, DOMAIN kind.targets)

\* What the request may have called by now.
Allowed ==
    IF req.paid
    THEN OfAll + CallsToTry(CreditAuths \ req.credits, Route)
    ELSE Before(req.target) + req.attempt * CallsToTry(Offered, Route)
           + CallsToTry(req.tried, Route)

Within == ledger.calls + Left <= Allowed

\* Pools may be added up.
LEMMA CallsAdd ==
    ASSUME NEW S \in SUBSET Auths, NEW m \in Models
    PROVE  /\ CallsToTry(S, m) \in Nat
           /\ \A T \in SUBSET S : CallsToTry(T, m) <= CallsToTry(S, m)
           /\ \A a \in Auths \ S :
                 CallsToTry(S \cup {a}, m) = Len(Pool[a][m]) + CallsToTry(S, m)
           /\ CallsToTry({}, m) = 0
<1> DEFINE h == [a \in Auths |-> Len(Pool[a][m])]
<1>1. \A a \in Auths : h[a] \in Nat /\ h[a] = Len(Pool[a][m])
  BY LoopAssumption
<1>2. \A T : CallsToTry(T, m) = SumFunctionOnSet(h, T)
  BY DEF CallsToTry
<1>3. IsFiniteSet(S) /\ \A T \in SUBSET S : IsFiniteSet(T)
  BY LoopAssumption, FS_Subset
<1> HIDE DEF h
<1>4. SumFunctionOnSet(h, S) \in Nat
  BY <1>1, <1>3, SumType
<1>5. \A T \in SUBSET S : SumFunctionOnSet(h, T) <= SumFunctionOnSet(h, S)
  BY <1>1, <1>3, SumOfSubset
<1>6. ASSUME NEW a \in Auths \ S
      PROVE  SumFunctionOnSet(h, S \cup {a}) = h[a] + SumFunctionOnSet(h, S)
  <2> DEFINE T == S \cup {a}
  <2>1. IsFiniteSet(T)
    BY <1>3, FS_AddElement
  <2>2. T \ {a} = S /\ a \in T /\ \A x \in T : h[x] \in Nat
    BY <1>1
  <2> HIDE DEF T
  <2>3. SumFunctionOnSet(h, T) = h[a] + SumFunctionOnSet(h, T \ {a})
    BY <2>1, <2>2, SumWithout
  <2> QED BY <2>2, <2>3 DEF T
<1>7. SumFunctionOnSet(h, {}) = 0
  BY SumOfNone
<1> QED BY <1>1, <1>2, <1>4, <1>5, <1>6, <1>7

\* A target has a first attempt, and one for each wait a credential allows.
LEMMA AttemptsAllowed ==
    ASSUME NEW t
    PROVE  /\ MostAttempts(t) \in Nat \ {0}
           /\ \A a \in Serving(t) : Retry[a] + 1 <= MostAttempts(t)
<1> DEFINE T == {0} \cup {Retry[a] : a \in Serving(t)}
<1>1. IsFiniteSet(Serving(t)) /\ Serving(t) \subseteq Auths
  BY LoopAssumption, FS_Subset DEF Serving
<1> DEFINE S == Serving(t)
           R == {Retry[a] : a \in S}
<1>2. IsFiniteSet(R)
  <2>1. [a \in S |-> Retry[a]] \in Surjection(S, R)
    BY DEF Surjection
  <2> QED BY <1>1, <2>1, FS_Surjection
<1>3. IsFiniteSet(T)
  BY <1>2, FS_Singleton, FS_Union
<1>4. T \in SUBSET Nat /\ T # {} /\ \A a \in Serving(t) : Retry[a] \in T
  BY <1>1, LoopAssumption
<1>5. MostAttempts(t) = 1 + Max(T)
  BY DEF MostAttempts
<1> HIDE DEF T
<1>6. Max(T) \in T /\ \A y \in T : y <= Max(T)
  BY <1>3, <1>4, MaxOfNats
<1>7. Max(T) \in Nat
  BY <1>4, <1>6
<1>8. ASSUME NEW a \in Serving(t) PROVE Retry[a] + 1 <= MostAttempts(t)
  <2>1. Retry[a] \in Nat /\ Retry[a] <= Max(T)
    BY <1>1, <1>4, <1>6, LoopAssumption
  <2> QED BY <1>5, <1>7, <2>1
<1> QED BY <1>5, <1>7, <1>8

\* What a target may take at most, and what the targets before one may take.
LEMMA TargetsAdd ==
    ASSUME kind \in Kinds
    PROVE  /\ OfAll \in Nat
           /\ \A t \in DOMAIN kind.targets :
                 /\ kind.targets[t].model \in Models
                 /\ Before(t) \in Nat
                 /\ Before(t + 1) = MostOfTargets[t] + Before(t)
                 /\ Before(t + 1) <= OfAll
                 /\ MostOfTargets[t]
                      = MostAttempts(t) * CallsToTry(Serving(t), kind.targets[t].model)
                 /\ CallsToTry(Serving(t), kind.targets[t].model) \in Nat
                 /\ MostOfTargets[t] \in Nat
           /\ Before(1) = 0
<1> DEFINE D == DOMAIN kind.targets
           h == MostOfTargets
           n == Len(kind.targets)
<1>1. n \in Nat /\ D = 1..n /\ \A t \in D : kind.targets[t].model \in Models
  BY LoopAssumption
<1>2. ASSUME NEW t \in D
      PROVE  /\ h[t] = MostAttempts(t) * CallsToTry(Serving(t), kind.targets[t].model)
             /\ h[t] \in Nat
             /\ CallsToTry(Serving(t), kind.targets[t].model) \in Nat
  <2> DEFINE m == kind.targets[t].model
             k == MostAttempts(t)
             c == CallsToTry(Serving(t), m)
  <2>1. m \in Models /\ Serving(t) \in SUBSET Auths
    BY <1>1 DEF Serving
  <2>2. c \in Nat
    <3> HIDE DEF m
    <3> QED BY <2>1, CallsAdd
  <2>3. k \in Nat
    BY AttemptsAllowed
  <2>4. h[t] = k * c
    BY DEF MostOfTargets
  <2> HIDE DEF c, k
  <2>5. k * c \in Nat
    BY <2>2, <2>3
  <2> QED BY <2>2, <2>4, <2>5 DEF c, k
<1> HIDE DEF h
<1>3. IsFiniteSet(D) /\ \A t \in D : IsFiniteSet(1..t) /\ IsFiniteSet(1..t-1)
  BY <1>1, FS_Interval
<1>4. OfAll \in Nat
  <2>1. SumFunctionOnSet(h, D) \in Nat
    BY <1>2, <1>3, SumType
  <2> QED BY <2>1 DEF OfAll, h
<1>5. ASSUME NEW t \in D
      PROVE  /\ Before(t) \in Nat
             /\ Before(t + 1) = h[t] + Before(t)
             /\ Before(t + 1) <= OfAll
  <2> DEFINE upTo == 1..t
             below == 1..t-1
  <2>1. \A x \in upTo : h[x] \in Nat
    BY <1>1, <1>2
  <2>7. \A x \in below : h[x] \in Nat
    BY <1>1, <1>2
  <2>2. upTo \ {t} = below /\ t \in upTo /\ upTo \in SUBSET D /\ (t + 1) - 1 = t
    BY <1>1
  <2>8. IsFiniteSet(upTo) /\ IsFiniteSet(below)
    BY <1>3
  <2>6. Before(t) = SumFunctionOnSet(h, below) /\ Before(t + 1) = SumFunctionOnSet(h, upTo)
    BY <2>2 DEF Before, h
  <2> HIDE DEF upTo, below
  <2>3. SumFunctionOnSet(h, below) \in Nat
    BY <2>7, <2>8, SumType
  <2>4. SumFunctionOnSet(h, upTo) = h[t] + SumFunctionOnSet(h, upTo \ {t})
    BY <2>1, <2>2, <2>8, SumWithout
  <2>5. SumFunctionOnSet(h, upTo) <= SumFunctionOnSet(h, D)
    BY <1>2, <1>3, <2>2, SumOfSubset
  <2> QED BY <2>2, <2>3, <2>4, <2>5, <2>6 DEF OfAll, h
<1>6. Before(1) = 0
  <2>1. 1..1-1 = {}
    OBVIOUS
  <2>2. SumFunctionOnSet(h, {}) = 0
    BY SumOfNone
  <2> QED BY <2>1, <2>2 DEF Before, h
<1> QED BY <1>1, <1>2, <1>4, <1>5, <1>6 DEF h

LEMMA TargetsStay ==
    ASSUME kind' = kind
    PROVE  /\ MostOfTargets' = MostOfTargets /\ OfAll' = OfAll
           /\ \A t : Before(t)' = Before(t)
           /\ \A t : Serving(t)' = Serving(t) /\ MostAttempts(t)' = MostAttempts(t)
BY DEF MostOfTargets, OfAll, Before, Serving, MostAttempts

\* What has been allowed so far is no more than what is allowed in all.
LEMMA AllowedInAll ==
    ASSUME Places
    PROVE  /\ Allowed \in Nat
           /\ Allowed <= MostCalls /\ MostCalls \in Nat
           /\ ~req.paid => Allowed <= Before(req.target + 1)
<1> DEFINE t == req.target
           m == Route
           w == CallsToTry(Offered, m)
<1>1. /\ t \in DOMAIN kind.targets /\ Offered = Serving(t) /\ m = kind.targets[t].model
      /\ m \in Models /\ OfAll \in Nat /\ Before(t) \in Nat
      /\ Before(t + 1) = MostAttempts(t) * w + Before(t) /\ Before(t + 1) <= OfAll
  BY TargetsAdd DEF Places, Offered, Route, Target
<1>2. Offered \in SUBSET Auths /\ req.tried \in SUBSET Offered
  BY DEF Places, Offered, Serving
<1>3. CreditAuths \in SUBSET Auths /\ CreditAuths \ req.credits \in SUBSET CreditAuths
  BY LoopAssumption
<1>9. MostAttempts(t) \in Nat /\ req.attempt \in Nat /\ req.attempt < MostAttempts(t)
  BY AttemptsAllowed DEF Places
<1> HIDE DEF m, t
<1>4. /\ w \in Nat /\ CallsToTry(req.tried, m) <= w
  BY <1>1, <1>2, CallsAdd
<1>5. CallsToTry(req.tried, m) \in Nat
  BY <1>1, <1>2, CallsAdd
<1>6. CallsToTry(CreditAuths, m) \in Nat
        /\ CallsToTry(CreditAuths \ req.credits, m) <= CallsToTry(CreditAuths, m)
  BY <1>1, <1>3, CallsAdd
<1>7. CallsToTry(CreditAuths \ req.credits, m) \in Nat
  BY <1>1, <1>3, CallsAdd
<1>8. MostCalls = OfAll + IF kind.credited THEN CallsToTry(CreditAuths, kind.targets[1].model)
                          ELSE 0
  BY DEF MostCalls, OfAll
<1>10. kind.credited => m = kind.targets[1].model
  <2>1. kind.credited => DOMAIN kind.targets = 1..1
    BY LoopAssumption DEF Places
  <2> QED BY <1>1, <2>1
<1>11. MostCalls \in Nat /\ MostCalls >= OfAll /\ (kind.credited => MostCalls = OfAll + CallsToTry(CreditAuths, m))
  <2>1. CASE kind.credited
    BY <1>1, <1>6, <1>8, <1>10, <2>1
  <2>2. CASE ~kind.credited
    BY <1>1, <1>8, <2>2
  <2> QED BY <2>1, <2>2
<1>12. CASE req.paid
  <2>1. Allowed = OfAll + CallsToTry(CreditAuths \ req.credits, m) /\ kind.credited
    BY <1>12 DEF Allowed, Places, m
  <2> QED BY <1>1, <1>6, <1>7, <1>11, <1>12, <2>1
<1>13. CASE ~req.paid
  <2> DEFINE at == req.attempt
             k == MostAttempts(t)
             tr == CallsToTry(req.tried, m)
  <2>1. Allowed = Before(t) + at * w + tr
    BY <1>13 DEF Allowed, m, t
  <2>2. at \in Nat /\ k \in Nat /\ at + 1 <= k
    BY <1>9
  <2>3. at * w \in Nat /\ at * w + w <= k * w
    <3> HIDE DEF at, w, k
    <3> QED BY <1>4, <2>2
  <2> HIDE DEF at, w, k, tr
  <2> DEFINE p == at * w
             q == k * w
  <2>4. p \in Nat /\ p + w <= q /\ Allowed = Before(t) + p + tr /\ Before(t + 1) = q + Before(t)
    BY <1>1, <2>1, <2>3 DEF k
  <2> HIDE DEF p, q
  <2>5. q \in Nat
    BY <1>4, <2>2 DEF q
  <2>6. Allowed \in Nat /\ Before(t + 1) \in Nat /\ Allowed <= Before(t + 1)
    BY <1>1, <1>4, <1>5, <2>4, <2>5 DEF tr
  <2>8. Allowed <= MostCalls
    BY <1>1, <1>11, <2>6
  <2> QED BY <1>11, <1>13, <2>6, <2>8 DEF t
<1> QED BY <1>12, <1>13

\* What is left of a pool is a number.
LEMMA LeftType ==
    ASSUME OnPool => Listed(req.models)
    PROVE  /\ Left \in Nat
           /\ OnPool => Len(req.models) \in Nat \ {0} /\ req.models # <<>>
           /\ OnPool /\ Tail(req.models) # <<>> => Listed(Tail(req.models))
           /\ OnPool => Len(Tail(req.models)) = Len(req.models) - 1
           /\ ~OnPool => Left = 0
<1>1. CASE OnPool
  <2>1. PICK S : req.models \in Seq(S) /\ req.models # <<>>
    BY <1>1 DEF Listed
  <2> DEFINE s == req.models
  <2>2. s \in Seq(S) /\ s # <<>>
    BY <2>1
  <2> HIDE DEF s
  <2>3. Len(s) \in Nat \ {0} /\ Tail(s) \in Seq(S) /\ Len(Tail(s)) = Len(s) - 1
    BY <2>2
  <2> QED BY <1>1, <2>2, <2>3 DEF OnPool, Left, Listed, s
<1>2. CASE ~OnPool
  BY <1>2 DEF OnPool, Left
<1> QED BY <1>1, <1>2

\* Where the request stays with its target, attempt and credentials, calls are
\* only taken from what is left of the pool.
LEMMA SameTarget ==
    ASSUME Places, Within, Shape, kind' = kind,
           \A x \in {"target", "attempt", "tried", "credits", "paid"} : req'[x] = req[x],
           OnPool' => Listed(req'.models),
           req.paid => req'.pc \in {"credits", "call", "mark", "stream", "done"},
           req'.pc = "credits" => req.paid,
           ledger'.calls + Left' <= ledger.calls + Left, ledger'.calls \in Nat, Left' \in Nat
    PROVE  Places' /\ Within'
<1>1. /\ req'.target = req.target /\ req'.attempt = req.attempt /\ req'.tried = req.tried
      /\ req'.credits = req.credits /\ req'.paid = req.paid
  OBVIOUS
<1>2. Places'
  BY <1>1, TargetsStay DEF Places, Offered
<1>3. Allowed' = Allowed
  BY <1>1, TargetsStay DEF Allowed, Offered, Route, Target
<1>4. Left \in Nat /\ ledger.calls \in Nat
  BY LeftType DEF Places, Shape
<1> QED BY <1>2, <1>3, <1>4, AllowedInAll DEF Within

LEMMA RotationsKeepLength ==
    ASSUME NEW S, NEW s \in Seq(S) \ {<<>>}, NEW r \in Rotations(s)
    PROVE  r \in Seq(S) \ {<<>>} /\ Len(r) = Len(s)
<1>5. DOMAIN s = 1..Len(s)
  OBVIOUS
<1>1. PICK k \in 1..Len(s) : r = SubSeq(s, k, Len(s)) \o SubSeq(s, 1, k - 1)
  BY <1>5 DEF Rotations
<1> DEFINE x == SubSeq(s, k, Len(s))
           y == SubSeq(s, 1, k - 1)
<1>2. x \in Seq(S) /\ y \in Seq(S) /\ Len(x) = Len(s) - k + 1 /\ Len(y) = k - 1
  BY <1>1
<1>3. r = x \o y /\ Len(s) \in Nat \ {0}
  BY <1>1
<1> HIDE DEF x, y
<1>4. x \o y \in Seq(S) /\ Len(x \o y) = Len(x) + Len(y)
  BY <1>2
<1>6. r \in Seq(S) /\ Len(r) = Len(x) + Len(y)
  BY <1>3, <1>4, Zenon
<1>7. Len(r) = Len(s)
  BY <1>1, <1>2, <1>3, <1>6
<1> QED BY <1>3, <1>6, <1>7

\* Leaving out what is blocked leaves a sequence that is not longer.
LEMMA FreeModelsFewer ==
    ASSUME NEW a, NEW S, NEW s \in Seq(S), FreeModels(a, s) # <<>>
    PROVE  Listed(FreeModels(a, s)) /\ Len(FreeModels(a, s)) \in 0..Len(s)
<1> DEFINE K == {k \in DOMAIN s : block[a][StateModel(a, Route, s[k])] = 0}
           n == Cardinality(K)
           at == [i \in 1..n |-> s[CHOOSE k \in K : Cardinality({j \in K : j < k}) = i - 1]]
           T == {at[i] : i \in 1..n}
<1>1. FreeModels(a, s) = at
  BY DEF FreeModels, AtPositions
<1>2. K \in SUBSET (1..Len(s)) /\ Len(s) \in Nat
  OBVIOUS
<1>3. IsFiniteSet(1..Len(s)) /\ Cardinality(1..Len(s)) = Len(s)
  BY <1>2, FS_Interval
<1> HIDE DEF K
<1>4. IsFiniteSet(K) /\ Cardinality(K) <= Cardinality(1..Len(s))
  BY <1>2, <1>3, FS_Subset
<1>5. n \in Nat /\ n <= Len(s)
  BY <1>3, <1>4, FS_CardinalityType
<1>6. at \in [1..n -> T]
  OBVIOUS
<1> HIDE DEF at, n, T
<1>7. at \in Seq(T) /\ Len(at) = n
  BY <1>5, <1>6
<1> QED BY <1>1, <1>2, <1>5, <1>7 DEF Listed

\* The attempt takes a credential it has not tried.
LEMMA TryOne ==
    ASSUME Places, Within, Shape, kind' = kind, ledger' = ledger, req.pc = "pick",
           NEW a \in Offered \ req.tried, req'.tried = req.tried \cup {a},
           \A x \in {"target", "attempt", "credits", "paid"} : req'[x] = req[x],
           req'.pc \in {"pick", "prepare"}, OnPool' => Listed(req'.models),
           Left' <= Len(Pool[a][Route])
    PROVE  Places' /\ Within'
<1>1. /\ req'.target = req.target /\ req'.attempt = req.attempt
      /\ req'.credits = req.credits /\ req'.paid = req.paid /\ ~req.paid
  BY DEF Places
<1>2. Places'
  BY <1>1, TargetsStay DEF Places, Offered
<1>3. Left' \in Nat /\ Left = 0 /\ ledger.calls \in Nat
  BY LeftType, <1>2 DEF Places, Shape, Left
<1>4. Allowed' = Before(req.target) + req.attempt * CallsToTry(Offered, Route)
                   + CallsToTry(req.tried \cup {a}, Route)
  BY <1>1, TargetsStay DEF Allowed, Offered, Route, Target
<1>5. Route \in Models /\ req.tried \in SUBSET Auths /\ a \in Auths \ req.tried
  BY TargetsAdd DEF Route, Target, Places, Offered, Serving
<1> DEFINE m == Route
           c == Before(req.target) + req.attempt * CallsToTry(Offered, Route)
           d == CallsToTry(req.tried, m)
           l == Len(Pool[a][m])
<1>13. m \in Models
  BY <1>5
<1> HIDE DEF m
<1>6. CallsToTry(req.tried \cup {a}, m) = l + CallsToTry(req.tried, m)
  BY <1>5, <1>13, CallsAdd
<1>14. d \in Nat
  BY <1>5, <1>13, CallsAdd
<1>7. d \in Nat /\ l \in Nat
  <2>1. Pool[a][m] \in Seq(Models)
    BY <1>5, <1>13, LoopAssumption
  <2> QED BY <1>14, <2>1
<1>8. Allowed = c + d
  BY <1>1 DEF Allowed, m
<1>9. c \in Nat
  <2>1. Before(req.target) \in Nat /\ CallsToTry(Offered, Route) \in Nat
    BY TargetsAdd DEF Places, Offered, Route, Target
  <2>2. req.attempt \in Nat
    BY DEF Places
  <2> DEFINE w == CallsToTry(Offered, Route)
             at == req.attempt
  <2> HIDE DEF w, at
  <2>3. at * w \in Nat
    BY <2>1, <2>2 DEF w, at
  <2> QED BY <2>1, <2>3 DEF w, at
<1>10. Allowed' = c + l + d
  <2>1. Allowed' = c + CallsToTry(req.tried \cup {a}, m)
    BY <1>4 DEF m
  <2> HIDE DEF c, d, l
  <2> QED BY <2>1, <1>6, <1>7, <1>9 DEF d
<1>11. Left' <= l
  BY DEF m
<1> HIDE DEF c, d, l
<1>12. ledger'.calls + Left' <= Allowed'
  BY <1>3, <1>7, <1>8, <1>9, <1>10, <1>11 DEF Within
<1> QED BY <1>2, <1>12 DEF Within

LEMMA PickWithin ==
    ASSUME Places, Within, Shape, PickNextMixed
    PROVE  Places' /\ Within'
<1>1. PICK a \in Candidates : \E pool \in Rotations(Pool[a][Route]) :
        LET free   == FreeModels(a, pool)
            picked == [req EXCEPT !.tried = @ \cup {a}]
        IN req' = IF free = <<>> THEN picked
                  ELSE [picked EXCEPT !.pc = "prepare", !.auth = a, !.models = free,
                                      !.attempted = @ \cup {a}]
  BY DEF PickNextMixed
<1>2. PICK pool \in Rotations(Pool[a][Route]) :
        req' = IF FreeModels(a, pool) = <<>> THEN [req EXCEPT !.tried = @ \cup {a}]
               ELSE [[req EXCEPT !.tried = @ \cup {a}] EXCEPT
                        !.pc = "prepare", !.auth = a, !.models = FreeModels(a, pool),
                        !.attempted = @ \cup {a}]
  BY <1>1
<1>3. req.pc = "pick" /\ kind' = kind /\ ledger' = ledger
  BY DEF PickNextMixed, At
<1>4. a \in Offered \ req.tried /\ a \in Auths /\ Route \in Models
  BY TargetsAdd DEF Candidates, Places, Offered, Serving, Route, Target
<1>5. pool \in Seq(Models) \ {<<>>} /\ Len(pool) = Len(Pool[a][Route])
  BY <1>4, RotationsKeepLength, LoopAssumption
<1>6. /\ req'.tried = req.tried \cup {a}
      /\ \A x \in {"target", "attempt", "credits", "paid"} : req'[x] = req[x]
      /\ \/ req'.pc = "pick"
         \/ /\ req'.pc = "prepare" /\ req'.models = FreeModels(a, pool)
            /\ FreeModels(a, pool) # <<>>
  BY <1>2, <1>3 DEF Shape, Fields
<1>7. OnPool' => Listed(req'.models)
  BY <1>5, <1>6, FreeModelsFewer DEF OnPool
<1>8. Left' <= Len(Pool[a][Route])
  BY <1>5, <1>6, FreeModelsFewer DEF Left
<1> QED BY <1>3, <1>4, <1>6, <1>7, <1>8, TryOne

\* Steps that call nothing and leave the pool or keep it.
LEMMA QuietWithin ==
    ASSUME Places, Within, Shape, kind' = kind, ledger'.calls = ledger.calls,
           \A x \in {"target", "attempt", "tried", "credits", "paid"} : req'[x] = req[x],
           \/ ~OnPool'
           \/ req'.pc = req.pc /\ req'.models = req.models
           \/ req.pc = "prepare" /\ req'.pc = "call" /\ req'.models = req.models,
           req.paid => req'.pc \in {"credits", "call", "mark", "stream", "done"},
           req'.pc = "credits" => req.paid
    PROVE  Places' /\ Within'
<1>1. OnPool' => Listed(req'.models)
  BY DEF Places, OnPool
<1>2. Left \in Nat /\ Left' \in Nat /\ Left' <= Left
  <2>1. Left \in Nat
    BY LeftType DEF Places
  <2>2. Left' = 0 \/ Left' = Left
    BY DEF Left, OnPool
  <2> QED BY <2>1, <2>2
<1>3. ledger.calls \in Nat
  BY DEF Shape
<1> QED BY <1>1, <1>2, <1>3, SameTarget

LEMMA GiveUpWithin ==
    ASSUME Places, Within, Shape,
           GiveUp \/ PickFails \/ PrepareRequestAuth \/ WaitForCooldown
             \/ StreamEnds \/ Cancel \/ OthersReport \/ Tick \/ UNCHANGED vars
    PROVE  Places' /\ Within'
<1>1. kind' = kind /\ ledger'.calls = ledger.calls
  <2>1. CASE StreamEnds
    BY <2>1 DEF StreamEnds, Reported, Shape
  <2>2. CASE ~StreamEnds
    BY <2>2 DEF GiveUp, PickFails, PrepareRequestAuth, WaitForCooldown, Cancel, OthersReport,
                Tick, vars
  <2> QED BY <2>1, <2>2
<1>2. CASE GiveUp \/ PickFails
  <2>1. req.pc = "pick" /\ req'.pc = "decide"
          /\ \A x \in {"target", "attempt", "tried", "credits", "paid"} : req'[x] = req[x]
    BY <1>2 DEF GiveUp, PickFails, ReturnOnce, At, Shape, Fields
  <2> QED BY <1>1, <2>1, QuietWithin DEF OnPool, Places
<1>3. CASE PrepareRequestAuth
  <2>1. req.pc = "prepare" /\ (req'.pc = "pick" \/ (req'.pc = "call" /\ req'.models = req.models))
          /\ \A x \in {"target", "attempt", "tried", "credits", "paid"} : req'[x] = req[x]
    BY <1>3 DEF PrepareRequestAuth, At, Shape, Fields
  <2> QED BY <1>1, <2>1, QuietWithin DEF OnPool, Places
<1>4. CASE WaitForCooldown
  <2>1. req.pc = "wait" /\ req'.pc \in {"pick", "done"}
          /\ \A x \in {"target", "attempt", "tried", "credits", "paid"} : req'[x] = req[x]
    BY <1>4 DEF WaitForCooldown, Finish, At, Shape, Fields
  <2> QED BY <1>1, <2>1, QuietWithin DEF OnPool, Places
<1>5. CASE StreamEnds
  <2>1. req.pc = "stream" /\ req'.pc = "done"
          /\ \A x \in {"target", "attempt", "tried", "credits", "paid"} : req'[x] = req[x]
    BY <1>5 DEF StreamEnds, Finish, At, Shape, Fields
  <2> QED BY <1>1, <2>1, QuietWithin DEF OnPool, Places
<1>6. CASE Cancel \/ OthersReport \/ Tick \/ UNCHANGED vars
  <2>1. req'.pc = req.pc /\ req'.models = req.models
          /\ \A x \in {"target", "attempt", "tried", "credits", "paid"} : req'[x] = req[x]
    BY <1>6 DEF Cancel, OthersReport, Tick, vars, Shape, Fields
  <2> QED BY <1>1, <2>1, QuietWithin DEF OnPool, Places
<1> QED BY <1>2, <1>3, <1>4, <1>5, <1>6

\* A call is one of those that were left of the pool.
LEMMA CallWithin ==
    ASSUME Places, Within, Shape, CallReturns
    PROVE  Places' /\ Within'
<1>1. req.pc = "call" /\ kind' = kind /\ ledger' = [ledger EXCEPT !.calls = @ + 1]
  BY DEF CallReturns, At
<1>2. /\ \A x \in {"target", "attempt", "tried", "credits", "paid"} : req'[x] = req[x]
      /\ \/ req'.pc \in {"stream", "mark"} /\ req'.models = req.models
         \/ req'.pc = "decide" /\ ~req.paid
         \/ req'.pc = "credits" /\ req.paid
  <2>1. \/ req' = [req EXCEPT !.pc = "stream"]
        \/ ~req.paid /\ ReturnOnce(Canceled)
        \/ req.paid /\ req' = [req EXCEPT !.pc = "credits", !.models = <<>>]
        \/ \E e \in Failures \cup {Ok} : req' = [req EXCEPT !.pc = "mark", !.result = e]
    BY DEF CallReturns
  <2> QED BY <2>1 DEF ReturnOnce, Shape, Fields
<1>3. OnPool' => Listed(req'.models)
  BY <1>1, <1>2 DEF Places, OnPool
<1>4. ledger.calls \in Nat /\ ledger'.calls = ledger.calls + 1
  BY <1>1 DEF Shape
<1>5. Left = Len(req.models) /\ Len(req.models) \in Nat \ {0}
  BY <1>1, LeftType DEF Left, Places, OnPool
<1>6. Left' \in Nat /\ Left' <= Left - 1
  <2>1. CASE OnPool'
    <3>1. Left' = Len(req.models) - 1
      BY <1>2, <2>1 DEF Left, OnPool
    <3> QED BY <1>5, <3>1
  <2>2. CASE ~OnPool'
    <3>1. Left' = 0
      BY <2>2 DEF Left, OnPool
    <3> QED BY <1>5, <3>1
  <2> QED BY <2>1, <2>2
<1>7. ledger'.calls + Left' <= ledger.calls + Left
  BY <1>4, <1>5, <1>6
<1>8. /\ req.paid => req'.pc \in {"credits", "call", "mark", "stream", "done"}
      /\ req'.pc = "credits" => req.paid
  BY <1>2
<1> QED BY <1>1, <1>2, <1>3, <1>4, <1>6, <1>7, <1>8, SameTarget

\* A failed call is taken off the pool.
LEMMA ReportWithin ==
    ASSUME Places, Within, Shape, Report
    PROVE  Places' /\ Within'
<1>1. req.pc = "mark" /\ kind' = kind /\ ledger'.calls = ledger.calls
  BY DEF Report, Reported, At, Shape
<1>2. /\ \A x \in {"target", "attempt", "tried", "credits", "paid"} : req'[x] = req[x]
      /\ \/ req'.pc = "done"
         \/ req'.pc = "call" /\ req'.models = Tail(req.models) /\ Tail(req.models) # <<>>
         \/ req'.pc \in {"decide", "pick"} /\ ~req.paid
         \/ req'.pc = "credits" /\ req.paid
  <2>1. CASE req.result = Ok
    BY <2>1 DEF Report, Finish, Shape, Fields
  <2>2. CASE req.result # Ok
    <3> DEFINE rest == [req EXCEPT !.models = Tail(@), !.result = NoError]
               next == [rest EXCEPT !.auth = NoAuth, !.models = <<>>]
    <3>1. /\ DOMAIN rest = Fields /\ rest.models = Tail(req.models)
          /\ \A x \in {"target", "attempt", "tried", "credits", "paid"} : rest[x] = req[x]
      BY DEF Shape, Fields
    <3>2. /\ DOMAIN next = Fields
          /\ \A x \in {"target", "attempt", "tried", "credits", "paid"} : next[x] = req[x]
      BY <3>1 DEF Fields
    <3>3. \/ rest.models # <<>> /\ req' = [rest EXCEPT !.pc = "call"]
          \/ req.paid /\ req' = [next EXCEPT !.pc = "credits"]
          \/ ~req.paid /\ \E e : req' = [next EXCEPT !.pc = "decide", !.last = e]
          \/ ~req.paid /\ \E w : req' = [next EXCEPT !.pc = "pick", !.last = w]
      BY <2>2 DEF Report, AfterFailure
    <3> HIDE DEF rest, next
    <3> QED BY <3>1, <3>2, <3>3 DEF Fields
  <2> QED BY <2>1, <2>2
<1>3. /\ Left = Len(req.models) - 1 /\ Len(req.models) \in Nat \ {0}
      /\ Tail(req.models) # <<>> => Listed(Tail(req.models))
      /\ Len(Tail(req.models)) = Len(req.models) - 1
  BY <1>1, LeftType DEF Left, Places, OnPool
<1>4. OnPool' => Listed(req'.models)
  BY <1>2, <1>3 DEF OnPool
<1>5. Left' \in Nat /\ Left' <= Left
  <2>1. Left' = 0 \/ (req'.pc = "call" /\ Left' = Len(req'.models))
    BY <1>2 DEF Left
  <2>2. req'.pc = "call" => Len(req'.models) = Len(Tail(req.models))
    BY <1>2
  <2> QED BY <1>3, <2>1, <2>2
<1>6. ledger.calls \in Nat /\ ledger'.calls \in Nat /\ Left \in Nat
  BY <1>1, <1>3 DEF Shape
<1>7. /\ req.paid => req'.pc \in {"credits", "call", "mark", "stream", "done"}
      /\ req'.pc = "credits" => req.paid
  BY <1>2
<1>8. ledger'.calls + Left' <= ledger.calls + Left
  BY <1>1, <1>5, <1>6
<1> QED BY <1>1, <1>2, <1>4, <1>5, <1>6, <1>7, <1>8, SameTarget

LEMMA FreshKeeps ==
    ASSUME Shape
    PROVE  /\ DOMAIN Fresh = Fields /\ Fresh.tried = {}
           /\ \A x \in {"target", "attempt", "credits", "paid"} : Fresh[x] = req[x]
BY DEF Fresh, Shape, Fields

\* A wait takes an attempt that some credential allows.
LEMMA RetryWithin ==
    ASSUME Places, Within, Shape, RetryAfterWait
    PROVE  Places' /\ Within'
<1>1. /\ kind' = kind /\ ledger' = ledger /\ req.pc = "decide" /\ ~req.paid /\ Retrying # {}
  BY DEF RetryAfterWait, At, Places, RetryDelay, NoDelay, Waits
<1>2. /\ req'.pc = "wait" /\ req'.tried = {} /\ req'.attempt = req.attempt + 1
      /\ req'.target = req.target /\ req'.credits = req.credits /\ req'.paid = req.paid
  BY FreshKeeps DEF RetryAfterWait, Fields
<1>3. /\ req.attempt \in Nat /\ req.attempt + 1 < MostAttempts(req.target)
  <2>1. PICK a \in Serving(req.target) : req.attempt < Retry[a]
    BY <1>1 DEF Retrying, Offered
  <2>2. Retry[a] \in Nat /\ Retry[a] + 1 <= MostAttempts(req.target)
          /\ MostAttempts(req.target) \in Nat /\ req.attempt \in Nat
    BY <2>1, AttemptsAllowed, LoopAssumption DEF Serving, Places
  <2> QED BY <2>1, <2>2
<1>4. Places'
  BY <1>1, <1>2, <1>3, TargetsStay DEF Places, Offered, OnPool
<1> DEFINE t == req.target
           m == Route
           w == CallsToTry(Offered, m)
           k == req.attempt
           d == CallsToTry(req.tried, m)
<1>5. /\ Before(t) \in Nat /\ w \in Nat /\ m \in Models
  BY TargetsAdd DEF Places, Offered, Route, Target
<1>6. CallsToTry({}, m) = 0 /\ d \in Nat /\ d <= w
  <2>1. Offered \in SUBSET Auths /\ req.tried \in SUBSET Offered
    BY DEF Places, Offered, Serving
  <2> HIDE DEF m
  <2>2. d <= w /\ CallsToTry({}, m) = 0
    BY <1>5, <2>1, CallsAdd
  <2>3. d \in Nat
    BY <1>5, <2>1, CallsAdd
  <2> QED BY <2>2, <2>3
<1>7. Allowed = Before(t) + k * w + d
  BY <1>1 DEF Allowed
<1>8. Allowed' = Before(t) + (k + 1) * w + CallsToTry({}, m)
  BY <1>1, <1>2, TargetsStay DEF Allowed, Offered, Route, Target
<1> HIDE DEF t, m, w, d
<1>9. k * w \in Nat /\ (k + 1) * w = k * w + w
  BY <1>3, <1>5
<1> DEFINE p == k * w
<1> HIDE DEF p
<1>10. Allowed' >= Allowed /\ Allowed' \in Nat /\ Allowed \in Nat
  BY <1>5, <1>6, <1>7, <1>8, <1>9 DEF p
<1>11. Left = 0 /\ Left' = 0 /\ ledger.calls \in Nat
  BY <1>1, <1>2 DEF Left, Shape
<1> QED BY <1>1, <1>4, <1>10, <1>11 DEF Within

\* The next target starts with what all the targets before it may have taken.
LEMMA NextTargetWithin ==
    ASSUME Places, Within, Shape, NextTarget
    PROVE  Places' /\ Within'
<1>1. /\ kind' = kind /\ ledger' = ledger /\ req.pc = "decide" /\ ~req.paid
      /\ req.target # Len(kind.targets)
  BY DEF NextTarget, At, Places, FallsBack, LastTarget
<1>2. /\ req'.pc = "pick" /\ req'.tried = {} /\ req'.attempt = 0
      /\ req'.target = req.target + 1 /\ req'.credits = req.credits /\ req'.paid = req.paid
  BY FreshKeeps DEF NextTarget, Fields
<1>3. req'.target \in DOMAIN kind.targets
  BY <1>1, <1>2, LoopAssumption DEF Places
<1>4. Places'
  BY <1>1, <1>2, <1>3, TargetsStay, AttemptsAllowed DEF Places, Offered, OnPool
<1>5. Allowed' = Before(req.target + 1)
  <2> DEFINE t == req.target + 1
             m == kind.targets[t].model
             w == CallsToTry(Serving(t), m)
  <2>1. Before(t) \in Nat /\ w \in Nat /\ m \in Models
    BY <1>2, <1>3, TargetsAdd DEF Places
  <2>2. Allowed' = Before(t) + 0 * w + CallsToTry({}, m)
    BY <1>1, <1>2, TargetsStay DEF Allowed, Offered, Route, Target
  <2> HIDE DEF t, m, w
  <2>3. CallsToTry({}, m) = 0
    BY <2>1, CallsAdd
  <2>4. Allowed' = Before(t)
    BY <2>1, <2>2, <2>3
  <2> QED BY <2>4 DEF t
<1>6. Allowed <= Before(req.target + 1) /\ Allowed \in Nat /\ Before(req.target + 1) \in Nat
  BY <1>1, AllowedInAll, TargetsAdd DEF Places
<1>7. Left = 0 /\ Left' = 0 /\ ledger.calls \in Nat
  BY <1>1, <1>2 DEF Left, Shape
<1> QED BY <1>1, <1>4, <1>5, <1>6, <1>7 DEF Within

\* The paid credits come after all the targets.
LEMMA AnswerWithin ==
    ASSUME Places, Within, Shape, GiveAnswer
    PROVE  Places' /\ Within'
<1>1. kind' = kind /\ ledger' = ledger /\ req.pc = "decide" /\ ~req.paid
  BY DEF GiveAnswer, At, Places
<1>2. CASE Finish(req.last)
  <2>1. req'.pc = "done"
          /\ \A x \in {"target", "attempt", "tried", "credits", "paid"} : req'[x] = req[x]
    BY <1>2 DEF Finish, Shape, Fields
  <2> QED BY <1>1, <2>1, QuietWithin DEF OnPool, Places
<1>3. CASE kind.credited
             /\ req' = [Fresh EXCEPT !.pc = "credits", !.paid = TRUE, !.credits = CreditAuths]
  <2>1. /\ req'.pc = "credits" /\ req'.tried = {} /\ req'.attempt = req.attempt
        /\ req'.target = req.target /\ req'.credits = CreditAuths /\ req'.paid
    BY <1>3, FreshKeeps DEF Fields
  <2>2. Places'
    BY <1>1, <1>3, <2>1, TargetsStay DEF Places, Offered, OnPool
  <2>3. Allowed' = OfAll
    <3> DEFINE m == Route
    <3>1. m \in Models /\ CreditAuths \ CreditAuths = {}
      BY TargetsAdd DEF Places, Route, Target
    <3>2. Allowed' = OfAll + CallsToTry(CreditAuths \ CreditAuths, m)
      BY <1>1, <2>1, TargetsStay DEF Allowed, Route, Target
    <3> HIDE DEF m
    <3>3. CallsToTry({}, m) = 0
      BY <3>1, CallsAdd
    <3> QED BY <3>1, <3>2, <3>3, TargetsAdd DEF Places
  <2>4. Allowed <= OfAll /\ Allowed \in Nat /\ OfAll \in Nat
    <3>1. /\ Before(req.target) \in Nat /\ Before(req.target + 1) <= OfAll /\ OfAll \in Nat
          /\ Before(req.target + 1) = MostOfTargets[req.target] + Before(req.target)
          /\ Allowed \in Nat /\ Allowed <= Before(req.target + 1)
      BY <1>1, AllowedInAll, TargetsAdd DEF Places
    <3>2. MostOfTargets[req.target] \in Nat
      BY TargetsAdd DEF Places
    <3> QED BY <3>1, <3>2
  <2>5. Left = 0 /\ Left' = 0 /\ ledger.calls \in Nat
    BY <1>1, <2>1 DEF Left, Shape
  <2> QED BY <1>1, <2>2, <2>3, <2>4, <2>5 DEF Within
<1> QED BY <1>2, <1>3 DEF GiveAnswer

\* Each candidate of the paid credits is tried once.
LEMMA CreditsWithin ==
    ASSUME Places, Within, Shape, TryCredits
    PROVE  Places' /\ Within'
<1>1. kind' = kind /\ ledger' = ledger /\ req.pc = "credits" /\ req.paid
  BY DEF TryCredits, At, Places
<1>2. CASE Finish(req.last)
  <2>1. req'.pc = "done"
          /\ \A x \in {"target", "attempt", "tried", "credits", "paid"} : req'[x] = req[x]
    BY <1>2 DEF Finish, Shape, Fields
  <2> QED BY <1>1, <2>1, QuietWithin DEF OnPool, Places
<1>3. ASSUME NEW a \in req.credits,
             \/ \E pool \in Rotations(Pool[a][Route]) :
                   req' = [[req EXCEPT !.credits = @ \ {a}] EXCEPT
                              !.pc = "call", !.auth = a, !.models = pool]
             \/ req' = [req EXCEPT !.credits = @ \ {a}]
      PROVE  Places' /\ Within'
  <2> DEFINE m == Route
             rest == CreditAuths \ req.credits
             d == CallsToTry(rest, m)
             l == Len(Pool[a][m])
  <2>1. m \in Models /\ a \in Auths /\ a \in CreditAuths /\ rest \in SUBSET Auths
          /\ a \in Auths \ rest /\ OfAll \in Nat
    BY TargetsAdd, LoopAssumption DEF Places, Route, Target
  <2>2. Pool[a][m] \in Seq(Models) \ {<<>>}
    BY <2>1, LoopAssumption
  <2>3. /\ req'.credits = req.credits \ {a} /\ req'.paid
        /\ \A x \in {"target", "attempt", "tried", "paid"} : req'[x] = req[x]
        /\ \/ req'.pc = "credits"
           \/ req'.pc = "call" /\ req'.models \in Rotations(Pool[a][m])
    BY <1>1, <1>3 DEF Shape, Fields
  <2>4. req'.pc = "call" => req'.models \in Seq(Models) \ {<<>>} /\ Len(req'.models) = l
    BY <2>2, <2>3, RotationsKeepLength
  <2>5. Places'
    BY <1>1, <2>3, <2>4, TargetsStay DEF Places, Offered, OnPool, Listed
  <2>6. Allowed' = OfAll + CallsToTry(rest \cup {a}, m)
    <3>1. CreditAuths \ req'.credits = rest \cup {a}
      BY <2>1, <2>3
    <3> HIDE DEF rest
    <3> QED BY <1>1, <2>3, <3>1, TargetsStay DEF Allowed, Route, Target
  <2>7. Allowed = OfAll + d
    BY <1>1 DEF Allowed
  <2>8. (Left' = l \/ Left' = 0) /\ Left = 0 /\ ledger.calls \in Nat
    BY <1>1, <2>3, <2>4 DEF Left, Shape
  <2>9. l \in Nat
    BY <2>2
  <2> HIDE DEF m, rest
  <2>10. CallsToTry(rest \cup {a}, m) = l + d
    BY <2>1, CallsAdd
  <2>11. d \in Nat
    BY <2>1, CallsAdd
  <2> HIDE DEF d, l
  <2>12. ledger'.calls + Left' <= Allowed'
    BY <1>1, <2>1, <2>6, <2>7, <2>8, <2>9, <2>10, <2>11 DEF Within
  <2> QED BY <2>5, <2>12 DEF Within
<1> QED BY <1>2, <1>3 DEF TryCredits

LEMMA NextWithin ==
    Places /\ Within /\ Shape /\ [Next]_vars => Places' /\ Within'
<1> SUFFICES ASSUME Places, Within, Shape, [Next]_vars PROVE Places' /\ Within'
  OBVIOUS
<1>1. CASE Step
  BY <1>1, GiveUpWithin, PickWithin, CallWithin, ReportWithin, RetryWithin, NextTargetWithin,
     AnswerWithin, CreditsWithin DEF Step
<1>2. CASE Cancel \/ OthersReport \/ Tick \/ UNCHANGED vars
  BY <1>2, GiveUpWithin
<1> QED BY <1>1, <1>2 DEF Next

LEMMA InitWithin == Init => Places /\ Within
<1> SUFFICES ASSUME Init PROVE Places /\ Within
  OBVIOUS
<1>1. /\ kind \in Kinds /\ req.pc = "pick" /\ req.target = 1 /\ req.attempt = 0
      /\ req.tried = {} /\ ~req.paid /\ req.credits = {} /\ ledger.calls = 0
  BY DEF Init
<1>2. Places
  BY <1>1, AttemptsAllowed, LoopAssumption DEF Places, OnPool
<1> QED BY <1>1, <1>2, AllowedInAll DEF Within, Left

\* However cooldowns come and go, which credentials are picked and what the
\* calls answer, a request makes no more calls than its targets' attempts
\* times the upstream models of their credentials, and the paid credits.
THEOREM CallsStayBounded == Spec => []CallsBounded
<1>1. Places /\ Within /\ Shape => CallsBounded
  <2> SUFFICES ASSUME Places, Within, Shape PROVE CallsBounded
    OBVIOUS
  <2>1. Left \in Nat /\ ledger.calls \in Nat
    BY LeftType DEF Places, Shape
  <2>2. Allowed \in Nat /\ Allowed <= MostCalls /\ MostCalls \in Nat
    BY AllowedInAll
  <2> QED BY <2>1, <2>2 DEF Within, CallsBounded
<1>2. IInv => Shape
  BY DEF IInv
<1> QED BY <1>1, <1>2, IInvHolds, InitWithin, NextWithin, PTL DEF Spec

=============================================================================
