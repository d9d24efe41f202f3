----------------------------- MODULE RefreshLoop -----------------------------
(***************************************************************************)
(* The background refresh of credentials: authAutoRefreshLoop with its     *)
(* heap, its dirty set, its timer and its workers                          *)
(* (sdk/cliproxy/auth/auto_refresh_loop.go), and what the manager does for *)
(* it (markRefreshPending, refreshAuth, Register, Update, Remove and the   *)
(* results of requests in conductor.go).                                   *)
(*                                                                         *)
(* The goroutines are the loop, its workers and the callers of the         *)
(* manager's API; a step is one critical section or one channel operation. *)
(* A time is what is left of it, down to -MaxLag; NoTime is the zero       *)
(* time.Time. The loop computes with the now of its last wakeup, which is  *)
(* lag units old. The executor of a credential's provider is registered.   *)
(***************************************************************************)
EXTENDS Integers, Sequences, FiniteSets, FiniteSetsExt

CONSTANTS Auths, Workers, Callers,
          NoAuth,      \* no credential; an idle goroutine's
          NoTime,      \* the zero time
          Lifetimes,   \* how long fresh credentials need no refresh (a bound)
          Pending,     \* refreshPendingBackoff
          Backoff,     \* refreshFailureBackoff
          Ineffective, \* refreshIneffectiveBackoff
          JobsCap,     \* capacity of the jobs channel
          MaxLag       \* bound on the time one round of the loop may take

ASSUME DelaysAssumption ==
  /\ Pending \in Nat \ {0} /\ Backoff \in Nat \ {0} /\ Ineffective \in Nat \ {0}
  /\ JobsCap \in Nat \ {0} /\ MaxLag \in Nat
  /\ Lifetimes \subseteq Nat \cup {NoTime}
  /\ NoTime \notin Int /\ NoAuth \notin Auths
  /\ IsFiniteSet(Workers) /\ IsFiniteSet(Lifetimes)

VARIABLES auth,    \* Manager.auths: what the loop reads of the records
          heap,    \* queue and index: when each scheduled auth is looked at
          dirty,   \* auths to be looked at again
          wake,    \* wakeCh holds a signal
          timer,   \* what is left on the timer, NoTime when timerCh is nil
          loop,    \* where the loop is
          jobs,    \* the jobs channel
          worker,  \* where each worker is
          caller,  \* where each caller of Register, Update or Remove is
          untold,  \* history: the loop does not know that it is to look at the
                   \* auth: a request's result has lifted its 401, or a removal
                   \* has come late and taken the entry of the auth's successor
          excused  \* history: the pending mark of a refresh under way is over

vars == <<auth, heap, dirty, wake, timer, loop, jobs, worker, caller, untold, excused>>

MaxDelay == Max({Pending, Backoff, Ineffective} \cup (Lifetimes \ {NoTime}))
Times == ((0 - MaxLag)..MaxDelay) \cup {NoTime}
\* denied: LastError is a 401; after: NextRefreshAfter; due: when the
\* credential is to be refreshed, NoTime for one that never is.
AuthRec == [denied : BOOLEAN, after : Times, due : Times]
Ahead(t, lag) == t # NoTime /\ t > 0 - lag

\* nextRefreshCheckAt, NoTime when the auth is not to be scheduled.
NextCheck(r, lag) ==
  IF r = NoAuth THEN NoTime
  ELSE IF r.denied THEN NoTime
  ELSE IF Ahead(r.after, lag) THEN r.after
  ELSE IF r.due = NoTime THEN NoTime
  ELSE Max({r.due, 0 - lag})

\* seen is lag when the expiry is compared with the loop's now, 0 when with
\* time.Until.
ShouldRefresh(r, lag, seen) ==
  /\ r # NoAuth /\ ~r.denied /\ ~Ahead(r.after, lag)
  /\ r.due # NoTime /\ ~Ahead(r.due, seen)

Put(f, a, t) ==
  IF t = NoTime THEN [x \in DOMAIN f \ {a} |-> f[x]]
  ELSE [x \in DOMAIN f \cup {a} |-> IF x = a THEN t ELSE f[x]]

Holding(w, a) == worker[w].auth = a /\ worker[w].pc \in {"read", "busy"}
InFlight(a) ==
  Cardinality({i \in DOMAIN jobs : jobs[i] = a})
  + Cardinality({w \in Workers : Holding(w, a)})
  + (IF loop.pc = "send" /\ loop.cur = a THEN 1 ELSE 0)
UnderWay(a) == InFlight(a) > 0

-----------------------------------------------------------------------------
(* queueReschedule: the mark, then the signal.                              *)

Mark(a) ==
  /\ dirty' = dirty \cup {a}
  /\ untold' = untold \ {a}
Signal == wake' = TRUE

-----------------------------------------------------------------------------
(* The loop                                                                 *)

At(pc) == loop.pc = pc
Goto(pc) == loop' = [loop EXCEPT !.pc = pc]
ManagerAndWorkers == <<auth, jobs, worker, caller, untold, excused>>

\* rebuild reads the records, then fills the heap; the loop starts after it.
RebuildRead ==
  /\ At("start")
  /\ loop' = [loop EXCEPT !.pc = "install",
                !.plan = [a \in {b \in Auths : NextCheck(auth[b], loop.lag) # NoTime}
                            |-> NextCheck(auth[a], loop.lag)]]
  /\ UNCHANGED <<ManagerAndWorkers, heap, dirty, wake, timer>>

Armed(h, lag) ==
  IF DOMAIN h = {} THEN NoTime
  ELSE Max({0, lag + Min({h[a] : a \in DOMAIN h})})
EmptyPlan == [a \in {} |-> 0]

RebuildInstall ==
  /\ At("install")
  /\ heap' = loop.plan
  /\ timer' = Armed(loop.plan, 0)
  /\ loop' = [loop EXCEPT !.pc = "select", !.lag = 0, !.plan = EmptyPlan]
  /\ UNCHANGED <<ManagerAndWorkers, dirty, wake>>

OnWake ==
  /\ At("select") /\ wake
  /\ wake' = FALSE
  /\ loop' = [loop EXCEPT !.pc = "drain", !.lag = 0]
  /\ UNCHANGED <<ManagerAndWorkers, heap, dirty, timer>>

\* The timer fires: popDue takes everything that is due off the heap.
OnTimer ==
  /\ At("select") /\ timer # NoTime /\ timer <= 0
  /\ LET due == {a \in DOMAIN heap : heap[a] <= 0}
     IN  /\ heap' = [a \in DOMAIN heap \ due |-> heap[a]]
         /\ loop' = [loop EXCEPT !.pc = "due", !.due = due, !.lag = 0]
  /\ timer' = NoTime
  /\ UNCHANGED <<ManagerAndWorkers, dirty, wake>>

\* handleDueAuth: look at the record, then act on what was seen.
Examine(a) ==
  /\ At("due") /\ a \in loop.due
  /\ \E seen \in {0, loop.lag} :
       loop' = [loop EXCEPT !.due = @ \ {a},
                  !.cur = IF auth[a] = NoAuth THEN NoAuth ELSE a,
                  !.next = NextCheck(auth[a], loop.lag),
                  !.pc = IF auth[a] = NoAuth THEN "due"
                         ELSE IF ShouldRefresh(auth[a], loop.lag, seen) THEN "mark"
                         ELSE "put"]
  /\ UNCHANGED <<ManagerAndWorkers, heap, dirty, wake, timer>>

MayMark(r) == IF r = NoAuth THEN FALSE ELSE ~Ahead(r.after, loop.lag)

\* Mutant of MarkPending: the time is not written.
MarkPendingNot ==
  /\ At("mark") /\ MayMark(auth[loop.cur])
  /\ Goto("send") /\ Mark(loop.cur) /\ Signal
  /\ UNCHANGED <<auth, heap, timer, jobs, worker, caller, excused>>

\* markRefreshPending checks again and marks the record.
MarkPending ==
  LET a == loop.cur
  IN  /\ At("mark") /\ MayMark(auth[a])
      /\ auth' = [auth EXCEPT ![a].after = Pending - loop.lag]
      /\ excused' = IF Pending > loop.lag THEN excused ELSE excused \cup {a}
      /\ Goto("send") /\ Mark(a) /\ Signal
      /\ UNCHANGED <<heap, timer, jobs, worker, caller>>

MarkRefused ==
  /\ At("mark") /\ ~MayMark(auth[loop.cur])
  /\ Goto("reread")
  /\ UNCHANGED <<ManagerAndWorkers, heap, dirty, wake, timer>>

Reread ==
  /\ At("reread")
  /\ loop' = [loop EXCEPT !.pc = "put", !.next = NextCheck(auth[loop.cur], loop.lag)]
  /\ UNCHANGED <<ManagerAndWorkers, heap, dirty, wake, timer>>

\* Mutant of Send: the jobs channel has no bound.
SendUnbounded ==
  /\ At("send")
  /\ jobs' = Append(jobs, loop.cur)
  /\ loop' = [loop EXCEPT !.pc = "due", !.cur = NoAuth, !.next = NoTime]
  /\ UNCHANGED <<auth, heap, dirty, wake, timer, worker, caller, untold, excused>>

\* The loop waits for a place in the channel.
Send ==
  /\ At("send") /\ Len(jobs) < JobsCap
  /\ jobs' = Append(jobs, loop.cur)
  /\ loop' = [loop EXCEPT !.pc = "due", !.cur = NoAuth, !.next = NoTime]
  /\ UNCHANGED <<auth, heap, dirty, wake, timer, worker, caller, untold, excused>>

DueDone ==
  /\ At("due") /\ loop.due = {}
  /\ Goto("drain")
  /\ UNCHANGED <<ManagerAndWorkers, heap, dirty, wake, timer>>

\* applyDirty: take the marks, then look at each record and move its entry.
DrainDirty ==
  /\ At("drain")
  /\ loop' = [loop EXCEPT !.pc = "apply", !.drained = dirty]
  /\ dirty' = {}
  /\ UNCHANGED <<ManagerAndWorkers, heap, wake, timer>>

ApplyRead(a) ==
  /\ At("apply") /\ a \in loop.drained
  /\ loop' = [loop EXCEPT !.pc = "put", !.drained = @ \ {a}, !.cur = a,
                !.next = NextCheck(auth[a], loop.lag), !.applying = TRUE]
  /\ UNCHANGED <<ManagerAndWorkers, heap, dirty, wake, timer>>

\* upsert or remove, under l.mu, with what was read under m.mu.
PutEntry ==
  /\ At("put")
  /\ heap' = Put(heap, loop.cur, loop.next)
  /\ loop' = [loop EXCEPT !.pc = IF loop.applying THEN "apply" ELSE "due",
                !.cur = NoAuth, !.next = NoTime, !.applying = FALSE]
  /\ UNCHANGED <<ManagerAndWorkers, dirty, wake, timer>>

\* Mutant of ResetTimer: a timer that is set is left alone.
ResetTimerOnce ==
  /\ At("apply") /\ loop.drained = {}
  /\ timer' = IF timer = NoTime THEN Armed(heap, loop.lag) ELSE timer
  /\ Goto("select")
  /\ UNCHANGED <<ManagerAndWorkers, heap, dirty, wake>>

\* Mutant of ResetTimer: the marks are cleared once they have been applied.
ResetTimerClears ==
  /\ At("apply") /\ loop.drained = {}
  /\ timer' = Armed(heap, loop.lag)
  /\ dirty' = {}
  /\ Goto("select")
  /\ UNCHANGED <<ManagerAndWorkers, heap, wake>>

ResetTimer ==
  /\ At("apply") /\ loop.drained = {}
  /\ timer' = Armed(heap, loop.lag)
  /\ Goto("select")
  /\ UNCHANGED <<ManagerAndWorkers, heap, dirty, wake>>

Loop ==
  \/ RebuildRead \/ RebuildInstall
  \/ OnWake \/ OnTimer
  \/ \E a \in Auths : Examine(a) \/ ApplyRead(a)
  \/ MarkPending \/ MarkRefused \/ Reread \/ Send \/ DueDone
  \/ DrainDirty \/ PutEntry \/ ResetTimer

-----------------------------------------------------------------------------
(* The workers                                                              *)

LoopState == <<heap, timer, loop>>
Become(w, pc) == worker' = [worker EXCEPT ![w].pc = pc]

Take(w) ==
  /\ worker[w].pc = "idle" /\ jobs # <<>>
  /\ worker' = [worker EXCEPT ![w] = [pc |-> "read", auth |-> Head(jobs)]]
  /\ jobs' = Tail(jobs)
  /\ UNCHANGED <<LoopState, auth, dirty, wake, caller, untold, excused>>

\* refreshAuth clones the record, unless it is gone.
ReadAuth(w) ==
  /\ worker[w].pc = "read"
  /\ Become(w, IF auth[worker[w].auth] = NoAuth THEN "queue_last" ELSE "busy")
  /\ UNCHANGED <<LoopState, auth, dirty, wake, jobs, caller, untold, excused>>

\* A refresh ends a pending mark; once the last one under way has ended
\* nothing needs an excuse.
Ended(a) == excused' = IF InFlight(a) = 1 THEN excused \ {a} ELSE excused
Fresh(lifetime) ==
  [denied |-> FALSE, due |-> lifetime,
   after |-> IF lifetime # NoTime /\ lifetime <= 0 THEN Ineffective ELSE NoTime]

\* Update with the refreshed record; it does nothing for an auth that is gone.
Refreshed(w, lifetime) ==
  LET a == worker[w].auth
  IN  /\ worker[w].pc = "busy"
      /\ IF auth[a] = NoAuth THEN Become(w, "queue_last") /\ UNCHANGED auth
         ELSE auth' = [auth EXCEPT ![a] = Fresh(lifetime)] /\ Become(w, "queue")
      /\ Ended(a)
      /\ UNCHANGED <<LoopState, dirty, wake, jobs, caller, untold>>

RefreshFailed(w, denied) ==
  LET a == worker[w].auth
  IN  /\ worker[w].pc = "busy"
      /\ IF auth[a] = NoAuth THEN Become(w, "queue_last") /\ UNCHANGED auth
         ELSE /\ auth' = [auth EXCEPT ![a].denied = denied,
                            ![a].after = IF denied THEN NoTime ELSE Backoff]
              /\ Become(w, "queue")
      /\ Ended(a)
      /\ UNCHANGED <<LoopState, dirty, wake, jobs, caller, untold>>

RefreshCanceled(w) ==
  /\ worker[w].pc = "busy"
  /\ Become(w, "queue_last")
  /\ Ended(worker[w].auth)
  /\ UNCHANGED <<LoopState, auth, dirty, wake, jobs, caller, untold>>

\* refreshAuth reschedules what it changed, the worker whatever it was given.
WorkerMark(w) ==
  /\ worker[w].pc \in {"queue", "queue_last"}
  /\ Mark(worker[w].auth)
  /\ Become(w, IF worker[w].pc = "queue" THEN "wake" ELSE "wake_last")
  /\ UNCHANGED <<LoopState, auth, wake, jobs, caller, excused>>

WorkerSignal(w) ==
  /\ worker[w].pc \in {"wake", "wake_last"}
  /\ Signal
  /\ worker' = [worker EXCEPT ![w] =
       IF @.pc = "wake" THEN [@ EXCEPT !.pc = "queue_last"]
       ELSE [pc |-> "idle", auth |-> NoAuth]]
  /\ UNCHANGED <<LoopState, auth, dirty, jobs, caller, untold, excused>>

Worker(w) ==
  \/ Take(w) \/ ReadAuth(w)
  \/ \E lifetime \in Lifetimes : Refreshed(w, lifetime)
  \/ \E denied \in BOOLEAN : RefreshFailed(w, denied)
  \/ RefreshCanceled(w)
  \/ WorkerMark(w) \/ WorkerSignal(w)

-----------------------------------------------------------------------------
(* The manager's API and the results of requests                            *)

\* Register or Update: a record from a file or a login, which may keep the
\* record's NextRefreshAfter, or the record with other fields changed.
Store(c, a, lifetime) ==
  LET fresh == [denied |-> FALSE, after |-> NoTime, due |-> lifetime]
      kept == IF auth[a] = NoAuth THEN {}
              ELSE {auth[a], [fresh EXCEPT !.after = auth[a].after]}
  IN  /\ caller[c].pc = "idle"
      /\ \E r \in {fresh} \cup kept :
           /\ auth' = [auth EXCEPT ![a] = r]
           /\ excused' = IF UnderWay(a) /\ ~Ahead(r.after, 0)
                         THEN excused \cup {a} ELSE excused
      /\ caller' = [caller EXCEPT ![c] = [pc |-> "queue", auth |-> a]]
      /\ untold' = untold \ {a}
      /\ UNCHANGED <<LoopState, dirty, wake, jobs, worker>>

\* Mutant of CallerMark: the auth is not rescheduled.
CallerMarkNot(c) ==
  /\ caller[c].pc = "queue"
  /\ caller' = [caller EXCEPT ![c] = [pc |-> "idle", auth |-> NoAuth]]
  /\ UNCHANGED <<LoopState, auth, dirty, wake, jobs, worker, untold, excused>>

CallerMark(c) ==
  /\ caller[c].pc = "queue"
  /\ Mark(caller[c].auth)
  /\ caller' = [caller EXCEPT ![c].pc = "wake"]
  /\ UNCHANGED <<LoopState, auth, wake, jobs, worker, excused>>

\* Mutant of CallerSignal: the loop is not woken.
CallerSignalNot(c) ==
  /\ caller[c].pc = "wake"
  /\ caller' = [caller EXCEPT ![c] = [pc |-> "idle", auth |-> NoAuth]]
  /\ UNCHANGED <<LoopState, auth, dirty, wake, jobs, worker, untold, excused>>

CallerSignal(c) ==
  /\ caller[c].pc = "wake"
  /\ Signal
  /\ caller' = [caller EXCEPT ![c] = [pc |-> "idle", auth |-> NoAuth]]
  /\ UNCHANGED <<LoopState, auth, dirty, jobs, worker, untold, excused>>

\* Remove deletes the record, then the entry of the heap, whosever it is by
\* then.
Delete(c, a) ==
  /\ caller[c].pc = "idle" /\ auth[a] # NoAuth
  /\ auth' = [auth EXCEPT ![a] = NoAuth]
  /\ caller' = [caller EXCEPT ![c] = [pc |-> "unschedule", auth |-> a]]
  /\ untold' = untold \ {a}
  /\ UNCHANGED <<LoopState, dirty, wake, jobs, worker, excused>>

Unschedule(c) ==
  /\ caller[c].pc = "unschedule"
  /\ heap' = Put(heap, caller[c].auth, NoTime)
  /\ untold' = IF auth[caller[c].auth] = NoAuth THEN untold
               ELSE untold \cup {caller[c].auth}
  /\ caller' = [caller EXCEPT ![c] = [pc |-> "idle", auth |-> NoAuth]]
  /\ UNCHANGED <<auth, dirty, wake, timer, loop, jobs, worker, excused>>

\* MarkResult sets or clears LastError; it does not touch the loop.
MarkResult(a, denied) ==
  /\ auth[a] # NoAuth /\ auth[a].denied # denied
  /\ auth' = [auth EXCEPT ![a].denied = denied]
  /\ untold' = IF denied THEN untold \ {a} ELSE untold \cup {a}
  /\ UNCHANGED <<LoopState, dirty, wake, jobs, worker, caller, excused>>

Caller(c) == CallerMark(c) \/ CallerSignal(c) \/ Unschedule(c)

Less(t) == IF t = NoTime THEN NoTime ELSE Max({t - 1, 0 - MaxLag})
Busy == ~At("select")
Tick ==
  /\ Busy => loop.lag < MaxLag
  /\ auth' = [a \in Auths |-> IF auth[a] = NoAuth THEN NoAuth
       ELSE [auth[a] EXCEPT !.after = Less(@), !.due = Less(@)]]
  /\ heap' = [a \in DOMAIN heap |-> Less(heap[a])]
  /\ timer' = IF timer = NoTime THEN NoTime ELSE Max({timer - 1, 0})
  /\ loop' = [loop EXCEPT !.lag = IF Busy THEN @ + 1 ELSE @, !.next = Less(@),
                !.plan = [a \in DOMAIN @ |-> Less(@[a])]]
  /\ excused' = excused \cup {a \in Auths :
       UnderWay(a) /\ auth'[a] # NoAuth /\ auth'[a].after \notin 1..MaxDelay}
  /\ UNCHANGED <<dirty, wake, jobs, worker, caller, untold>>

IdleLoop == [pc |-> "select", due |-> {}, drained |-> {}, cur |-> NoAuth,
             next |-> NoTime, applying |-> FALSE, lag |-> 0, plan |-> EmptyPlan]
Init ==
  /\ auth \in [Auths -> {NoAuth} \cup
       {[denied |-> FALSE, after |-> NoTime, due |-> t] : t \in Lifetimes}]
  /\ heap = EmptyPlan
  /\ dirty = {}
  /\ wake = FALSE
  /\ timer = NoTime
  /\ loop = [IdleLoop EXCEPT !.pc = "start"]
  /\ jobs = <<>>
  /\ worker = [w \in Workers |-> [pc |-> "idle", auth |-> NoAuth]]
  /\ caller = [c \in Callers |-> [pc |-> "idle", auth |-> NoAuth]]
  /\ untold = {}
  /\ excused = {}

Next ==
  \/ Tick
  \/ Loop
  \/ \E w \in Workers : Worker(w)
  \/ \E c \in Callers, a \in Auths :
       Delete(c, a) \/ (\E lifetime \in Lifetimes : Store(c, a, lifetime))
  \/ \E c \in Callers : Caller(c)
  \/ \E a \in Auths, denied \in BOOLEAN : MarkResult(a, denied)
Spec == Init /\ [][Next]_vars
\* Goroutines that can run do and refreshes return; time passes, also while
\* the loop waits (a round takes less than the delays); and a select with both
\* channels ready, which picks one at random, does not pass over the same one
\* for ever.
TickAtRest == Tick /\ At("select")
FairSpec ==
  /\ Spec /\ WF_vars(Tick) /\ SF_vars(TickAtRest)
  /\ WF_vars(Loop) /\ SF_vars(OnTimer) /\ SF_vars(OnWake)
  /\ \A w \in Workers : WF_vars(Worker(w))
  /\ \A c \in Callers : WF_vars(Caller(c))

-----------------------------------------------------------------------------
(* The type invariant.                                                      *)
TypeOK ==
  /\ auth \in [Auths -> AuthRec \cup {NoAuth}]
  /\ DOMAIN heap \subseteq Auths
  /\ \A a \in DOMAIN heap : heap[a] \in Times \ {NoTime}
  /\ dirty \subseteq Auths /\ untold \subseteq Auths /\ excused \subseteq Auths
  /\ wake \in BOOLEAN
  /\ (timer = NoTime \/ timer \in Nat)
  /\ loop.due \subseteq Auths /\ loop.drained \subseteq Auths
  /\ loop.lag \in 0..MaxLag /\ loop.next \in Times
  /\ Len(jobs) <= JobsCap

-----------------------------------------------------------------------------
\* Somebody is going to look at the auth: the heap in time, or a goroutine
\* that has it in hand or will mark it.
Attended(a) ==
  \/ a \in DOMAIN heap /\ heap[a] <= Max({0, NextCheck(auth[a], 0)})
  \/ a \in dirty \cup loop.due \cup loop.drained \/ loop.cur = a
  \/ At("start")
  \/ At("install") /\ a \in DOMAIN loop.plan
  \/ UnderWay(a)
  \/ \E w \in Workers : worker[w].auth = a /\ worker[w].pc \in {"queue", "queue_last"}
  \/ \E c \in Callers : caller[c].auth = a /\ caller[c].pc = "queue"

\* No credential that is to be looked at is forgotten, and none is looked at
\* late, from when the loop has started, through updates and removals between
\* what it reads and what it writes; except where a request's result has
\* lifted a 401, of which the loop is not told, and where a credential was
\* stored again before its removal got to the heap.
NoneForgotten ==
  \A a \in Auths \ untold : NextCheck(auth[a], 0) # NoTime => Attended(a)

\* One refresh of a credential is under way at a time, unless its record was
\* replaced meanwhile or it outlasts the pending mark.
OneRefreshAtATime == \A a \in Auths \ excused : InFlight(a) <= 1

\* When the loop waits, it wakes for the first entry of the heap, late by no
\* more than the round took that set the timer: whatever the heap has lost or
\* gained since the timer was set.
TimerInTime ==
  At("select") /\ DOMAIN heap # {} =>
    timer # NoTime /\ \A a \in DOMAIN heap : timer <= Max({0, heap[a] + loop.lag})

\* No signal is lost: a mark is always taken up.
MarksAreApplied == \A a \in Auths : a \in dirty ~> a \notin dirty

Due(a) == ShouldRefresh(auth[a], 0, 0)

\* The API does not replace records for ever: one that is replaced in every
\* round of the loop may be due only after the loop has taken its now.
Quiet == <>[](\A c \in Callers : caller[c].pc = "idle")

\* A credential that is due is refreshed, or ceases to be due, unless this
\* has come about behind the loop's back.
DueIsRefreshed ==
  Quiet => \A a \in Auths :
    (Due(a) /\ a \notin untold) ~> (~Due(a) \/ UnderWay(a) \/ a \in untold)

=============================================================================
