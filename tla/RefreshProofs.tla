---------------------------- MODULE RefreshProofs ----------------------------
(***************************************************************************)
(* Proofs about RefreshLoop, for any credentials, workers and callers, any *)
(* delays, any capacity of the jobs channel and any lag of the loop.       *)
(***************************************************************************)
EXTENDS RefreshLoop, SetLemmas

Time == Int \cup {NoTime}
Rec == [denied : BOOLEAN, after : Time, due : Time]
Plans == UNION {[S -> Int] : S \in SUBSET Auths}
LoopPlaces == {"start", "install", "select", "drain", "apply", "put", "due",
               "mark", "reread", "send"}
LoopRec == [pc : LoopPlaces, due : SUBSET Auths, drained : SUBSET Auths,
            cur : Auths \cup {NoAuth}, next : Time, applying : BOOLEAN,
            lag : Nat, plan : Plans]
WorkerRec == [pc : {"idle", "read", "busy", "queue", "queue_last", "wake", "wake_last"},
              auth : Auths \cup {NoAuth}]
CallerRec == [pc : {"idle", "queue", "wake", "unschedule"}, auth : Auths \cup {NoAuth}]

AuthTypes == auth \in [Auths -> Rec \cup {NoAuth}]
HeapTypes == heap \in Plans
SetTypes == dirty \subseteq Auths /\ untold \subseteq Auths
\* What the loop has in hand at each of its places.
LoopTypes ==
  /\ loop \in LoopRec
  /\ loop.pc \in {"mark", "send", "reread", "put"} => loop.cur \in Auths
  /\ loop.due # {} => \/ loop.pc \in {"due", "mark", "send", "reread"}
                      \/ loop.pc = "put" /\ ~loop.applying
  /\ loop.drained # {} => loop.pc = "apply" \/ (loop.pc = "put" /\ loop.applying)
  /\ loop.applying => loop.pc = "put"
GoroutineTypes ==
  /\ jobs \in Seq(Auths)
  /\ worker \in [Workers -> WorkerRec]
  /\ \A w \in Workers : worker[w].pc # "idle" => worker[w].auth \in Auths
  /\ caller \in [Callers -> CallerRec]
  /\ \A c \in Callers : caller[c].pc # "idle" => caller[c].auth \in Auths

TypeInv == AuthTypes /\ HeapTypes /\ SetTypes /\ LoopTypes /\ GoroutineTypes

-----------------------------------------------------------------------------
(* Times                                                                    *)

LEMMA MaxOfTwo ==
  ASSUME NEW i \in Int, NEW j \in Int
  PROVE  Max({i, j}) = IF i >= j THEN i ELSE j
BY DEF Max

LEMMA PlanFacts ==
  ASSUME NEW f
  PROVE  f \in Plans <=> DOMAIN f \subseteq Auths /\ f \in [DOMAIN f -> Int]
<1>1. ASSUME f \in Plans PROVE DOMAIN f \subseteq Auths /\ f \in [DOMAIN f -> Int]
  BY <1>1 DEF Plans
<1>2. ASSUME DOMAIN f \subseteq Auths, f \in [DOMAIN f -> Int] PROVE f \in Plans
  BY <1>2 DEF Plans
<1> QED BY <1>1, <1>2

LEMMA NextCheckType ==
  ASSUME NEW r \in Rec \cup {NoAuth}, NEW lag \in Nat
  PROVE  NextCheck(r, lag) \in Time
BY MaxOfTwo, DelaysAssumption DEF NextCheck, Rec, Time, Ahead

\* Looking with an old now is never too late.
LEMMA LateLook ==
  ASSUME NEW r \in Rec \cup {NoAuth}, NEW lag \in Nat, NextCheck(r, 0) # NoTime
  PROVE  /\ NextCheck(r, lag) # NoTime
         /\ NextCheck(r, lag) <= Max({0, NextCheck(r, 0)})
<1>1. CASE r = NoAuth
  BY <1>1 DEF NextCheck
<1>2. CASE r # NoAuth
  <2>1. r \in Rec /\ ~r.denied
    BY <1>2 DEF NextCheck
  <2>2. r.after \in Time /\ r.due \in Time
    BY <2>1 DEF Rec
  <2>3. NextCheck(r, 0) = IF Ahead(r.after, 0) THEN r.after
                          ELSE IF r.due = NoTime THEN NoTime
                          ELSE IF r.due >= 0 THEN r.due ELSE 0
    BY <1>2, <2>1, <2>2, MaxOfTwo, DelaysAssumption DEF NextCheck, Time
  <2>4. NextCheck(r, lag) = IF Ahead(r.after, lag) THEN r.after
                            ELSE IF r.due = NoTime THEN NoTime
                            ELSE IF r.due >= 0 - lag THEN r.due ELSE 0 - lag
    BY <1>2, <2>1, <2>2, MaxOfTwo, DelaysAssumption DEF NextCheck, Time
  <2>5. NextCheck(r, 0) \in Int
    BY <2>2, <2>3, DelaysAssumption DEF Time, Ahead
  <2>6. Max({0, NextCheck(r, 0)}) = IF 0 >= NextCheck(r, 0) THEN 0 ELSE NextCheck(r, 0)
    BY <2>5, MaxOfTwo
  <2> QED BY <2>2, <2>3, <2>4, <2>5, <2>6, DelaysAssumption DEF Time, Ahead
<1> QED BY <1>1, <1>2

\* One tick later: the entry of a heap stays in time.
Ticked(r) == IF r = NoAuth THEN NoAuth
             ELSE [r EXCEPT !.after = Less(@), !.due = Less(@)]

LEMMA LessFacts ==
  ASSUME NEW t \in Time
  PROVE  /\ Less(t) \in Time
         /\ t = NoTime <=> Less(t) = NoTime
         /\ t # NoTime => Less(t) = IF t - 1 >= 0 - MaxLag THEN t - 1 ELSE 0 - MaxLag
BY MaxOfTwo, DelaysAssumption DEF Less, Time

LEMMA TickedFacts ==
  ASSUME NEW r \in Rec
  PROVE  /\ [r EXCEPT !.after = Less(@), !.due = Less(@)] \in Rec
         /\ [r EXCEPT !.after = Less(@), !.due = Less(@)].denied = r.denied
         /\ [r EXCEPT !.after = Less(@), !.due = Less(@)].after = Less(r.after)
         /\ [r EXCEPT !.after = Less(@), !.due = Less(@)].due = Less(r.due)
<1>1. Less(r.after) \in Time /\ Less(r.due) \in Time
  BY LessFacts DEF Rec
<1> QED BY <1>1 DEF Rec

LEMMA CheckTicks ==
  ASSUME NEW r \in Rec, NEW s \in Rec, s.denied = r.denied, s.after = Less(r.after),
         s.due = Less(r.due), r # NoAuth, s # NoAuth, NextCheck(s, 0) # NoTime
  PROVE  /\ NextCheck(r, 0) # NoTime
         /\ \A t \in Int : t <= Max({0, NextCheck(r, 0)})
                             => Less(t) <= Max({0, NextCheck(s, 0)})
<1>1. ~r.denied /\ r.after \in Time /\ r.due \in Time /\ s.after \in Time /\ s.due \in Time
  BY DEF NextCheck, Rec
<1>2. NextCheck(r, 0) = IF Ahead(r.after, 0) THEN r.after
                        ELSE IF r.due = NoTime THEN NoTime
                        ELSE IF r.due >= 0 THEN r.due ELSE 0
  BY <1>1, MaxOfTwo, DelaysAssumption DEF NextCheck, Time
<1>3. NextCheck(s, 0) = IF Ahead(s.after, 0) THEN s.after
                        ELSE IF s.due = NoTime THEN NoTime
                        ELSE IF s.due >= 0 THEN s.due ELSE 0
  BY <1>1, MaxOfTwo, DelaysAssumption DEF NextCheck, Time
<1>4. NextCheck(s, 0) \in Int
  BY <1>1, <1>3, DelaysAssumption DEF Time, Ahead
<1>5. /\ r.after = NoTime <=> s.after = NoTime
      /\ r.after # NoTime => s.after = IF r.after - 1 >= 0 - MaxLag THEN r.after - 1 ELSE 0 - MaxLag
      /\ r.due = NoTime <=> s.due = NoTime
      /\ r.due # NoTime => s.due = IF r.due - 1 >= 0 - MaxLag THEN r.due - 1 ELSE 0 - MaxLag
  BY <1>1, LessFacts
<1>6. NextCheck(r, 0) # NoTime /\ NextCheck(r, 0) \in Int
  BY <1>1, <1>2, <1>3, <1>5, DelaysAssumption DEF Time, Ahead
<1>7. NextCheck(s, 0) >= NextCheck(r, 0) - 1 /\ NextCheck(s, 0) >= 0
  BY <1>1, <1>2, <1>3, <1>4, <1>5, <1>6, DelaysAssumption DEF Time, Ahead
<1>8. /\ Max({0, NextCheck(r, 0)}) = IF 0 >= NextCheck(r, 0) THEN 0 ELSE NextCheck(r, 0)
      /\ Max({0, NextCheck(s, 0)}) = IF 0 >= NextCheck(s, 0) THEN 0 ELSE NextCheck(s, 0)
  BY <1>4, <1>6, MaxOfTwo
<1>9. ASSUME NEW t \in Int, t <= Max({0, NextCheck(r, 0)})
      PROVE  Less(t) <= Max({0, NextCheck(s, 0)})
  <2>1. Less(t) = IF t - 1 >= 0 - MaxLag THEN t - 1 ELSE 0 - MaxLag
    BY LessFacts, DelaysAssumption DEF Time
  <2> QED BY <1>4, <1>6, <1>7, <1>8, <1>9, <2>1, DelaysAssumption
<1> QED BY <1>6, <1>9

-----------------------------------------------------------------------------
(* Types                                                                    *)

LEMMA PutType ==
  ASSUME NEW f \in Plans, NEW a \in Auths, NEW t \in Time
  PROVE  /\ Put(f, a, t) \in Plans
         /\ \A b \in Auths : b # a =>
              /\ b \in DOMAIN Put(f, a, t) <=> b \in DOMAIN f
              /\ b \in DOMAIN f => Put(f, a, t)[b] = f[b]
         /\ t # NoTime => a \in DOMAIN Put(f, a, t) /\ Put(f, a, t)[a] = t
<1>1. DOMAIN f \subseteq Auths /\ \A x \in DOMAIN f : f[x] \in Int
  BY PlanFacts
<1> DEFINE g == Put(f, a, t)
<1>2. CASE t = NoTime
  <2>1. g = [x \in DOMAIN f \ {a} |-> f[x]]
    BY <1>2 DEF Put
  <2>2. DOMAIN g \subseteq Auths /\ g \in [DOMAIN g -> Int]
    BY <1>1, <2>1
  <2>3. g \in Plans
    BY <2>2, PlanFacts
  <2> QED BY <1>2, <2>1, <2>3
<1>3. CASE t # NoTime
  <2>1. g = [x \in DOMAIN f \cup {a} |-> IF x = a THEN t ELSE f[x]]
    BY <1>3 DEF Put
  <2>2. t \in Int
    BY <1>3 DEF Time
  <2>3. DOMAIN g \subseteq Auths /\ g \in [DOMAIN g -> Int]
    BY <1>1, <2>1, <2>2
  <2>4. g \in Plans
    BY <2>3, PlanFacts
  <2> QED BY <2>1, <2>4
<1> QED BY <1>2, <1>3

LEMMA InitTypes == Init => TypeInv
<1> SUFFICES ASSUME Init PROVE TypeInv
  OBVIOUS
<1>1. EmptyPlan \in Plans
  BY PlanFacts DEF EmptyPlan
<1>2. AuthTypes
  <2>1. \A t \in Lifetimes : [denied |-> FALSE, after |-> NoTime, due |-> t] \in Rec
    BY DelaysAssumption DEF Rec, Time
  <2> QED BY <2>1 DEF Init, AuthTypes
<1>3. HeapTypes /\ SetTypes
  BY <1>1 DEF Init, HeapTypes, SetTypes
<1>4. LoopTypes
  BY <1>1 DEF Init, IdleLoop, LoopTypes, LoopRec, LoopPlaces, Time
<1>5. GoroutineTypes
  BY DEF Init, GoroutineTypes, WorkerRec, CallerRec
<1> QED BY <1>2, <1>3, <1>4, <1>5 DEF TypeInv

LEMMA LoopTypesNext == TypeInv /\ Loop => TypeInv'
<1> SUFFICES ASSUME TypeInv, Loop PROVE TypeInv'
  OBVIOUS
<1> USE DelaysAssumption DEF TypeInv, SetTypes, LoopTypes, At, Goto, ManagerAndWorkers
<1>0. HeapTypes /\ LoopTypes
  OBVIOUS
<1>1. CASE RebuildRead
  <2> DEFINE S == {b \in Auths : NextCheck(auth[b], loop.lag) # NoTime}
             plan == [a \in S |-> NextCheck(auth[a], loop.lag)]
  <2>1. plan \in Plans
    <3>1. \A b \in Auths : NextCheck(auth[b], loop.lag) \in Time
      BY NextCheckType DEF AuthTypes, LoopRec
    <3>2. \A b \in S : plan[b] \in Int
      BY <3>1 DEF Time
    <3> QED BY <3>2, PlanFacts
  <2>2. loop' = [loop EXCEPT !.pc = "install", !.plan = plan]
    BY <1>1 DEF RebuildRead
  <2> HIDE DEF plan
  <2>3. LoopTypes'
    BY <1>1, <2>1, <2>2 DEF RebuildRead, LoopRec, LoopPlaces
  <2> QED BY <1>1, <2>3 DEF RebuildRead, AuthTypes, HeapTypes, GoroutineTypes
<1>2. CASE RebuildInstall
  <2>1. EmptyPlan \in Plans
    BY PlanFacts DEF EmptyPlan
  <2>2. LoopTypes'
    BY <1>2, <2>1 DEF RebuildInstall, LoopRec, LoopPlaces
  <2> QED BY <1>2, <2>2 DEF RebuildInstall, AuthTypes, HeapTypes, GoroutineTypes, LoopRec
<1>3. CASE OnWake
  BY <1>3 DEF OnWake, LoopRec, LoopPlaces, AuthTypes, HeapTypes, GoroutineTypes
<1>4. CASE OnTimer
  <2> DEFINE due == {a \in DOMAIN heap : heap[a] <= 0}
             rest == [a \in DOMAIN heap \ due |-> heap[a]]
  <2>1. rest \in Plans /\ due \subseteq Auths
    BY PlanFacts DEF HeapTypes
  <2>2. loop' = [loop EXCEPT !.pc = "due", !.due = due, !.lag = 0] /\ heap' = rest
    BY <1>4 DEF OnTimer
  <2> HIDE DEF due, rest
  <2>3. loop.pc = "select" /\ loop.drained = {} /\ ~loop.applying
    BY <1>4 DEF OnTimer, LoopRec
  <2>4. /\ loop' \in LoopRec /\ loop'.pc = "due"
        /\ loop'.drained = {} /\ ~loop'.applying
    BY <2>1, <2>2, <2>3 DEF LoopRec, LoopPlaces
  <2> QED BY <1>4, <2>1, <2>2, <2>4 DEF OnTimer, AuthTypes, HeapTypes, GoroutineTypes
<1>5. ASSUME NEW a \in Auths, Examine(a) PROVE TypeInv'
  <2>1. NextCheck(auth[a], loop.lag) \in Time
    BY NextCheckType DEF AuthTypes, LoopRec
  <2> DEFINE c == IF auth[a] = NoAuth THEN NoAuth ELSE a
             n == NextCheck(auth[a], loop.lag)
             D == loop.due \ {a}
  <2>2. PICK pc \in {"due", "mark", "put"} :
           /\ loop' = [loop EXCEPT !.due = D, !.cur = c, !.next = n, !.pc = pc]
           /\ pc \in {"mark", "put"} => c = a
    BY <1>5 DEF Examine
  <2>3. c \in Auths \cup {NoAuth} /\ n \in Time /\ D \subseteq Auths
    BY <2>1 DEF LoopRec
  <2> HIDE DEF c, n, D
  <2>4. LoopTypes'
    BY <1>5, <2>2, <2>3 DEF Examine, LoopRec, LoopPlaces
  <2> QED BY <1>5, <2>4 DEF Examine, AuthTypes, HeapTypes, GoroutineTypes
<1>6. ASSUME NEW a \in Auths, ApplyRead(a) PROVE TypeInv'
  <2>1. NextCheck(auth[a], loop.lag) \in Time
    BY NextCheckType DEF AuthTypes, LoopRec
  <2> DEFINE n == NextCheck(auth[a], loop.lag)
             D == loop.drained \ {a}
  <2>2. loop' = [loop EXCEPT !.pc = "put", !.drained = D, !.cur = a, !.next = n,
                   !.applying = TRUE]
    BY <1>6 DEF ApplyRead
  <2>3. n \in Time /\ D \subseteq Auths
    BY <2>1 DEF LoopRec
  <2> HIDE DEF n, D
  <2>4. LoopTypes'
    BY <1>6, <2>2, <2>3 DEF ApplyRead, LoopRec, LoopPlaces
  <2> QED BY <1>6, <2>4 DEF ApplyRead, AuthTypes, HeapTypes, GoroutineTypes
<1>7. CASE MarkPending
  <2>1. LoopTypes' /\ SetTypes'
    BY <1>7 DEF MarkPending, Mark, LoopRec, LoopPlaces
  <2>2. AuthTypes'
    BY <1>7 DEF MarkPending, AuthTypes, MayMark, Rec, Time, LoopRec
  <2> QED BY <1>7, <2>1, <2>2 DEF MarkPending, HeapTypes, GoroutineTypes
<1>8. CASE MarkRefused
  BY <1>8 DEF MarkRefused, LoopRec, LoopPlaces, AuthTypes, HeapTypes, GoroutineTypes
<1>9. CASE Reread
  <2>1. NextCheck(auth[loop.cur], loop.lag) \in Time
    BY <1>9, NextCheckType DEF Reread, AuthTypes, LoopRec
  <2> QED BY <1>9, <2>1 DEF Reread, LoopRec, LoopPlaces, AuthTypes, HeapTypes, GoroutineTypes
<1>10. CASE Send
  <2>1. LoopTypes'
    BY <1>10 DEF Send, LoopRec, LoopPlaces, Time
  <2>2. jobs' \in Seq(Auths)
    BY <1>10 DEF Send, GoroutineTypes
  <2> QED BY <1>10, <2>1, <2>2 DEF Send, AuthTypes, HeapTypes, GoroutineTypes
<1>11. CASE DueDone
  BY <1>11 DEF DueDone, LoopRec, LoopPlaces, AuthTypes, HeapTypes, GoroutineTypes
<1>12. CASE DrainDirty
  BY <1>12 DEF DrainDirty, LoopRec, LoopPlaces, AuthTypes, HeapTypes, GoroutineTypes
<1>13. CASE PutEntry
  <2>1. heap' \in Plans
    BY <1>13, PutType DEF PutEntry, HeapTypes, LoopRec
  <2>2. LoopTypes'
    BY <1>13 DEF PutEntry, LoopRec, LoopPlaces, Time
  <2> QED BY <1>13, <2>1, <2>2 DEF PutEntry, AuthTypes, HeapTypes, GoroutineTypes
<1>14. CASE ResetTimer
  BY <1>14 DEF ResetTimer, LoopRec, LoopPlaces, AuthTypes, HeapTypes, GoroutineTypes
<1> QED
  BY <1>1, <1>2, <1>3, <1>4, <1>5, <1>6, <1>7, <1>8, <1>9, <1>10, <1>11, <1>12,
     <1>13, <1>14 DEF Loop

LEMMA WorkerTypesNext == ASSUME TypeInv, NEW w \in Workers, Worker(w) PROVE TypeInv'
<1> USE DelaysAssumption DEF TypeInv, SetTypes, LoopState, Become
<1>1. CASE Take(w)
  <2>1. jobs # <<>> /\ Head(jobs) \in Auths /\ Tail(jobs) \in Seq(Auths)
    BY <1>1 DEF Take, GoroutineTypes
  <2> QED BY <1>1, <2>1 DEF Take, AuthTypes, HeapTypes, LoopTypes, GoroutineTypes, WorkerRec
<1>2. CASE ReadAuth(w)
  BY <1>2 DEF ReadAuth, AuthTypes, HeapTypes, LoopTypes, GoroutineTypes, WorkerRec
<1>3. ASSUME NEW lifetime \in Lifetimes, Refreshed(w, lifetime) PROVE TypeInv'
  <2>1. Fresh(lifetime) \in Rec
    BY DEF Fresh, Rec, Time
  <2>2. AuthTypes'
    BY <1>3, <2>1 DEF Refreshed, AuthTypes
  <2>3. PICK pc \in {"queue", "queue_last"} : worker' = [worker EXCEPT ![w].pc = pc]
    BY <1>3 DEF Refreshed
  <2>4. worker[w].pc = "busy" /\ UNCHANGED <<heap, timer, loop, dirty, wake, jobs, caller, untold>>
    BY <1>3 DEF Refreshed
  <2>5. GoroutineTypes'
    BY <2>3, <2>4 DEF GoroutineTypes, WorkerRec
  <2> QED BY <2>2, <2>4, <2>5 DEF HeapTypes, LoopTypes
<1>4. ASSUME NEW denied \in BOOLEAN, RefreshFailed(w, denied) PROVE TypeInv'
  <2> DEFINE a == worker[w].auth
             t == IF denied THEN NoTime ELSE Backoff
  <2>1. a \in Auths /\ t \in Time
    BY <1>4 DEF RefreshFailed, GoroutineTypes, Time
  <2>2. \/ auth' = auth
        \/ /\ auth[a] \in Rec
           /\ auth' = [auth EXCEPT ![a] = [auth[a] EXCEPT !.denied = denied, !.after = t]]
    BY <1>4, <2>1 DEF RefreshFailed, AuthTypes
  <2> HIDE DEF a, t
  <2>3. ASSUME NEW r \in Rec PROVE [r EXCEPT !.denied = denied, !.after = t] \in Rec
    BY <2>1 DEF Rec
  <2>4. AuthTypes'
    BY <2>1, <2>2, <2>3 DEF AuthTypes
  <2> QED BY <1>4, <2>4 DEF RefreshFailed, HeapTypes, LoopTypes, GoroutineTypes, WorkerRec
<1>5. CASE RefreshCanceled(w)
  BY <1>5 DEF RefreshCanceled, AuthTypes, HeapTypes, LoopTypes, GoroutineTypes, WorkerRec
<1>6. CASE WorkerMark(w)
  BY <1>6 DEF WorkerMark, Mark, AuthTypes, HeapTypes, LoopTypes, GoroutineTypes, WorkerRec
<1>7. CASE WorkerSignal(w)
  BY <1>7 DEF WorkerSignal, AuthTypes, HeapTypes, LoopTypes, GoroutineTypes, WorkerRec
<1> QED BY <1>1, <1>2, <1>3, <1>4, <1>5, <1>6, <1>7 DEF Worker

LEMMA StoreTypes ==
  ASSUME TypeInv, NEW c \in Callers, NEW a \in Auths, NEW lifetime \in Lifetimes,
         Store(c, a, lifetime)
  PROVE  TypeInv'
<1> USE DelaysAssumption DEF TypeInv, SetTypes, LoopState
<1> DEFINE fresh == [denied |-> FALSE, after |-> NoTime, due |-> lifetime]
           kept == IF auth[a] = NoAuth THEN {}
                   ELSE {auth[a], [fresh EXCEPT !.after = auth[a].after]}
<1>1. fresh \in Rec
  BY DEF Rec, Time
<1>2. ASSUME auth[a] # NoAuth PROVE [fresh EXCEPT !.after = auth[a].after] \in Rec
  <2>1. auth[a] \in Rec
    BY <1>2 DEF AuthTypes
  <2>2. auth[a].after \in Time
    BY <2>1 DEF Rec
  <2> QED BY <1>1, <2>2 DEF Rec
<1>3. \A r \in {fresh} \cup kept : r \in Rec
  BY <1>1, <1>2 DEF AuthTypes
<1>4. PICK r \in {fresh} \cup kept : auth' = [auth EXCEPT ![a] = r]
  BY DEF Store
<1> HIDE DEF fresh, kept
<1>5. AuthTypes'
  BY <1>3, <1>4 DEF AuthTypes
<1> QED BY <1>5 DEF Store, HeapTypes, LoopTypes, GoroutineTypes, CallerRec

LEMMA CallerTypesNext == ASSUME TypeInv, NEW c \in Callers, Caller(c) PROVE TypeInv'
<1> USE DelaysAssumption DEF TypeInv, SetTypes, LoopState
<1>1. CASE CallerMark(c)
  BY <1>1 DEF CallerMark, Mark, AuthTypes, HeapTypes, LoopTypes, GoroutineTypes, CallerRec
<1>2. CASE CallerSignal(c)
  BY <1>2 DEF CallerSignal, AuthTypes, HeapTypes, LoopTypes, GoroutineTypes, CallerRec
<1>3. CASE Unschedule(c)
  <2>1. heap' \in Plans /\ caller[c].auth \in Auths
    BY <1>3, PutType DEF Unschedule, HeapTypes, GoroutineTypes, Time
  <2> QED BY <1>3, <2>1 DEF Unschedule, AuthTypes, HeapTypes, LoopTypes, GoroutineTypes, CallerRec
<1> QED BY <1>1, <1>2, <1>3 DEF Caller

LEMMA DeleteTypes ==
  ASSUME TypeInv, NEW c \in Callers, NEW a \in Auths, Delete(c, a) PROVE TypeInv'
BY DelaysAssumption DEF TypeInv, SetTypes, LoopState, Delete, AuthTypes, HeapTypes, LoopTypes,
   GoroutineTypes, CallerRec

LEMMA MarkResultTypes ==
  ASSUME TypeInv, NEW a \in Auths, NEW denied \in BOOLEAN, MarkResult(a, denied)
  PROVE  TypeInv'
<1>1. AuthTypes'
  BY DEF TypeInv, MarkResult, AuthTypes, Rec
<1> QED BY <1>1 DEF TypeInv, SetTypes, LoopState, MarkResult, HeapTypes, LoopTypes, GoroutineTypes

LEMMA TickAuth ==
  ASSUME TypeInv, Tick, NEW a \in Auths
  PROVE  \/ auth[a] = NoAuth /\ auth'[a] = NoAuth
         \/ /\ auth[a] \in Rec /\ auth[a] # NoAuth /\ auth'[a] \in Rec
            /\ auth'[a].denied = auth[a].denied
            /\ auth'[a].after = Less(auth[a].after) /\ auth'[a].due = Less(auth[a].due)
<1>1. auth'[a] = IF auth[a] = NoAuth THEN NoAuth
                 ELSE [auth[a] EXCEPT !.after = Less(@), !.due = Less(@)]
  BY DEF Tick
<1>2. auth[a] \in Rec \cup {NoAuth}
  BY DEF TypeInv, AuthTypes
<1> QED BY <1>1, <1>2, TickedFacts

LEMMA TickLoop ==
  ASSUME TypeInv, Tick
  PROVE  /\ loop' \in LoopRec
         /\ loop'.pc = loop.pc /\ loop'.due = loop.due /\ loop'.drained = loop.drained
         /\ loop'.cur = loop.cur /\ loop'.applying = loop.applying
         /\ loop'.next = Less(loop.next)
         /\ DOMAIN loop'.plan = DOMAIN loop.plan
         /\ \A a \in DOMAIN loop.plan : loop'.plan[a] = Less(loop.plan[a])
<1> DEFINE l == IF Busy THEN loop.lag + 1 ELSE loop.lag
           n == Less(loop.next)
           p == [a \in DOMAIN loop.plan |-> Less(loop.plan[a])]
<1>1. loop' = [loop EXCEPT !.lag = l, !.next = n, !.plan = p]
  BY DEF Tick
<1>2. loop \in LoopRec
  BY DEF TypeInv, LoopTypes
<1>3. n \in Time /\ l \in Nat
  BY <1>2, LessFacts DEF LoopRec
<1>4. p \in Plans
  <2>1. DOMAIN loop.plan \subseteq Auths /\ \A a \in DOMAIN loop.plan : loop.plan[a] \in Int
    BY <1>2, PlanFacts DEF LoopRec
  <2>2. \A a \in DOMAIN loop.plan : p[a] \in Int
    BY <2>1, LessFacts, DelaysAssumption DEF Time
  <2> QED BY <2>1, <2>2, PlanFacts
<1>5. p = [a \in DOMAIN loop.plan |-> Less(loop.plan[a])]
  OBVIOUS
<1> HIDE DEF l, n, p
<1>6. loop' \in LoopRec /\ loop'.pc = loop.pc /\ loop'.due = loop.due
        /\ loop'.drained = loop.drained /\ loop'.cur = loop.cur
        /\ loop'.applying = loop.applying /\ loop'.next = n /\ loop'.plan = p
  BY <1>1, <1>2, <1>3, <1>4 DEF LoopRec
<1> QED BY <1>5, <1>6 DEF n

LEMMA TickTypes == ASSUME TypeInv, Tick PROVE TypeInv'
<1>1. AuthTypes'
  <2>1. \A a \in Auths : auth'[a] \in Rec \cup {NoAuth}
    BY TickAuth
  <2> QED BY <2>1 DEF Tick, AuthTypes
<1>2. HeapTypes'
  <2>1. DOMAIN heap \subseteq Auths /\ \A a \in DOMAIN heap : heap[a] \in Int
    BY PlanFacts DEF TypeInv, HeapTypes
  <2>2. heap' = [a \in DOMAIN heap |-> Less(heap[a])]
    BY DEF Tick
  <2>3. \A a \in DOMAIN heap : Less(heap[a]) \in Int
    BY <2>1, LessFacts, DelaysAssumption DEF Time
  <2> QED BY <2>1, <2>2, <2>3, PlanFacts DEF HeapTypes
<1>3. LoopTypes'
  BY TickLoop DEF TypeInv, LoopTypes
<1> QED BY <1>1, <1>2, <1>3 DEF TypeInv, SetTypes, GoroutineTypes, Tick

LEMMA NextTypes == TypeInv /\ [Next]_vars => TypeInv'
<1> SUFFICES ASSUME TypeInv, [Next]_vars PROVE TypeInv'
  OBVIOUS
<1>1. CASE UNCHANGED vars
  BY <1>1 DEF vars, TypeInv, AuthTypes, HeapTypes, SetTypes, LoopTypes, GoroutineTypes
<1> QED
  BY <1>1, LoopTypesNext, WorkerTypesNext, StoreTypes, CallerTypesNext, DeleteTypes,
     MarkResultTypes, TickTypes DEF Next

-----------------------------------------------------------------------------
(* Nobody is forgotten                                                      *)

Told(a) == a \notin untold /\ NextCheck(auth[a], 0) # NoTime
InTime(t, a) == t # NoTime /\ t <= Max({0, NextCheck(auth[a], 0)})

\* Somebody is going to have the loop look at the record as it is by then.
Noticed(a) ==
  \/ a \in dirty
  \/ \E i \in DOMAIN jobs : jobs[i] = a
  \/ loop.pc = "send" /\ loop.cur = a
  \/ \E w \in Workers : /\ worker[w].auth = a
                       /\ worker[w].pc \in {"read", "busy", "queue", "queue_last"}
  \/ \E c \in Callers : caller[c].auth = a /\ caller[c].pc = "queue"

\* The loop is going to look at it, or holds a time that is right about it.
InHand(a) ==
  \/ a \in loop.due \cup loop.drained
  \/ loop.cur = a /\ loop.pc \in {"mark", "reread"}
  \/ loop.cur = a /\ loop.pc = "put" /\ InTime(loop.next, a)
  \/ loop.pc = "start"
  \/ loop.pc = "install" /\ a \in DOMAIN loop.plan /\ InTime(loop.plan[a], a)

\* The heap is right about it, and the loop is not about to change that.
InHeap(a) ==
  /\ a \in DOMAIN heap /\ InTime(heap[a], a)
  /\ loop.pc # "install" /\ ~(loop.pc = "put" /\ loop.cur = a)

Watched == \A a \in Auths : Told(a) => Noticed(a) \/ InHand(a) \/ InHeap(a)

\* What was read of the record now is in time, however old the loop's now is.
LEMMA ReadIsInTime ==
  ASSUME TypeInv, NEW a \in Auths, Told(a)
  PROVE  InTime(NextCheck(auth[a], loop.lag), a)
BY LateLook DEF TypeInv, AuthTypes, LoopTypes, LoopRec, Told, InTime

SameRecord(a) == auth'[a] = auth[a] /\ (a \in untold => a \in untold')

LEMMA SameFacts ==
  ASSUME NEW a \in Auths, SameRecord(a)
  PROVE  (Told(a)' => Told(a)) /\ (\A t : InTime(t, a)' <=> InTime(t, a))
BY DEF SameRecord, Told, InTime

\* Steps of the loop that leave the records alone keep who was noticed.
LEMMA LoopNotices ==
  ASSUME NEW a \in Auths, Noticed(a), UNCHANGED <<jobs, worker, caller>>, dirty \subseteq dirty',
         loop.pc # "send" \/ loop' = loop
  PROVE  Noticed(a)'
BY DEF Noticed

LEMMA RebuildKeeps ==
  ASSUME TypeInv, Watched, RebuildRead \/ RebuildInstall PROVE Watched'
<1> SUFFICES ASSUME NEW a \in Auths, Told(a)'
             PROVE  Noticed(a)' \/ InHand(a)' \/ InHeap(a)'
  BY DEF Watched
<1>1. /\ SameRecord(a) /\ UNCHANGED <<jobs, worker, caller, dirty>>
      /\ loop.pc \in {"start", "install"}
  BY DEF RebuildRead, RebuildInstall, ManagerAndWorkers, SameRecord, At
<1>2. Told(a) /\ (Noticed(a) => Noticed(a)') /\ (Noticed(a) \/ InHand(a) \/ InHeap(a))
  BY <1>1, SameFacts, LoopNotices DEF Watched
<1>3. loop \in LoopRec
  BY DEF TypeInv, LoopTypes
<1>4. CASE RebuildRead
  <2> DEFINE S == {b \in Auths : NextCheck(auth[b], loop.lag) # NoTime}
             plan == [b \in S |-> NextCheck(auth[b], loop.lag)]
  <2>1. a \in DOMAIN plan /\ InTime(plan[a], a)
    BY <1>2, ReadIsInTime DEF InTime
  <2>2. loop' = [loop EXCEPT !.pc = "install", !.plan = plan]
    BY <1>4 DEF RebuildRead
  <2> HIDE DEF plan
  <2>3. loop'.pc = "install" /\ loop'.plan = plan
    BY <1>3, <2>2 DEF LoopRec
  <2> QED BY <1>1, <2>1, <2>3, SameFacts DEF InHand
<1>5. CASE RebuildInstall
  <2>1. loop.pc = "install" /\ loop.due = {} /\ loop.drained = {}
    BY <1>5 DEF RebuildInstall, At, TypeInv, LoopTypes
  <2>2. loop'.pc = "select" /\ heap' = loop.plan
    BY <1>3, <1>5 DEF RebuildInstall, LoopRec
  <2> QED BY <1>1, <1>2, <2>1, <2>2, SameFacts DEF InHand, InHeap
<1> QED BY <1>4, <1>5

LEMMA SelectKeeps ==
  ASSUME TypeInv, Watched, OnWake \/ OnTimer \/ DueDone \/ ResetTimer PROVE Watched'
<1> SUFFICES ASSUME NEW a \in Auths, Told(a)'
             PROVE  Noticed(a)' \/ InHand(a)' \/ InHeap(a)'
  BY DEF Watched
<1>1. /\ SameRecord(a) /\ UNCHANGED <<jobs, worker, caller, dirty>>
      /\ loop.pc \in {"select", "due", "apply"}
  BY DEF OnWake, OnTimer, DueDone, ResetTimer, ManagerAndWorkers, SameRecord, At
<1>2. Told(a) /\ (Noticed(a) => Noticed(a)') /\ (Noticed(a) \/ InHand(a) \/ InHeap(a))
  BY <1>1, SameFacts, LoopNotices DEF Watched
<1>3. loop \in LoopRec
  BY DEF TypeInv, LoopTypes
<1>4. CASE OnWake \/ DueDone \/ ResetTimer
  <2>1. loop'.pc \in {"drain", "select"} /\ UNCHANGED heap
          /\ loop'.due = loop.due /\ loop'.drained = loop.drained
    BY <1>3, <1>4 DEF OnWake, DueDone, ResetTimer, Goto, LoopRec
  <2> QED BY <1>1, <1>2, <2>1, SameFacts DEF InHand, InHeap
<1>5. CASE OnTimer
  <2> DEFINE due == {b \in DOMAIN heap : heap[b] <= 0}
  <2>1. loop.pc = "select" /\ loop.due = {} /\ loop.drained = {}
    BY <1>5 DEF OnTimer, At, TypeInv, LoopTypes
  <2>2. /\ loop' = [loop EXCEPT !.pc = "due", !.due = due, !.lag = 0]
        /\ heap' = [b \in DOMAIN heap \ due |-> heap[b]]
    BY <1>5 DEF OnTimer
  <2> HIDE DEF due
  <2>3. loop'.pc = "due" /\ loop'.due = due
    BY <1>3, <2>2 DEF LoopRec
  <2> QED BY <1>1, <1>2, <2>1, <2>2, <2>3, SameFacts DEF InHand, InHeap
<1> QED BY <1>4, <1>5

LEMMA ExamineKeeps ==
  ASSUME TypeInv, Watched, NEW b \in Auths, Examine(b) PROVE Watched'
<1> SUFFICES ASSUME NEW a \in Auths, Told(a)'
             PROVE  Noticed(a)' \/ InHand(a)' \/ InHeap(a)'
  BY DEF Watched
<1>1. /\ SameRecord(a) /\ UNCHANGED <<jobs, worker, caller, dirty, heap>>
      /\ loop.pc = "due" /\ b \in loop.due
  BY DEF Examine, ManagerAndWorkers, SameRecord, At
<1>2. Told(a) /\ (Noticed(a) => Noticed(a)') /\ (Noticed(a) \/ InHand(a) \/ InHeap(a))
  BY <1>1, SameFacts, LoopNotices DEF Watched
<1>3. loop \in LoopRec
  BY DEF TypeInv, LoopTypes
<1> DEFINE c == IF auth[b] = NoAuth THEN NoAuth ELSE b
           n == NextCheck(auth[b], loop.lag)
           D == loop.due \ {b}
<1>4. PICK pc \in {"due", "mark", "put"} :
         /\ loop' = [loop EXCEPT !.due = D, !.cur = c, !.next = n, !.pc = pc]
         /\ auth[b] # NoAuth => pc \in {"mark", "put"} /\ c = b
  BY DEF Examine
<1>5. a = b => auth[b] # NoAuth
  BY <1>2 DEF Told, NextCheck
<1>6. c \in {b, NoAuth} /\ NoAuth \notin Auths /\ (a = b => InTime(n, a)) /\ D = loop.due \ {b}
  BY <1>2, ReadIsInTime, DelaysAssumption
<1> HIDE DEF c, n, D
<1>7. loop'.due = D /\ loop'.cur = c /\ loop'.next = n /\ loop'.pc = pc
        /\ loop'.drained = loop.drained
  BY <1>3, <1>4 DEF LoopRec
<1> QED BY <1>1, <1>2, <1>4, <1>5, <1>6, <1>7, SameFacts DEF InHand, InHeap

LEMMA MarkKeeps ==
  ASSUME TypeInv, Watched, MarkPending \/ MarkRefused \/ Reread PROVE Watched'
<1> SUFFICES ASSUME NEW a \in Auths, Told(a)'
             PROVE  Noticed(a)' \/ InHand(a)' \/ InHeap(a)'
  BY DEF Watched
<1>1. loop \in LoopRec
  BY DEF TypeInv, LoopTypes
<1>2. CASE MarkPending
  <2>1. /\ loop'.pc = "send" /\ loop.pc = "mark" /\ dirty' = dirty \cup {loop.cur}
        /\ loop'.cur = loop.cur /\ loop'.due = loop.due /\ loop'.drained = loop.drained
        /\ UNCHANGED <<heap, jobs, worker, caller>>
    BY <1>1, <1>2 DEF MarkPending, Mark, Goto, At, LoopRec
  <2>2. CASE a = loop.cur
    BY <2>1, <2>2 DEF Noticed
  <2>3. CASE a # loop.cur
    <3>1. SameRecord(a)
      BY <1>2, <2>3 DEF MarkPending, Mark, SameRecord
    <3>2. Told(a) /\ (Noticed(a) => Noticed(a)') /\ (Noticed(a) \/ InHand(a) \/ InHeap(a))
      BY <2>1, <3>1, SameFacts, LoopNotices DEF Watched
    <3> QED BY <2>1, <2>3, <3>1, <3>2, SameFacts DEF InHand, InHeap
  <2> QED BY <2>2, <2>3
<1>3. CASE MarkRefused \/ Reread
  <2>1. /\ SameRecord(a) /\ UNCHANGED <<jobs, worker, caller, dirty, heap>>
        /\ loop.pc \in {"mark", "reread"}
    BY <1>3 DEF MarkRefused, Reread, ManagerAndWorkers, SameRecord, At
  <2>2. Told(a) /\ (Noticed(a) => Noticed(a)') /\ (Noticed(a) \/ InHand(a) \/ InHeap(a))
    BY <2>1, SameFacts, LoopNotices DEF Watched
  <2>3. CASE MarkRefused
    <3>1. loop'.pc = "reread" /\ loop'.cur = loop.cur /\ loop'.due = loop.due
            /\ loop'.drained = loop.drained
      BY <1>1, <2>3 DEF MarkRefused, Goto, LoopRec
    <3> QED BY <2>1, <2>2, <3>1, SameFacts DEF InHand, InHeap
  <2>4. CASE Reread
    <3> DEFINE n == NextCheck(auth[loop.cur], loop.lag)
    <3>1. loop' = [loop EXCEPT !.pc = "put", !.next = n]
      BY <2>4 DEF Reread
    <3>2. a = loop.cur => InTime(n, a)
      BY <2>2, ReadIsInTime
    <3> HIDE DEF n
    <3>3. loop'.pc = "put" /\ loop'.cur = loop.cur /\ loop'.due = loop.due
            /\ loop'.drained = loop.drained /\ loop'.next = n
      BY <1>1, <3>1 DEF LoopRec
    <3> QED BY <2>1, <2>2, <3>2, <3>3, SameFacts DEF InHand, InHeap
  <2> QED BY <1>3, <2>3, <2>4
<1> QED BY <1>2, <1>3

LEMMA SendKeeps == ASSUME TypeInv, Watched, Send PROVE Watched'
<1> SUFFICES ASSUME NEW a \in Auths, Told(a)'
             PROVE  Noticed(a)' \/ InHand(a)' \/ InHeap(a)'
  BY DEF Watched
<1>1. /\ SameRecord(a) /\ UNCHANGED <<worker, caller, dirty, heap>>
      /\ loop.pc = "send" /\ jobs' = Append(jobs, loop.cur) /\ jobs \in Seq(Auths)
      /\ loop.cur \in Auths /\ loop \in LoopRec
  BY DEF Send, SameRecord, At, TypeInv, LoopTypes, GoroutineTypes
<1>2. Told(a) /\ (Noticed(a) \/ InHand(a) \/ InHeap(a))
  BY <1>1, SameFacts DEF Watched
<1>3. loop'.pc = "due" /\ loop'.due = loop.due /\ loop'.drained = loop.drained
  BY <1>1 DEF Send, LoopRec
<1>4. /\ \A i \in DOMAIN jobs : i \in DOMAIN jobs' /\ jobs'[i] = jobs[i]
      /\ Len(jobs) + 1 \in DOMAIN jobs' /\ jobs'[Len(jobs) + 1] = loop.cur
  BY <1>1
<1>5. Noticed(a) => Noticed(a)'
  BY <1>1, <1>4 DEF Noticed
<1> QED BY <1>1, <1>2, <1>3, <1>5, SameFacts DEF InHand, InHeap

LEMMA ApplyKeeps ==
  ASSUME TypeInv, Watched, DrainDirty \/ (\E b \in Auths : ApplyRead(b)) PROVE Watched'
<1> SUFFICES ASSUME NEW a \in Auths, Told(a)'
             PROVE  Noticed(a)' \/ InHand(a)' \/ InHeap(a)'
  BY DEF Watched
<1>1. /\ SameRecord(a) /\ UNCHANGED <<jobs, worker, caller, heap>>
      /\ loop.pc \in {"drain", "apply"} /\ loop \in LoopRec
  BY DEF DrainDirty, ApplyRead, ManagerAndWorkers, SameRecord, At, TypeInv, LoopTypes
<1>2. Told(a) /\ (Noticed(a) \/ InHand(a) \/ InHeap(a))
  BY <1>1, SameFacts DEF Watched
<1>3. CASE DrainDirty
  <2>1. loop.pc = "drain" /\ loop.drained = {} /\ loop'.pc = "apply" /\ loop'.drained = dirty
          /\ loop'.due = loop.due
    BY <1>1, <1>3 DEF DrainDirty, At, TypeInv, LoopTypes, LoopRec
  <2> QED BY <1>1, <1>2, <2>1, SameFacts DEF InHand, InHeap, Noticed
<1>4. ASSUME NEW b \in Auths, ApplyRead(b) PROVE Noticed(a)' \/ InHand(a)' \/ InHeap(a)'
  <2> DEFINE n == NextCheck(auth[b], loop.lag)
             D == loop.drained \ {b}
  <2>1. loop' = [loop EXCEPT !.pc = "put", !.drained = D, !.cur = b, !.next = n,
                   !.applying = TRUE]
    BY <1>4 DEF ApplyRead
  <2>2. (a = b => InTime(n, a)) /\ D = loop.drained \ {b}
    BY <1>2, ReadIsInTime
  <2> HIDE DEF n, D
  <2>3. loop'.pc = "put" /\ loop'.drained = D /\ loop'.cur = b /\ loop'.next = n
          /\ loop'.due = loop.due
    BY <1>1, <2>1 DEF LoopRec
  <2>4. Noticed(a) => Noticed(a)'
    BY <1>1, <1>4, LoopNotices DEF ApplyRead, At
  <2>5. loop.pc = "apply"
    BY <1>4 DEF ApplyRead, At
  <2> QED BY <1>1, <1>2, <2>2, <2>3, <2>4, <2>5, SameFacts DEF InHand, InHeap
<1> QED BY <1>3, <1>4

LEMMA PutKeeps == ASSUME TypeInv, Watched, PutEntry PROVE Watched'
<1> SUFFICES ASSUME NEW a \in Auths, Told(a)'
             PROVE  Noticed(a)' \/ InHand(a)' \/ InHeap(a)'
  BY DEF Watched
<1>1. /\ SameRecord(a) /\ UNCHANGED <<jobs, worker, caller, dirty>>
      /\ loop.pc = "put" /\ loop \in LoopRec /\ loop.cur \in Auths /\ heap \in Plans
      /\ heap' = Put(heap, loop.cur, loop.next)
  BY DEF PutEntry, ManagerAndWorkers, SameRecord, At, TypeInv, LoopTypes, HeapTypes
<1>2. Told(a) /\ (Noticed(a) => Noticed(a)') /\ (Noticed(a) \/ InHand(a) \/ InHeap(a))
  BY <1>1, SameFacts, LoopNotices DEF Watched
<1>3. loop'.pc \in {"apply", "due"} /\ loop'.due = loop.due /\ loop'.drained = loop.drained
  BY <1>1 DEF PutEntry, LoopRec
<1>4. loop.next \in Time
  BY <1>1 DEF LoopRec
<1>5. /\ a # loop.cur /\ a \in DOMAIN heap => a \in DOMAIN heap' /\ heap'[a] = heap[a]
      /\ a = loop.cur /\ loop.next # NoTime => a \in DOMAIN heap' /\ heap'[a] = loop.next
  BY <1>1, <1>4, PutType
<1> QED BY <1>1, <1>2, <1>3, <1>5, SameFacts DEF InHand, InHeap, InTime

\* Steps of others: whoever changes a record is about to have it noticed.
LEMMA OthersKeep ==
  ASSUME Watched, UNCHANGED <<loop, heap>>,
         \A a \in Auths : Noticed(a) => Noticed(a)',
         \A a \in Auths : SameRecord(a) \/ Noticed(a)' \/ ~Told(a)'
  PROVE  Watched'
<1> SUFFICES ASSUME NEW a \in Auths, Told(a)'
             PROVE  Noticed(a)' \/ InHand(a)' \/ InHeap(a)'
  BY DEF Watched
<1>1. CASE Noticed(a)'
  BY <1>1
<1>2. CASE SameRecord(a) /\ ~Noticed(a)'
  <2>1. InHand(a) \/ InHeap(a)
    BY <1>2, SameFacts DEF Watched
  <2> QED BY <1>2, <2>1, SameFacts DEF InHand, InHeap
<1> QED BY <1>1, <1>2

LEMMA TakeKeeps == ASSUME TypeInv, Watched, NEW w \in Workers, Take(w) PROVE Watched'
<1>1. /\ worker[w].pc = "idle" /\ jobs \in Seq(Auths) /\ jobs # <<>> /\ jobs' = Tail(jobs)
      /\ worker' = [worker EXCEPT ![w] = [pc |-> "read", auth |-> Head(jobs)]]
      /\ worker \in [Workers -> WorkerRec]
      /\ UNCHANGED <<loop, heap, dirty, caller, auth, untold>>
  BY DEF Take, LoopState, TypeInv, GoroutineTypes
<1>2. ASSUME NEW a \in Auths, NEW i \in DOMAIN jobs, jobs[i] = a PROVE Noticed(a)'
  <2>1. CASE i = 1
    <3>1. worker'[w] = [pc |-> "read", auth |-> a]
      BY <1>1, <1>2, <2>1
    <3> QED BY <3>1 DEF Noticed
  <2>2. CASE i # 1
    <3>1. i - 1 \in DOMAIN jobs' /\ jobs'[i - 1] = a
      BY <1>1, <1>2, <2>2
    <3> QED BY <3>1 DEF Noticed
  <2> QED BY <2>1, <2>2
<1>3. ASSUME NEW a \in Auths, Noticed(a) PROVE Noticed(a)'
  BY <1>1, <1>2, <1>3 DEF Noticed
<1> QED BY <1>1, <1>3, OthersKeep DEF SameRecord

\* A worker that still has a credential in hand is going to mark it.
LEMMA WorkerNotices ==
  ASSUME TypeInv, NEW w \in Workers, NEW pc \in {"busy", "queue", "queue_last"},
         worker[w].pc # "idle", worker' = [worker EXCEPT ![w].pc = pc],
         UNCHANGED <<loop, dirty, jobs, caller>>
  PROVE  Noticed(worker[w].auth)' /\ \A a \in Auths : Noticed(a) => Noticed(a)'
<1>1. worker \in [Workers -> WorkerRec]
  BY DEF TypeInv, GoroutineTypes
<1>2. worker'[w].pc = pc /\ worker'[w].auth = worker[w].auth
        /\ \A v \in Workers : v # w => worker'[v] = worker[v]
  BY <1>1 DEF WorkerRec
<1>3. \A a \in Auths : a # worker[w].auth => (Noticed(a) => Noticed(a)')
  BY <1>2 DEF Noticed
<1> QED BY <1>2, <1>3 DEF Noticed

\* A failed refresh changes its own record only.
LEMMA FailureIsLocal ==
  ASSUME TypeInv, NEW w \in Workers, NEW denied \in BOOLEAN, RefreshFailed(w, denied)
  PROVE  \A a \in Auths : a # worker[w].auth => auth'[a] = auth[a]
<1>1. auth' = auth \/ \E r : auth' = [auth EXCEPT ![worker[w].auth] = r]
  <2>1. CASE auth[worker[w].auth] = NoAuth
    BY <2>1 DEF RefreshFailed
  <2>2. CASE auth[worker[w].auth] # NoAuth
    <3>1. auth' = [auth EXCEPT ![worker[w].auth] =
                     [@ EXCEPT !.denied = denied, !.after = IF denied THEN NoTime ELSE Backoff]]
      BY <2>2 DEF RefreshFailed
    <3> QED BY <3>1
  <2> QED BY <2>1, <2>2
<1> QED BY <1>1 DEF TypeInv, AuthTypes

LEMMA WorkerKeeps ==
  ASSUME TypeInv, Watched, NEW w \in Workers, Worker(w) PROVE Watched'
<1>1. worker \in [Workers -> WorkerRec]
  BY DEF TypeInv, GoroutineTypes
<1>2. CASE ReadAuth(w)
  <2>1. PICK pc \in {"busy", "queue_last"} : worker' = [worker EXCEPT ![w].pc = pc]
    BY <1>2 DEF ReadAuth, Become
  <2>2. worker[w].pc # "idle" /\ UNCHANGED <<loop, heap, dirty, jobs, caller, auth, untold>>
    BY <1>2 DEF ReadAuth, LoopState
  <2> QED BY <2>1, <2>2, WorkerNotices, OthersKeep DEF SameRecord
<1>3. ASSUME NEW lifetime \in Lifetimes, Refreshed(w, lifetime) PROVE Watched'
  <2>1. PICK pc \in {"queue", "queue_last"} : worker' = [worker EXCEPT ![w].pc = pc]
    BY <1>3 DEF Refreshed, Become
  <2>2. worker[w].pc # "idle" /\ UNCHANGED <<loop, heap, dirty, jobs, caller, untold>>
    BY <1>3 DEF Refreshed, LoopState
  <2>3. auth' = auth \/ auth' = [auth EXCEPT ![worker[w].auth] = Fresh(lifetime)]
    BY <1>3 DEF Refreshed
  <2>4. \A a \in Auths : a # worker[w].auth => auth'[a] = auth[a]
    BY <2>3 DEF TypeInv, AuthTypes
  <2>5. \A a \in Auths : Noticed(a) => Noticed(a)'
    BY <2>1, <2>2, WorkerNotices
  <2>6. \A a \in Auths : a = worker[w].auth => Noticed(a)'
    <3>1. worker'[w].auth = worker[w].auth /\ worker'[w].pc = pc
      BY <1>1, <2>1 DEF WorkerRec
    <3> QED BY <3>1 DEF Noticed
  <2>7. \A a \in Auths : SameRecord(a) \/ Noticed(a)'
    BY <2>2, <2>4, <2>6 DEF SameRecord
  <2> QED BY <2>2, <2>5, <2>7, OthersKeep
<1>4. ASSUME NEW denied \in BOOLEAN, RefreshFailed(w, denied) PROVE Watched'
  <2>1. PICK pc \in {"queue", "queue_last"} : worker' = [worker EXCEPT ![w].pc = pc]
    BY <1>4 DEF RefreshFailed, Become
  <2>2. worker[w].pc # "idle" /\ UNCHANGED <<loop, heap, dirty, jobs, caller, untold>>
    BY <1>4 DEF RefreshFailed, LoopState
  <2>4. \A a \in Auths : a # worker[w].auth => auth'[a] = auth[a]
    BY <1>4, FailureIsLocal
  <2>5. \A a \in Auths : Noticed(a) => Noticed(a)'
    BY <2>1, <2>2, WorkerNotices
  <2>6. \A a \in Auths : a = worker[w].auth => Noticed(a)'
    <3>1. worker'[w].auth = worker[w].auth /\ worker'[w].pc = pc
      BY <1>1, <2>1 DEF WorkerRec
    <3> QED BY <3>1 DEF Noticed
  <2>7. \A a \in Auths : SameRecord(a) \/ Noticed(a)'
    BY <2>2, <2>4, <2>6 DEF SameRecord
  <2> QED BY <2>2, <2>5, <2>7, OthersKeep
<1>5. CASE RefreshCanceled(w)
  <2>1. worker' = [worker EXCEPT ![w].pc = "queue_last"] /\ worker[w].pc # "idle"
          /\ UNCHANGED <<loop, heap, dirty, jobs, caller, auth, untold>>
    BY <1>5 DEF RefreshCanceled, LoopState, Become
  <2> QED BY <2>1, WorkerNotices, OthersKeep DEF SameRecord
<1>6. CASE WorkerMark(w)
  <2>1. PICK pc \in {"wake", "wake_last"} : worker' = [worker EXCEPT ![w].pc = pc]
    BY <1>6 DEF WorkerMark, Become
  <2>2. /\ dirty' = dirty \cup {worker[w].auth} /\ untold' = untold \ {worker[w].auth}
        /\ UNCHANGED <<loop, heap, jobs, caller, auth>>
    BY <1>6 DEF WorkerMark, Mark, LoopState
  <2>3. \A v \in Workers : v # w => worker'[v] = worker[v]
    BY <1>1, <2>1
  <2>4. \A a \in Auths : Noticed(a) => Noticed(a)'
    BY <2>2, <2>3 DEF Noticed
  <2>5. \A a \in Auths : SameRecord(a) \/ Noticed(a)'
    BY <2>2 DEF Noticed, SameRecord
  <2> QED BY <2>2, <2>4, <2>5, OthersKeep
<1>7. CASE WorkerSignal(w)
  <2>1. /\ UNCHANGED <<loop, heap, dirty, jobs, caller, auth, untold>>
        /\ worker[w].pc \in {"wake", "wake_last"}
    BY <1>7 DEF WorkerSignal, LoopState
  <2>2. \A v \in Workers : v # w => worker'[v] = worker[v]
    BY <1>1, <1>7 DEF WorkerSignal
  <2>3. \A a \in Auths : Noticed(a) => Noticed(a)'
    BY <2>1, <2>2 DEF Noticed
  <2> QED BY <2>1, <2>3, OthersKeep DEF SameRecord
<1> QED BY <1>2, <1>3, <1>4, <1>5, <1>6, <1>7, TakeKeeps DEF Worker

LEMMA ApiKeeps ==
  ASSUME TypeInv, Watched, NEW c \in Callers, NEW a \in Auths,
         Delete(c, a) \/ (\E lifetime \in Lifetimes : Store(c, a, lifetime))
  PROVE  Watched'
<1>1. /\ caller[c].pc = "idle" /\ caller \in [Callers -> CallerRec]
      /\ UNCHANGED <<loop, heap, dirty, jobs, worker>> /\ untold' = untold \ {a}
      /\ \A b \in Auths : b # a => auth'[b] = auth[b]
  BY DEF Delete, Store, LoopState, TypeInv, AuthTypes, GoroutineTypes
<1>2. \A b \in Callers : b # c => caller'[b] = caller[b]
  BY <1>1 DEF Delete, Store
<1>3. \A b \in Auths : Noticed(b) => Noticed(b)'
  BY <1>1, <1>2 DEF Noticed
<1>4. Noticed(a)' \/ ~Told(a)'
  <2>1. CASE Delete(c, a)
    <3>1. auth'[a] = NoAuth
      BY <2>1 DEF Delete, TypeInv, AuthTypes
    <3> QED BY <3>1 DEF Told, NextCheck
  <2>2. CASE \E lifetime \in Lifetimes : Store(c, a, lifetime)
    <3>1. caller'[c] = [pc |-> "queue", auth |-> a]
      BY <1>1, <2>2 DEF Store
    <3> QED BY <3>1 DEF Noticed
  <2> QED BY <2>1, <2>2
<1>5. \A b \in Auths : b # a => SameRecord(b)
  BY <1>1 DEF SameRecord
<1> QED BY <1>1, <1>3, <1>4, <1>5, OthersKeep

LEMMA ResultKeeps ==
  ASSUME TypeInv, Watched, NEW a \in Auths, NEW denied \in BOOLEAN, MarkResult(a, denied)
  PROVE  Watched'
<1>1. /\ UNCHANGED <<loop, heap, dirty, jobs, worker, caller>>
      /\ \A b \in Auths : b # a => auth'[b] = auth[b]
      /\ untold' = IF denied THEN untold \ {a} ELSE untold \cup {a}
  BY DEF MarkResult, LoopState, TypeInv, AuthTypes
<1>2. \A b \in Auths : Noticed(b) => Noticed(b)'
  BY <1>1 DEF Noticed
<1>3. ~Told(a)'
  <2>1. CASE denied
    <3>1. auth[a] \in Rec /\ auth'[a] = [auth[a] EXCEPT !.denied = denied]
      BY DEF MarkResult, TypeInv, AuthTypes
    <3>2. auth'[a].denied
      BY <2>1, <3>1 DEF Rec
    <3> QED BY <3>2 DEF Told, NextCheck
  <2>2. CASE ~denied
    BY <1>1, <2>2 DEF Told
  <2> QED BY <2>1, <2>2
<1>4. \A b \in Auths : b # a => SameRecord(b)
  BY <1>1 DEF SameRecord
<1> QED BY <1>1, <1>2, <1>3, <1>4, OthersKeep

LEMMA CallerKeeps ==
  ASSUME TypeInv, Watched, NEW c \in Callers, Caller(c) PROVE Watched'
<1>1. caller \in [Callers -> CallerRec]
  BY DEF TypeInv, GoroutineTypes
<1>2. CASE CallerMark(c)
  <2>1. /\ dirty' = dirty \cup {caller[c].auth} /\ untold' = untold \ {caller[c].auth}
        /\ UNCHANGED <<loop, heap, jobs, worker, auth>>
    BY <1>2 DEF CallerMark, Mark, LoopState
  <2>2. \A b \in Callers : b # c => caller'[b] = caller[b]
    BY <1>1, <1>2 DEF CallerMark
  <2>3. \A a \in Auths : (Noticed(a) => Noticed(a)') /\ (SameRecord(a) \/ Noticed(a)')
    BY <2>1, <2>2 DEF Noticed, SameRecord
  <2> QED BY <2>1, <2>3, OthersKeep
<1>3. CASE CallerSignal(c)
  <2>1. UNCHANGED <<loop, heap, dirty, jobs, worker, auth, untold>> /\ caller[c].pc = "wake"
    BY <1>3 DEF CallerSignal, LoopState
  <2>2. \A b \in Callers : b # c => caller'[b] = caller[b]
    BY <1>1, <1>3 DEF CallerSignal
  <2>3. \A a \in Auths : Noticed(a) => Noticed(a)'
    BY <2>1, <2>2 DEF Noticed
  <2> QED BY <2>1, <2>3, OthersKeep DEF SameRecord
<1>4. CASE Unschedule(c)
  <2>1. PICK u \in Auths : u = caller[c].auth
    BY <1>4 DEF Unschedule, TypeInv, GoroutineTypes
  <2>2. /\ UNCHANGED <<loop, dirty, jobs, worker, auth>> /\ heap' = Put(heap, u, NoTime)
        /\ untold' = (IF auth[u] = NoAuth THEN untold ELSE untold \cup {u})
        /\ caller[c].pc = "unschedule"
    BY <1>4, <2>1 DEF Unschedule
  <2>3. \A b \in Callers : b # c => caller'[b] = caller[b]
    BY <1>1, <1>4 DEF Unschedule
  <2>4. \A a \in Auths : Noticed(a) => Noticed(a)'
    BY <2>2, <2>3 DEF Noticed
  <2>5. ~Told(u)'
    <3>1. CASE auth[u] = NoAuth
      BY <2>2, <3>1 DEF Told, NextCheck
    <3>2. CASE auth[u] # NoAuth
      BY <2>2, <3>2 DEF Told
    <3> QED BY <3>1, <3>2
  <2>6. ASSUME NEW a \in Auths, Told(a)'
        PROVE  Noticed(a)' \/ InHand(a)' \/ InHeap(a)'
    <3>1. a # u
      BY <2>5, <2>6
    <3>2. SameRecord(a)
      BY <2>2 DEF SameRecord
    <3>3. Noticed(a) \/ InHand(a) \/ InHeap(a)
      BY <2>6, <3>2, SameFacts DEF Watched
    <3>4. a \in DOMAIN heap => a \in DOMAIN heap' /\ heap'[a] = heap[a]
      <4>1. heap \in Plans /\ NoTime \in Time
        BY DEF TypeInv, HeapTypes, Time
      <4> QED BY <2>2, <3>1, <4>1, PutType
    <3> QED BY <2>2, <2>4, <3>2, <3>3, <3>4, SameFacts DEF InHand, InHeap
  <2> QED BY <2>6 DEF Watched
<1> QED BY <1>2, <1>3, <1>4 DEF Caller

\* Times run out together.
LEMMA TickKeeps == ASSUME TypeInv, Watched, Tick PROVE Watched'
<1> SUFFICES ASSUME NEW a \in Auths, Told(a)'
             PROVE  Noticed(a)' \/ InHand(a)' \/ InHeap(a)'
  BY DEF Watched
<1>1. UNCHANGED <<dirty, jobs, worker, caller, untold>>
  BY DEF Tick
<1>2. auth'[a] # NoAuth /\ NextCheck(auth'[a], 0) # NoTime
  BY DEF Told, NextCheck
<1>3. /\ NextCheck(auth[a], 0) # NoTime
      /\ \A t \in Int : t <= Max({0, NextCheck(auth[a], 0)})
                           => Less(t) <= Max({0, NextCheck(auth'[a], 0)})
  <2>1. /\ auth[a] \in Rec /\ auth[a] # NoAuth /\ auth'[a] \in Rec
        /\ auth'[a].denied = auth[a].denied
        /\ auth'[a].after = Less(auth[a].after) /\ auth'[a].due = Less(auth[a].due)
    BY <1>2, TickAuth
  <2> HIDE DEF Told
  <2> DEFINE r == auth[a]
             s == auth'[a]
  <2>2. r \in Rec /\ s \in Rec /\ s.denied = r.denied /\ s.after = Less(r.after)
          /\ s.due = Less(r.due) /\ r # NoAuth /\ s # NoAuth /\ NextCheck(s, 0) # NoTime
    BY <1>2, <2>1
  <2> HIDE DEF r, s
  <2>3. /\ NextCheck(r, 0) # NoTime
        /\ \A t \in Int : t <= Max({0, NextCheck(r, 0)})
                             => Less(t) <= Max({0, NextCheck(s, 0)})
    BY <2>2, CheckTicks
  <2> QED BY <2>3 DEF r, s
<1>4. Noticed(a) \/ InHand(a) \/ InHeap(a)
  BY <1>1, <1>3 DEF Watched, Told
<1>5. \A t \in Time : InTime(t, a) => InTime(Less(t), a)'
  BY <1>3, LessFacts, DelaysAssumption DEF InTime, Time
<1>6. /\ loop \in LoopRec /\ loop'.pc = loop.pc /\ loop'.due = loop.due
      /\ loop'.drained = loop.drained /\ loop'.cur = loop.cur
      /\ loop'.next = Less(loop.next) /\ DOMAIN loop'.plan = DOMAIN loop.plan
      /\ \A b \in DOMAIN loop.plan : loop'.plan[b] = Less(loop.plan[b])
  BY TickLoop DEF TypeInv, LoopTypes
<1>7. /\ \A b \in DOMAIN heap : heap[b] \in Time /\ heap'[b] = Less(heap[b])
      /\ DOMAIN heap' = DOMAIN heap
  BY PlanFacts DEF TypeInv, HeapTypes, Tick, Time
<1>8. loop.next \in Time /\ \A b \in DOMAIN loop.plan : loop.plan[b] \in Time
  BY <1>6, PlanFacts DEF LoopRec, Time
<1>9. CASE Noticed(a)
  BY <1>1, <1>6, <1>9 DEF Noticed
<1>10. CASE InHand(a)
  BY <1>5, <1>6, <1>8, <1>10 DEF InHand
<1>11. CASE InHeap(a)
  BY <1>5, <1>6, <1>7, <1>11 DEF InHeap
<1> QED BY <1>4, <1>9, <1>10, <1>11

LEMMA NextWatched == TypeInv /\ Watched /\ [Next]_vars => Watched'
<1> SUFFICES ASSUME TypeInv, Watched, [Next]_vars PROVE Watched'
  OBVIOUS
<1>1. CASE UNCHANGED vars
  BY <1>1 DEF vars, Watched, Told, Noticed, InHand, InHeap, InTime
<1>2. CASE Loop
  BY <1>2, RebuildKeeps, SelectKeeps, ExamineKeeps, MarkKeeps, SendKeeps, ApplyKeeps,
     PutKeeps DEF Loop
<1> QED
  BY <1>1, <1>2, WorkerKeeps, ApiKeeps, CallerKeeps, ResultKeeps, TickKeeps DEF Next

-----------------------------------------------------------------------------
LEMMA AnyIsMore ==
  ASSUME NEW S, IsFiniteSet(S), NEW x \in S PROVE Cardinality(S) \in Nat \ {0}
BY FS_CardinalityType, FS_EmptySet

LEMMA CountsAreFinite ==
  ASSUME TypeInv, NEW a
  PROVE  /\ IsFiniteSet({i \in DOMAIN jobs : jobs[i] = a})
         /\ IsFiniteSet({w \in Workers : Holding(w, a)})
<1>1. IsFiniteSet(DOMAIN jobs)
  BY FS_Interval DEF TypeInv, GoroutineTypes
<1> QED BY <1>1, FS_Subset, DelaysAssumption

LEMMA WatchedIsAttended ==
  ASSUME TypeInv, NEW a \in Auths, Noticed(a) \/ InHand(a) \/ InHeap(a) PROVE Attended(a)
<1> DEFINE J == {i \in DOMAIN jobs : jobs[i] = a}
           W == {w \in Workers : Holding(w, a)}
<1>1. IsFiniteSet(J) /\ IsFiniteSet(W)
  BY CountsAreFinite
<1>2. J # {} \/ W # {} => UnderWay(a)
  <2> DEFINE l == IF loop.pc = "send" /\ loop.cur = a THEN 1 ELSE 0
  <2>1. UnderWay(a) <=> Cardinality(J) + Cardinality(W) + l > 0
    BY DEF UnderWay, InFlight
  <2>2. l \in Nat
    OBVIOUS
  <2> HIDE DEF J, W, l
  <2>3. Cardinality(J) \in Nat /\ Cardinality(W) \in Nat
    BY <1>1, FS_CardinalityType
  <2>4. J # {} => Cardinality(J) \in Nat \ {0}
    BY <1>1, AnyIsMore
  <2>5. W # {} => Cardinality(W) \in Nat \ {0}
    BY <1>1, AnyIsMore
  <2> QED BY <2>1, <2>2, <2>3, <2>4, <2>5
<1>3. CASE Noticed(a)
  <2>1. CASE \E w \in Workers : worker[w].auth = a /\ worker[w].pc \in {"read", "busy"}
    BY <1>2, <2>1 DEF Holding, Attended
  <2>2. CASE \E i \in DOMAIN jobs : jobs[i] = a
    BY <1>2, <2>2 DEF Attended
  <2> QED BY <1>3, <2>1, <2>2 DEF Noticed, Attended
<1>4. CASE InHand(a) \/ InHeap(a)
  BY <1>4 DEF InHand, InHeap, InTime, Attended, At
<1> QED BY <1>3, <1>4

\* No credential that is to be looked at is forgotten, whatever the callers,
\* the workers and the clock do between the loop's critical sections.
THEOREM NobodyIsForgotten == Spec => []NoneForgotten
<1>1. Init => Watched
  BY DEF Init, IdleLoop, Watched, InHand
<1>2. TypeInv /\ Watched => NoneForgotten
  BY WatchedIsAttended DEF Watched, Told, NoneForgotten
<1> QED BY <1>1, <1>2, InitTypes, NextTypes, NextWatched, PTL DEF Spec

-----------------------------------------------------------------------------
(* One refresh at a time                                                    *)

Queued(a) == {i \in DOMAIN jobs : jobs[i] = a}
Held(a) == {w \in Workers : Holding(w, a)}
Sent(a) == IF loop.pc = "send" /\ loop.cur = a THEN 1 ELSE 0

\* As long as its mark lasts nobody starts another refresh.
Covered(a) == UnderWay(a) /\ auth[a] # NoAuth => Ahead(auth[a].after, 0)
Single == \A a \in Auths \ excused : InFlight(a) <= 1 /\ Covered(a)

LEMMA Flights ==
  ASSUME TypeInv, NEW a
  PROVE  /\ IsFiniteSet(Queued(a)) /\ IsFiniteSet(Held(a))
         /\ Cardinality(Queued(a)) \in Nat /\ Cardinality(Held(a)) \in Nat
         /\ Sent(a) \in {0, 1}
         /\ InFlight(a) = Cardinality(Queued(a)) + Cardinality(Held(a)) + Sent(a)
         /\ InFlight(a) \in Nat
<1>1. IsFiniteSet(Queued(a)) /\ IsFiniteSet(Held(a))
  BY CountsAreFinite DEF Queued, Held
<1>2. Cardinality(Queued(a)) \in Nat /\ Cardinality(Held(a)) \in Nat
  BY <1>1, FS_CardinalityType
<1>3. Sent(a) \in {0, 1}
  BY DEF Sent
<1>4. InFlight(a) = Cardinality(Queued(a)) + Cardinality(Held(a)) + Sent(a)
  BY DEF InFlight, Queued, Held, Sent
<1> QED BY <1>1, <1>2, <1>3, <1>4

LEMMA FlightsNext ==
  ASSUME NEW a
  PROVE  InFlight(a)' = Cardinality(Queued(a)') + Cardinality(Held(a)') + Sent(a)'
BY DEF InFlight, Queued, Held, Sent

LEMMA SameFlights ==
  ASSUME UNCHANGED <<jobs, worker>>, \A a \in Auths : Sent(a)' = Sent(a)
  PROVE  \A a \in Auths : InFlight(a)' = InFlight(a)
BY DEF InFlight, Sent, Holding

\* A worker that goes on from its refresh, or finds the credential gone.
LEMMA WorkerLands ==
  ASSUME TypeInv, NEW w \in Workers, NEW pc \in {"queue", "queue_last"},
         worker[w].pc \in {"read", "busy"}, worker' = [worker EXCEPT ![w].pc = pc],
         UNCHANGED <<jobs, loop>>
  PROVE  \A a \in Auths :
           InFlight(a)' = IF a = worker[w].auth THEN InFlight(a) - 1 ELSE InFlight(a)
<1> SUFFICES ASSUME NEW a \in Auths
             PROVE  InFlight(a)' = IF a = worker[w].auth THEN InFlight(a) - 1 ELSE InFlight(a)
  OBVIOUS
<1>1. worker \in [Workers -> WorkerRec]
  BY DEF TypeInv, GoroutineTypes
<1>2. worker'[w].pc = pc /\ \A v \in Workers : v # w => worker'[v] = worker[v]
  BY <1>1 DEF WorkerRec
<1>3. Held(a)' = IF a = worker[w].auth THEN Held(a) \ {w} ELSE Held(a)
  BY <1>2 DEF Held, Holding
<1>4. a = worker[w].auth => w \in Held(a)
  BY DEF Held, Holding
<1>5. Queued(a)' = Queued(a) /\ Sent(a)' = Sent(a)
  BY DEF Queued, Sent
<1>6. Cardinality(Held(a) \ {w}) = IF w \in Held(a) THEN Cardinality(Held(a)) - 1
                                   ELSE Cardinality(Held(a))
  BY Flights, FS_RemoveElement
<1>7. InFlight(a)' = Cardinality(Queued(a)) + Cardinality(Held(a)') + Sent(a)
  BY <1>5, FlightsNext
<1>8. CASE a = worker[w].auth
  <2>1. Cardinality(Held(a)') = Cardinality(Held(a)) - 1
    BY <1>3, <1>4, <1>6, <1>8
  <2> QED BY <1>7, <1>8, <2>1, Flights
<1>9. CASE a # worker[w].auth
  BY <1>3, <1>7, <1>9, Flights
<1> QED BY <1>8, <1>9

LEMMA TailCount ==
  ASSUME NEW S, NEW s \in Seq(S), s # <<>>, NEW a, IsFiniteSet({i \in DOMAIN s : s[i] = a})
  PROVE  Cardinality({i \in DOMAIN s : s[i] = a}) =
           Cardinality({i \in DOMAIN Tail(s) : Tail(s)[i] = a}) + (IF Head(s) = a THEN 1 ELSE 0)
<1> DEFINE Q == {i \in DOMAIN s : s[i] = a}
           T == {i \in DOMAIN Tail(s) : Tail(s)[i] = a}
           f == [i \in Q \ {1} |-> i - 1]
<1>1. /\ Len(s) \in Nat \ {0} /\ DOMAIN s = 1..Len(s)
      /\ DOMAIN Tail(s) = 1..(Len(s) - 1)
      /\ \A i \in 1..(Len(s) - 1) : Tail(s)[i] = s[i + 1]
      /\ Head(s) = s[1]
  OBVIOUS
<1>2. \A i \in Q \ {1} : i \in 2..Len(s) /\ i - 1 \in T
  BY <1>1
<1>3. \A j \in T : j + 1 \in Q \ {1} /\ f[j + 1] = j
  BY <1>1
<1>4. \A i, j \in Q \ {1} : f[i] = f[j] => i = j
  BY <1>2
<1>5. f \in [Q \ {1} -> T]
  BY <1>2
<1>6. f \in Bijection(Q \ {1}, T)
  BY <1>3, <1>4, <1>5 DEF Bijection, Injection, Surjection, IsInjective
<1>7. IsFiniteSet(Q \ {1}) /\ Cardinality(Q \ {1}) = IF 1 \in Q THEN Cardinality(Q) - 1 ELSE Cardinality(Q)
  BY FS_RemoveElement
<1>8. Cardinality(T) = Cardinality(Q \ {1})
  <2> HIDE DEF Q, T, f
  <2> QED BY <1>6, <1>7, FS_Bijection DEF ExistsBijection
<1>9. 1 \in Q <=> Head(s) = a
  BY <1>1
<1>10. Cardinality(Q) \in Nat
  BY FS_CardinalityType
<1> HIDE DEF Q, T, f
<1>11. Cardinality(Q) = Cardinality(T) + (IF Head(s) = a THEN 1 ELSE 0)
  BY <1>7, <1>8, <1>9, <1>10
<1> QED BY <1>11 DEF Q, T

LEMMA TakeMoves ==
  ASSUME TypeInv, NEW w \in Workers, Take(w)
  PROVE  \A a \in Auths : InFlight(a)' = InFlight(a)
<1> SUFFICES ASSUME NEW a \in Auths PROVE InFlight(a)' = InFlight(a)
  OBVIOUS
<1>1. /\ worker[w].pc = "idle" /\ jobs \in Seq(Auths) /\ jobs # <<>> /\ jobs' = Tail(jobs)
      /\ worker' = [worker EXCEPT ![w] = [pc |-> "read", auth |-> Head(jobs)]]
      /\ worker \in [Workers -> WorkerRec] /\ UNCHANGED loop
  BY DEF Take, LoopState, TypeInv, GoroutineTypes
<1>2. /\ worker'[w] = [pc |-> "read", auth |-> Head(jobs)]
      /\ \A v \in Workers : v # w => worker'[v] = worker[v]
  BY <1>1
<1>3. Held(a)' = (IF a = Head(jobs) THEN Held(a) \cup {w} ELSE Held(a)) /\ w \notin Held(a)
  BY <1>1, <1>2 DEF Held, Holding
<1>4. Cardinality(Held(a) \cup {w}) = Cardinality(Held(a)) + 1
  BY <1>3, Flights, FS_AddElement
<1>5. Cardinality(Queued(a)) = Cardinality(Queued(a)') + (IF Head(jobs) = a THEN 1 ELSE 0)
  <2>1. IsFiniteSet({i \in DOMAIN jobs : jobs[i] = a})
    BY CountsAreFinite
  <2>2. Queued(a)' = {i \in DOMAIN Tail(jobs) : Tail(jobs)[i] = a}
    BY <1>1 DEF Queued
  <2>3. Queued(a) = {i \in DOMAIN jobs : jobs[i] = a}
    BY DEF Queued
  <2>4. Cardinality({i \in DOMAIN jobs : jobs[i] = a}) =
          Cardinality({i \in DOMAIN Tail(jobs) : Tail(jobs)[i] = a})
          + (IF Head(jobs) = a THEN 1 ELSE 0)
    BY <1>1, <2>1, TailCount
  <2> QED BY <2>2, <2>3, <2>4
<1>6. Cardinality(Queued(a)') \in Nat
  <2>1. {i \in DOMAIN jobs' : jobs'[i] = a} \subseteq 1..Len(jobs')
    BY <1>1
  <2>2. IsFiniteSet(1..Len(jobs'))
    BY <1>1, FS_Interval
  <2> QED BY <2>1, <2>2, FS_Subset, FS_CardinalityType DEF Queued
<1>7. Sent(a)' = Sent(a)
  BY <1>1 DEF Sent
<1> QED BY <1>3, <1>4, <1>5, <1>6, <1>7, Flights, FlightsNext

LEMMA SendMoves ==
  ASSUME TypeInv, Send PROVE \A a \in Auths : InFlight(a)' = InFlight(a)
<1> SUFFICES ASSUME NEW a \in Auths PROVE InFlight(a)' = InFlight(a)
  OBVIOUS
<1>1. /\ loop.pc = "send" /\ loop.cur \in Auths /\ loop \in LoopRec /\ jobs \in Seq(Auths)
      /\ jobs' = Append(jobs, loop.cur) /\ UNCHANGED worker
  BY DEF Send, At, TypeInv, LoopTypes, GoroutineTypes
<1>2. loop'.pc = "due"
  BY <1>1 DEF Send, LoopRec
<1>3. Sent(a)' = 0 /\ Sent(a) = (IF a = loop.cur THEN 1 ELSE 0)
  BY <1>1, <1>2 DEF Sent
<1>4. Held(a)' = Held(a)
  BY <1>1 DEF Held, Holding
<1> DEFINE n == Len(jobs) + 1
<1>5. Queued(a)' = (IF a = loop.cur THEN Queued(a) \cup {n} ELSE Queued(a)) /\ n \notin Queued(a)
  BY <1>1 DEF Queued
<1>6. Cardinality(Queued(a) \cup {n}) = Cardinality(Queued(a)) + 1
  BY <1>5, Flights, FS_AddElement
<1>7. InFlight(a)' = Cardinality(Queued(a)') + Cardinality(Held(a)) + 0
  BY <1>3, <1>4, FlightsNext
<1>8. CASE a = loop.cur
  <2>1. Cardinality(Queued(a)') = Cardinality(Queued(a)) + 1
    BY <1>5, <1>6, <1>8
  <2> QED BY <1>3, <1>7, <1>8, <2>1, Flights
<1>9. CASE a # loop.cur
  BY <1>3, <1>5, <1>7, <1>9, Flights
<1> QED BY <1>8, <1>9

\* Steps that start no refresh.
LEMMA NothingStarts ==
  ASSUME TypeInv, Single,
         \A a \in Auths : InFlight(a)' \in Nat /\ InFlight(a)' <= InFlight(a),
         \A a \in Auths \ excused' : a \notin excused \/ InFlight(a)' = 0,
         \A a \in Auths \ excused' :
           \/ InFlight(a)' = 0 \/ auth'[a] = NoAuth
           \/ auth[a] # NoAuth /\ auth'[a].after = auth[a].after
           \/ Ahead(auth'[a].after, 0)
  PROVE  Single'
<1> SUFFICES ASSUME NEW a \in Auths, a \notin excused'
             PROVE  (InFlight(a) <= 1 /\ Covered(a))'
  BY DEF Single
<1>1. InFlight(a)' \in Nat /\ InFlight(a)' <= InFlight(a) /\ InFlight(a) \in Nat
  BY Flights
<1>2. CASE InFlight(a)' = 0
  BY <1>2 DEF Covered, UnderWay
<1>3. CASE InFlight(a)' # 0
  <2>1. InFlight(a) <= 1 /\ Covered(a) /\ UnderWay(a)
    BY <1>1, <1>3 DEF Single, UnderWay
  <2>2. \/ auth'[a] = NoAuth
        \/ auth[a] # NoAuth /\ auth'[a].after = auth[a].after
        \/ Ahead(auth'[a].after, 0)
    BY <1>3
  <2>3. Covered(a)'
    BY <2>1, <2>2 DEF Covered
  <2> QED BY <1>1, <2>1, <2>3
<1> QED BY <1>2, <1>3

\* Steps that leave the jobs and the workers alone and send nothing.
LEMMA NobodyFlies ==
  ASSUME TypeInv, Single, UNCHANGED <<jobs, worker>>, \A a \in Auths : Sent(a)' = Sent(a),
         excused \subseteq excused',
         \A a \in Auths \ excused' :
           \/ ~UnderWay(a) \/ auth'[a] = NoAuth
           \/ auth[a] # NoAuth /\ auth'[a].after = auth[a].after
           \/ Ahead(auth'[a].after, 0)
  PROVE  Single'
<1>1. \A a \in Auths : InFlight(a)' = InFlight(a) /\ InFlight(a) \in Nat
  BY SameFlights, Flights
<1>2. \A a \in Auths : ~UnderWay(a) => InFlight(a)' = 0
  BY <1>1 DEF UnderWay
<1> QED BY <1>1, <1>2, NothingStarts

LEMMA MarkSingle == ASSUME TypeInv, Single, MarkPending PROVE Single'
<1>1. PICK b \in Auths : b = loop.cur
  BY DEF MarkPending, At, TypeInv, LoopTypes
<1>2. /\ loop.pc = "mark" /\ loop \in LoopRec /\ UNCHANGED <<jobs, worker>> /\ auth[b] \in Rec
      /\ auth' = [auth EXCEPT ![b].after = Pending - loop.lag]
      /\ excused' = IF Pending > loop.lag THEN excused ELSE excused \cup {b}
      /\ loop' = [loop EXCEPT !.pc = "send"]
      /\ auth[b] # NoAuth /\ ~Ahead(auth[b].after, loop.lag)
  BY <1>1 DEF MarkPending, At, Goto, MayMark, TypeInv, LoopTypes, AuthTypes
<1>3. loop'.pc = "send" /\ loop'.cur = b
  BY <1>1, <1>2 DEF LoopRec
<1>4. /\ auth \in [Auths -> Rec \cup {NoAuth}] /\ auth'[b].after = Pending - loop.lag
      /\ \A a \in Auths : a # b => auth'[a] = auth[a]
  BY <1>2 DEF TypeInv, AuthTypes, Rec
<1>5. ~Ahead(auth[b].after, 0)
  BY <1>2, DelaysAssumption DEF Ahead, Rec, Time, LoopRec
<1>6. \A a \in Auths : Queued(a)' = Queued(a) /\ Held(a)' = Held(a)
  BY <1>2 DEF Queued, Held, Holding
<1>7. \A a \in Auths : Sent(a) = 0 /\ Sent(a)' = IF a = b THEN 1 ELSE 0
  BY <1>2, <1>3 DEF Sent
<1>8. \A a \in Auths : InFlight(a)' = IF a = b THEN InFlight(a) + 1 ELSE InFlight(a)
  BY <1>6, <1>7, Flights, FlightsNext
<1> SUFFICES ASSUME NEW a \in Auths, a \notin excused'
             PROVE  (InFlight(a) <= 1 /\ Covered(a))'
  BY DEF Single
<1>9. a \notin excused /\ InFlight(a) <= 1 /\ Covered(a) /\ InFlight(a) \in Nat
  BY <1>2, Flights DEF Single
<1>10. CASE a = b
  <2>1. InFlight(a) = 0
    BY <1>2, <1>5, <1>9, <1>10 DEF Covered, UnderWay
  <2>2. Ahead(auth'[a].after, 0)
    BY <1>2, <1>4, <1>10, DelaysAssumption DEF Ahead, LoopRec
  <2> QED BY <1>8, <1>10, <2>1, <2>2 DEF Covered
<1>11. CASE a # b
  <2>1. InFlight(a)' = InFlight(a) /\ auth'[a] = auth[a]
    BY <1>4, <1>8, <1>11
  <2> QED BY <1>9, <2>1 DEF Covered, UnderWay
<1> QED BY <1>10, <1>11

LEMMA LoopSingle == ASSUME TypeInv, Single, Loop PROVE Single'
<1>0. loop \in LoopRec
  BY DEF TypeInv, LoopTypes
<1> DEFINE Calm == /\ UNCHANGED <<jobs, worker, auth, excused>>
                   /\ loop.pc # "send" /\ loop'.pc # "send"
<1>1. ASSUME Calm PROVE Single'
  <2>1. \A a \in Auths : Sent(a)' = Sent(a)
    BY <1>1 DEF Sent
  <2>2. \A a \in Auths : \/ auth'[a] = NoAuth
                         \/ auth[a] # NoAuth /\ auth'[a].after = auth[a].after
    BY <1>1
  <2> QED BY <1>1, <2>1, <2>2, NobodyFlies
<1>2. ASSUME RebuildRead \/ RebuildInstall \/ OnWake \/ OnTimer PROVE Calm
  BY <1>0, <1>2 DEF RebuildRead, RebuildInstall, OnWake, OnTimer, ManagerAndWorkers, At, LoopRec
<1>3. ASSUME NEW a \in Auths, Examine(a) PROVE Calm
  <2>1. PICK pc \in {"due", "mark", "put"} : \E c, n, D :
          loop' = [loop EXCEPT !.due = D, !.cur = c, !.next = n, !.pc = pc]
    BY <1>3 DEF Examine
  <2> QED BY <1>0, <1>3, <2>1 DEF Examine, ManagerAndWorkers, At, LoopRec
<1>4. ASSUME NEW a \in Auths, ApplyRead(a) PROVE Calm
  BY <1>0, <1>4 DEF ApplyRead, ManagerAndWorkers, At, LoopRec
<1>5. ASSUME MarkRefused \/ Reread \/ DueDone PROVE Calm
  BY <1>0, <1>5 DEF MarkRefused, Reread, DueDone, Goto, ManagerAndWorkers, At, LoopRec
<1>6. ASSUME DrainDirty \/ PutEntry \/ ResetTimer PROVE Calm
  <2>1. CASE DrainDirty \/ ResetTimer
    BY <1>0, <2>1 DEF DrainDirty, ResetTimer, Goto, ManagerAndWorkers, At, LoopRec
  <2>2. CASE PutEntry
    <3>1. PICK pc \in {"apply", "due"} :
            loop' = [loop EXCEPT !.pc = pc, !.cur = NoAuth, !.next = NoTime, !.applying = FALSE]
      BY <2>2 DEF PutEntry
    <3> QED BY <1>0, <2>2, <3>1 DEF PutEntry, ManagerAndWorkers, At, LoopRec
  <2> QED BY <1>6, <2>1, <2>2
<1>7. CASE Send
  <2>1. UNCHANGED <<auth, excused>>
    BY <1>7 DEF Send
  <2>2. \A a \in Auths : \/ auth'[a] = NoAuth
                         \/ auth[a] # NoAuth /\ auth'[a].after = auth[a].after
    BY <2>1
  <2> QED BY <1>7, <2>1, <2>2, SendMoves, Flights, NothingStarts
<1> HIDE DEF Calm
<1> QED BY <1>1, <1>2, <1>3, <1>4, <1>5, <1>6, <1>7, MarkSingle DEF Loop

LEMMA WorkerSingle == ASSUME TypeInv, Single, NEW w \in Workers, Worker(w) PROVE Single'
<1>0. worker \in [Workers -> WorkerRec] /\ auth \in [Auths -> Rec \cup {NoAuth}]
  BY DEF TypeInv, GoroutineTypes, AuthTypes
\* A refresh that ends: the last one under way takes the excuse with it.
<1>1. ASSUME NEW pc \in {"queue", "queue_last"}, NEW b \in Auths, b = worker[w].auth,
             worker[w].pc = "busy", worker' = [worker EXCEPT ![w].pc = pc],
             UNCHANGED <<jobs, loop>>, Ended(b), \A a \in Auths : a # b => auth'[a] = auth[a]
      PROVE  Single'
  <2>1. \A a \in Auths : /\ InFlight(a) \in Nat
                         /\ InFlight(a)' = IF a = b THEN InFlight(a) - 1 ELSE InFlight(a)
    BY <1>1, WorkerLands, Flights
  <2>2. InFlight(b) > 0
    <3>1. w \in Held(b)
      BY <1>1 DEF Held, Holding
    <3>2. Cardinality(Held(b)) \in Nat \ {0}
      BY <3>1, Flights, AnyIsMore
    <3> QED BY <3>2, Flights
  <2>3. \A a \in Auths \ excused' : a \notin excused \/ InFlight(a)' = 0
    BY <1>1, <2>1 DEF Ended
  <2>4. b \notin excused' => InFlight(b)' = 0
    BY <1>1, <2>1, <2>2 DEF Ended, Single
  <2>5. \A a \in Auths \ excused' :
          \/ InFlight(a)' = 0 \/ auth'[a] = NoAuth
          \/ auth[a] # NoAuth /\ auth'[a].after = auth[a].after
    BY <1>1, <2>4
  <2> QED BY <2>1, <2>2, <2>3, <2>5, NothingStarts
<1>2. CASE Take(w)
  <2>1. UNCHANGED <<auth, excused>>
    BY <1>2 DEF Take
  <2> QED BY <1>2, <2>1, TakeMoves, Flights, NothingStarts
<1>3. CASE ReadAuth(w)
  <2>1. worker[w].pc = "read" /\ UNCHANGED <<jobs, loop, auth, excused>>
    BY <1>3 DEF ReadAuth, LoopState
  <2>2. CASE worker' = [worker EXCEPT ![w].pc = "busy"]
    <3>1. \A a \in Auths, v \in Workers : Holding(v, a)' <=> Holding(v, a)
      BY <1>0, <2>1, <2>2 DEF Holding, WorkerRec
    <3>2. \A a \in Auths : InFlight(a)' = InFlight(a)
      BY <2>1, <3>1 DEF InFlight
    <3> QED BY <2>1, <3>2, Flights, NothingStarts
  <2>3. CASE worker' = [worker EXCEPT ![w].pc = "queue_last"]
    <3>1. \A a \in Auths :
            InFlight(a)' = IF a = worker[w].auth THEN InFlight(a) - 1 ELSE InFlight(a)
      BY <2>1, <2>3, WorkerLands
    <3>2. worker[w].auth \in Auths
      BY <2>1 DEF TypeInv, GoroutineTypes
    <3>3. Cardinality(Held(worker[w].auth)) \in Nat \ {0}
      <4>1. w \in Held(worker[w].auth)
        BY <2>1 DEF Held, Holding
      <4> QED BY <4>1, Flights, AnyIsMore
    <3>4. \A a \in Auths : InFlight(a)' \in Nat /\ InFlight(a)' <= InFlight(a)
      BY <3>1, <3>2, <3>3, Flights
    <3> QED BY <2>1, <3>4, NothingStarts
  <2> QED BY <1>3, <2>2, <2>3 DEF ReadAuth, Become
<1>4. ASSUME worker[w].pc = "busy" PROVE worker[w].auth \in Auths
  BY <1>4 DEF TypeInv, GoroutineTypes
<1>5. ASSUME NEW lifetime \in Lifetimes, Refreshed(w, lifetime) PROVE Single'
  <2>1. PICK pc \in {"queue", "queue_last"} : worker' = [worker EXCEPT ![w].pc = pc]
    BY <1>5 DEF Refreshed, Become
  <2>2. worker[w].pc = "busy" /\ UNCHANGED <<loop, jobs>> /\ Ended(worker[w].auth)
    BY <1>5 DEF Refreshed, LoopState
  <2>3. auth' = auth \/ auth' = [auth EXCEPT ![worker[w].auth] = Fresh(lifetime)]
    BY <1>5 DEF Refreshed
  <2>4. \A a \in Auths : a # worker[w].auth => auth'[a] = auth[a]
    BY <1>0, <2>3
  <2>5. PICK b \in Auths : b = worker[w].auth
    BY <1>4, <2>2
  <2> QED BY <1>1, <2>1, <2>2, <2>4, <2>5
<1>6. ASSUME NEW denied \in BOOLEAN, RefreshFailed(w, denied) PROVE Single'
  <2>1. PICK pc \in {"queue", "queue_last"} : worker' = [worker EXCEPT ![w].pc = pc]
    BY <1>6 DEF RefreshFailed, Become
  <2>2. worker[w].pc = "busy" /\ UNCHANGED <<loop, jobs>> /\ Ended(worker[w].auth)
    BY <1>6 DEF RefreshFailed, LoopState
  <2>3. \A a \in Auths : a # worker[w].auth => auth'[a] = auth[a]
    BY <1>0, <1>6, FailureIsLocal
  <2>4. PICK b \in Auths : b = worker[w].auth
    BY <1>4, <2>2
  <2> QED BY <1>1, <2>1, <2>2, <2>3, <2>4
<1>7. CASE RefreshCanceled(w)
  <2>1. worker' = [worker EXCEPT ![w].pc = "queue_last"] /\ worker[w].pc = "busy"
          /\ UNCHANGED <<loop, jobs, auth>> /\ Ended(worker[w].auth)
    BY <1>7 DEF RefreshCanceled, LoopState, Become
  <2>2. PICK b \in Auths : b = worker[w].auth
    BY <1>4, <2>1
  <2> QED BY <1>1, <2>1, <2>2
<1>8. CASE WorkerMark(w) \/ WorkerSignal(w)
  <2>1. UNCHANGED <<loop, jobs, auth, excused>>
    BY <1>8 DEF WorkerMark, WorkerSignal, LoopState
  <2>2. \A a \in Auths, v \in Workers : Holding(v, a)' <=> Holding(v, a)
    BY <1>0, <1>8 DEF WorkerMark, WorkerSignal, Become, Holding, WorkerRec
  <2>3. \A a \in Auths : InFlight(a)' = InFlight(a)
    BY <2>1, <2>2 DEF InFlight
  <2> QED BY <2>1, <2>3, Flights, NothingStarts
<1> QED BY <1>2, <1>3, <1>5, <1>6, <1>7, <1>8 DEF Worker

LEMMA StoreSingle ==
  ASSUME TypeInv, Single, NEW c \in Callers, NEW a \in Auths, NEW lifetime \in Lifetimes,
         Store(c, a, lifetime)
  PROVE  Single'
<1>1. UNCHANGED <<jobs, worker, loop>>
  BY DEF Store, LoopState
<1>2. PICK r : /\ auth' = [auth EXCEPT ![a] = r]
               /\ excused' = IF UnderWay(a) /\ ~Ahead(r.after, 0)
                             THEN excused \cup {a} ELSE excused
  BY DEF Store
<1>3. \A b \in Auths \ excused' :
        \/ ~UnderWay(b) \/ auth'[b] = NoAuth
        \/ auth[b] # NoAuth /\ auth'[b].after = auth[b].after
        \/ Ahead(auth'[b].after, 0)
  BY <1>2 DEF TypeInv, AuthTypes
<1>4. excused \subseteq excused' /\ \A b \in Auths : Sent(b)' = Sent(b)
  BY <1>1, <1>2 DEF Sent
<1> QED BY <1>1, <1>3, <1>4, NobodyFlies

LEMMA ApiSingle ==
  ASSUME TypeInv, Single, NEW a \in Auths,
         \/ \E c \in Callers : Delete(c, a)
         \/ \E denied \in BOOLEAN : MarkResult(a, denied)
  PROVE  Single'
<1>1. UNCHANGED <<jobs, worker, loop, excused>>
  BY DEF Delete, MarkResult, LoopState
<1>2. \A b \in Auths : \/ auth'[b] = NoAuth
                       \/ auth[b] # NoAuth /\ auth'[b].after = auth[b].after
  <2>1. ASSUME NEW c \in Callers, Delete(c, a) PROVE auth' = [auth EXCEPT ![a] = NoAuth]
    BY <2>1 DEF Delete
  <2>2. ASSUME NEW denied \in BOOLEAN, MarkResult(a, denied)
        PROVE  auth[a] # NoAuth /\ auth' = [auth EXCEPT ![a].denied = denied]
    BY <2>2 DEF MarkResult
  <2> QED BY <2>1, <2>2 DEF TypeInv, AuthTypes, Rec
<1>3. \A b \in Auths : Sent(b)' = Sent(b)
  BY <1>1 DEF Sent
<1> QED BY <1>1, <1>2, <1>3, NobodyFlies

LEMMA TickSingle == ASSUME TypeInv, Single, Tick PROVE Single'
<1>1. UNCHANGED <<jobs, worker>> /\ \A a \in Auths : Sent(a)' = Sent(a)
  BY TickLoop DEF Tick, Sent
<1>2. excused \subseteq excused'
  BY DEF Tick
<1>3. \A a \in Auths \ excused' :
        \/ ~UnderWay(a) \/ auth'[a] = NoAuth \/ auth'[a].after \in 1..MaxDelay
  BY DEF Tick
<1>4. \A t \in 1..MaxDelay : Ahead(t, 0)
  BY DelaysAssumption DEF Ahead
<1> QED BY <1>1, <1>2, <1>3, <1>4, NobodyFlies

LEMMA NextSingle == TypeInv /\ Single /\ [Next]_vars => Single'
<1> SUFFICES ASSUME TypeInv, Single, [Next]_vars PROVE Single'
  OBVIOUS
<1>1. CASE UNCHANGED vars
  <2>1. \A a \in Auths : InFlight(a)' = InFlight(a)
    BY <1>1, SameFlights DEF vars, Sent
  <2> QED BY <1>1, <2>1 DEF vars, Single, Covered, UnderWay
<1>2. ASSUME NEW c \in Callers, Caller(c) PROVE Single'
  <2>1. UNCHANGED <<jobs, worker, loop, excused, auth>>
    BY <1>2 DEF Caller, CallerMark, CallerSignal, Unschedule, LoopState
  <2>2. \A a \in Auths : InFlight(a)' = InFlight(a)
    BY <2>1, SameFlights DEF Sent
  <2> QED BY <2>1, <2>2 DEF Single, Covered, UnderWay
<1> QED
  BY <1>1, <1>2, LoopSingle, WorkerSingle, StoreSingle, ApiSingle, TickSingle DEF Next

\* A credential's refresh token is not spent by two refreshes at a time:
\* markRefreshPending and the time it sets keep a second refresh from
\* starting as long as the first one's mark lasts and nobody replaces it.
THEOREM RefreshesDoNotOverlap == Spec => []OneRefreshAtATime
<1>1. Init => Single
  <2> SUFFICES ASSUME Init, NEW a \in Auths PROVE InFlight(a) <= 1 /\ Covered(a)
    BY DEF Single
  <2>1. Queued(a) = {} /\ Held(a) = {} /\ Sent(a) = 0
    BY DEF Init, IdleLoop, Queued, Held, Holding, Sent
  <2>2. Cardinality(Queued(a)) = 0 /\ Cardinality(Held(a)) = 0
    BY <2>1, FS_EmptySet
  <2>3. InFlight(a) = 0
    BY <2>1, <2>2 DEF InFlight, Queued, Held, Sent
  <2> QED BY <2>3 DEF Covered, UnderWay
<1>2. Single => OneRefreshAtATime
  BY DEF Single, OneRefreshAtATime
<1> QED BY <1>1, <1>2, InitTypes, NextTypes, NextSingle, PTL DEF Spec

-----------------------------------------------------------------------------
(* The timer is in time                                                     *)

Floored(h) == \A a \in DOMAIN h : h[a] >= 0 - MaxLag

\* No time the loop holds is older than a round may be, which is why a heap
\* has a first entry.
TimerInv ==
  /\ loop.lag <= MaxLag
  /\ Floored(heap) /\ Floored(loop.plan)
  /\ loop.next # NoTime => loop.next >= 0 - MaxLag
  /\ timer \in Nat \cup {NoTime}
  /\ TimerInTime

LEMMA CheckFloor ==
  ASSUME NEW r \in Rec \cup {NoAuth}, NEW lag \in Nat, lag <= MaxLag,
         NextCheck(r, lag) # NoTime
  PROVE  NextCheck(r, lag) >= 0 - MaxLag
<1>1. r \in Rec
  BY DEF NextCheck
<1>2. r.after \in Time /\ r.due \in Time
  BY <1>1 DEF Rec
<1>3. NextCheck(r, lag) = IF Ahead(r.after, lag) THEN r.after
                          ELSE IF r.due >= 0 - lag THEN r.due ELSE 0 - lag
  BY <1>2, MaxOfTwo, DelaysAssumption DEF NextCheck, Time
<1> QED BY <1>2, <1>3, DelaysAssumption DEF Ahead, Time, NextCheck

LEMMA PutFloor ==
  ASSUME NEW f \in Plans, Floored(f), NEW a \in Auths, NEW t \in Time,
         t # NoTime => t >= 0 - MaxLag
  PROVE  Floored(Put(f, a, t))
BY DEF Floored, Put

\* The first entry of a heap, and the timer that is set for it.
LEMMA ArmedInTime ==
  ASSUME NEW h \in Plans, Floored(h), NEW lag \in Nat
  PROVE  /\ Armed(h, lag) \in Nat \cup {NoTime}
         /\ DOMAIN h # {} =>
              /\ Armed(h, lag) # NoTime
              /\ \A a \in DOMAIN h : Armed(h, lag) <= Max({0, h[a] + lag})
<1>1. \A a \in DOMAIN h : h[a] \in Int /\ h[a] >= 0 - MaxLag
  BY PlanFacts DEF Floored
<1>2. CASE DOMAIN h = {}
  BY <1>2 DEF Armed
<1>3. CASE DOMAIN h # {}
  <2> DEFINE T == {h[a] : a \in DOMAIN h}
             S == {h[a] + MaxLag : a \in DOMAIN h}
  <2>1. S \in SUBSET Nat /\ S # {}
    BY <1>1, <1>3, DelaysAssumption
  <2>2. PICK b \in DOMAIN h : \A a \in DOMAIN h : h[b] + MaxLag <= h[a] + MaxLag
    <3>1. PICK x \in S : \A y \in S : x <= y
      BY <2>1, LeastExists
    <3> QED BY <3>1
  <2>3. h[b] \in T /\ \A y \in T : h[b] <= y
    BY <1>1, <2>2, DelaysAssumption
  <2>4. Min(T) \in T /\ \A y \in T : Min(T) <= y
    BY <2>3 DEF Min
  <2> DEFINE least == Min(T)
  <2>5. least \in Int /\ \A a \in DOMAIN h : least <= h[a]
    BY <1>1, <2>4
  <2>6. Armed(h, lag) = Max({0, lag + least})
    BY <1>3 DEF Armed
  <2> HIDE DEF least, T, S
  <2>7. Armed(h, lag) = IF 0 >= lag + least THEN 0 ELSE lag + least
    BY <2>5, <2>6, MaxOfTwo
  <2>8. ASSUME NEW a \in DOMAIN h PROVE Armed(h, lag) <= Max({0, h[a] + lag})
    <3>1. Max({0, h[a] + lag}) = IF 0 >= h[a] + lag THEN 0 ELSE h[a] + lag
      BY <1>1, MaxOfTwo
    <3> QED BY <1>1, <2>5, <2>7, <3>1
  <2> QED BY <2>5, <2>7, <2>8, DelaysAssumption
<1> QED BY <1>2, <1>3

LEMMA LoopTimer == ASSUME TypeInv, TimerInv, Loop PROVE TimerInv'
<1>1. /\ loop \in LoopRec /\ loop.lag \in Nat /\ loop.plan \in Plans /\ heap \in Plans
      /\ auth \in [Auths -> Rec \cup {NoAuth}] /\ MaxLag \in Nat
  BY DelaysAssumption DEF TypeInv, LoopTypes, LoopRec, HeapTypes, AuthTypes
<1>2. \A a \in Auths : NextCheck(auth[a], loop.lag) # NoTime
                         => NextCheck(auth[a], loop.lag) >= 0 - MaxLag
  BY <1>1, CheckFloor DEF TimerInv
<1>3. CASE RebuildRead
  <2> DEFINE S == {b \in Auths : NextCheck(auth[b], loop.lag) # NoTime}
             plan == [a \in S |-> NextCheck(auth[a], loop.lag)]
  <2>1. Floored(plan)
    BY <1>2 DEF Floored
  <2>2. loop' = [loop EXCEPT !.pc = "install", !.plan = plan]
    BY <1>3 DEF RebuildRead
  <2> HIDE DEF plan
  <2>3. loop'.pc = "install" /\ loop'.plan = plan /\ loop'.lag = loop.lag /\ loop'.next = loop.next
    BY <1>1, <2>2 DEF LoopRec
  <2> QED BY <1>3, <2>1, <2>3 DEF RebuildRead, TimerInv, TimerInTime, At
<1>4. CASE RebuildInstall
  <2>1. heap' = loop.plan /\ timer' = Armed(loop.plan, 0)
    BY <1>4 DEF RebuildInstall
  <2>2. loop'.lag = 0 /\ loop'.plan = EmptyPlan /\ loop'.next = loop.next
    BY <1>1, <1>4 DEF RebuildInstall, LoopRec
  <2>3. /\ timer' \in Nat \cup {NoTime}
        /\ DOMAIN heap' # {} =>
             timer' # NoTime /\ \A a \in DOMAIN heap' : timer' <= Max({0, heap'[a] + 0})
    BY <1>1, <2>1, ArmedInTime DEF TimerInv
  <2>4. Floored(EmptyPlan)
    BY DEF Floored, EmptyPlan
  <2>5. TimerInTime'
    BY <2>2, <2>3 DEF TimerInTime
  <2>6. Floored(heap)' /\ Floored(loop.plan)'
    BY <2>1, <2>2, <2>4 DEF TimerInv
  <2> QED BY <1>1, <2>2, <2>3, <2>5, <2>6 DEF TimerInv
<1>5. CASE OnWake \/ OnTimer
  <2>1. /\ loop'.pc \in {"drain", "due"} /\ loop'.lag = 0 /\ loop'.plan = loop.plan
        /\ loop'.next = loop.next /\ timer' \in {timer, NoTime}
    BY <1>1, <1>5 DEF OnWake, OnTimer, LoopRec
  <2>2. \A a \in DOMAIN heap' : a \in DOMAIN heap /\ heap'[a] = heap[a]
    BY <1>5 DEF OnWake, OnTimer
  <2> QED BY <1>1, <2>1, <2>2 DEF TimerInv, TimerInTime, At, Floored
\* The other steps do not come back to the select with another heap.
<1>6. ASSUME loop'.pc # "select", loop'.lag = loop.lag, loop'.plan = loop.plan,
             UNCHANGED <<heap, timer>>, loop'.next # NoTime => loop'.next >= 0 - MaxLag
      PROVE  TimerInv'
  BY <1>6 DEF TimerInv, TimerInTime, At
<1>7. ASSUME NEW a \in Auths, Examine(a) \/ ApplyRead(a) PROVE TimerInv'
  <2> DEFINE n == NextCheck(auth[a], loop.lag)
  <2>1. PICK pc \in {"due", "mark", "put"} : \E c, D, E, t :
          loop' = [loop EXCEPT !.pc = pc, !.cur = c, !.next = n, !.due = D, !.drained = E,
                     !.applying = t]
    <3>1. CASE Examine(a)
      <4>1. PICK pc \in {"due", "mark", "put"} : \E c, D :
              loop' = [loop EXCEPT !.due = D, !.cur = c, !.next = n, !.pc = pc]
        BY <3>1 DEF Examine
      <4>2. PICK c, D : loop' = [loop EXCEPT !.due = D, !.cur = c, !.next = n, !.pc = pc]
        BY <4>1
      <4>3. loop' = [loop EXCEPT !.pc = pc, !.cur = c, !.next = n, !.due = D,
                       !.drained = loop.drained, !.applying = loop.applying]
        BY <1>1, <4>2 DEF LoopRec
      <4> QED BY <4>3
    <3>2. CASE ApplyRead(a)
      <4>1. loop' = [loop EXCEPT !.pc = "put", !.cur = a, !.next = n, !.due = loop.due,
                       !.drained = loop.drained \ {a}, !.applying = TRUE]
        BY <1>1, <3>2 DEF ApplyRead, LoopRec
      <4> QED BY <4>1
    <3> QED BY <1>7, <3>1, <3>2
  <2>2. UNCHANGED <<heap, timer>> /\ (n # NoTime => n >= 0 - MaxLag)
    BY <1>2, <1>7 DEF Examine, ApplyRead
  <2> HIDE DEF n
  <2>3. loop'.pc = pc /\ loop'.lag = loop.lag /\ loop'.plan = loop.plan /\ loop'.next = n
    BY <1>1, <2>1 DEF LoopRec
  <2> QED BY <1>6, <2>2, <2>3
<1>8. CASE MarkPending \/ MarkRefused \/ DueDone \/ DrainDirty
  <2>1. /\ loop'.pc \in {"send", "reread", "drain", "apply"} /\ loop'.lag = loop.lag
        /\ loop'.plan = loop.plan /\ loop'.next = loop.next /\ UNCHANGED <<heap, timer>>
    BY <1>1, <1>8 DEF MarkPending, MarkRefused, DueDone, DrainDirty, Goto, LoopRec
  <2> QED BY <1>6, <2>1 DEF TimerInv
<1>9. CASE Reread
  <2>1. loop.cur \in Auths
    BY <1>9 DEF Reread, At, TypeInv, LoopTypes
  <2>2. /\ loop'.pc = "put" /\ loop'.lag = loop.lag /\ loop'.plan = loop.plan
        /\ loop'.next = NextCheck(auth[loop.cur], loop.lag) /\ UNCHANGED <<heap, timer>>
    BY <1>1, <1>9 DEF Reread, LoopRec
  <2> QED BY <1>2, <1>6, <2>1, <2>2
<1>10. CASE Send
  <2>1. /\ loop'.pc = "due" /\ loop'.lag = loop.lag /\ loop'.plan = loop.plan
        /\ loop'.next = NoTime /\ UNCHANGED <<heap, timer>>
    BY <1>1, <1>10 DEF Send, LoopRec
  <2> QED BY <1>6, <2>1
<1>11. CASE PutEntry
  <2>1. PICK pc \in {"apply", "due"} :
          loop' = [loop EXCEPT !.pc = pc, !.cur = NoAuth, !.next = NoTime, !.applying = FALSE]
    BY <1>11 DEF PutEntry
  <2>2. /\ loop'.pc # "select" /\ loop'.lag = loop.lag /\ loop'.plan = loop.plan
        /\ loop'.next = NoTime
    BY <1>1, <2>1 DEF LoopRec
  <2>3. loop.cur \in Auths /\ loop.next \in Time
    BY <1>1, <1>11 DEF PutEntry, At, TypeInv, LoopTypes, LoopRec
  <2>4. Floored(heap')
    BY <1>1, <1>11, <2>3, PutFloor DEF PutEntry, TimerInv
  <2>5. UNCHANGED timer
    BY <1>11 DEF PutEntry
  <2> QED BY <2>2, <2>4, <2>5 DEF TimerInv, TimerInTime, At
<1>12. CASE ResetTimer
  <2>1. /\ loop'.lag = loop.lag /\ loop'.plan = loop.plan /\ loop'.next = loop.next
        /\ heap' = heap /\ timer' = Armed(heap, loop.lag)
    BY <1>1, <1>12 DEF ResetTimer, Goto, ManagerAndWorkers, LoopRec
  <2>2. /\ timer' \in Nat \cup {NoTime}
        /\ DOMAIN heap # {} =>
             /\ timer' # NoTime
             /\ \A a \in DOMAIN heap : timer' <= Max({0, heap[a] + loop.lag})
    BY <1>1, <2>1, ArmedInTime DEF TimerInv
  <2> QED BY <2>1, <2>2 DEF TimerInv, TimerInTime
<1> QED
  BY <1>3, <1>4, <1>5, <1>7, <1>8, <1>9, <1>10, <1>11, <1>12 DEF Loop

LEMMA TickTimer == ASSUME TypeInv, TimerInv, Tick PROVE TimerInv'
<1>1. /\ loop.lag \in Nat /\ MaxLag \in Nat /\ NoTime \notin Int /\ loop.next \in Time
      /\ timer \in Nat \cup {NoTime} /\ loop.lag <= MaxLag
  BY DelaysAssumption DEF TypeInv, LoopTypes, LoopRec, TimerInv
<1>2. /\ loop'.pc = loop.pc /\ loop'.next = Less(loop.next)
      /\ DOMAIN loop'.plan = DOMAIN loop.plan
      /\ \A a \in DOMAIN loop.plan : loop'.plan[a] = Less(loop.plan[a])
  BY TickLoop
<1>3. loop'.lag = IF Busy THEN loop.lag + 1 ELSE loop.lag
  BY DEF Tick, TypeInv, LoopTypes, LoopRec
<1>4. loop'.lag <= MaxLag
  <2>1. Busy => loop.lag < MaxLag
    BY DEF Tick
  <2> HIDE DEF Busy
  <2> QED BY <1>1, <1>3, <2>1
<1>5. ASSUME NEW t \in Int PROVE Less(t) \in Int /\ Less(t) >= 0 - MaxLag /\ Less(t) >= t - 1
  BY <1>1, LessFacts DEF Time
<1>6. /\ \A a \in DOMAIN heap : heap[a] \in Int
      /\ \A a \in DOMAIN loop.plan : loop.plan[a] \in Int
  BY PlanFacts DEF TypeInv, HeapTypes, LoopTypes, LoopRec
<1>7. DOMAIN heap' = DOMAIN heap /\ \A a \in DOMAIN heap : heap'[a] = Less(heap[a])
  BY DEF Tick
<1>8. Floored(heap)' /\ Floored(loop.plan)'
  BY <1>2, <1>5, <1>6, <1>7 DEF Floored
<1>9. loop'.next # NoTime => loop'.next >= 0 - MaxLag
  BY <1>1, <1>2, <1>5, LessFacts DEF Time
<1>10. timer' = IF timer = NoTime THEN NoTime ELSE IF timer - 1 >= 0 THEN timer - 1 ELSE 0
  <2>1. timer' = IF timer = NoTime THEN NoTime ELSE Max({timer - 1, 0})
    BY DEF Tick
  <2>2. CASE timer # NoTime
    <3>1. timer - 1 \in Int
      BY <1>1, <2>2
    <3>2. Max({timer - 1, 0}) = IF timer - 1 >= 0 THEN timer - 1 ELSE 0
      BY <3>1, MaxOfTwo
    <3> QED BY <2>1, <2>2, <3>2
  <2> QED BY <2>1, <2>2
<1>11. TimerInTime'
  <2> SUFFICES ASSUME loop.pc = "select", DOMAIN heap # {}
               PROVE  timer' # NoTime /\ \A a \in DOMAIN heap :
                        timer' <= Max({0, heap'[a] + loop.lag})
    BY <1>2, <1>3, <1>7 DEF TimerInTime, At, Busy
  <2>1. timer # NoTime /\ \A a \in DOMAIN heap : timer <= Max({0, heap[a] + loop.lag})
    BY DEF TimerInv, TimerInTime, At
  <2>2. ASSUME NEW a \in DOMAIN heap PROVE timer' <= Max({0, heap'[a] + loop.lag})
    <3>1. Max({0, heap[a] + loop.lag}) = IF 0 >= heap[a] + loop.lag THEN 0 ELSE heap[a] + loop.lag
      BY <1>1, <1>6, MaxOfTwo
    <3>2. heap'[a] \in Int /\ heap'[a] >= heap[a] - 1
      BY <1>5, <1>6, <1>7
    <3>3. Max({0, heap'[a] + loop.lag}) =
            IF 0 >= heap'[a] + loop.lag THEN 0 ELSE heap'[a] + loop.lag
      BY <1>1, <3>2, MaxOfTwo
    <3> QED BY <1>1, <1>6, <1>10, <2>1, <3>1, <3>2, <3>3
  <2> QED BY <1>1, <1>10, <2>1, <2>2
<1> QED BY <1>1, <1>4, <1>8, <1>9, <1>10, <1>11 DEF TimerInv

\* Whoever else takes an entry off the heap leaves the timer early at worst.
LEMMA OthersTimer ==
  ASSUME TimerInv, UNCHANGED <<loop, timer>>,
         \A a \in DOMAIN heap' : a \in DOMAIN heap /\ heap'[a] = heap[a]
  PROVE  TimerInv'
BY DEF TimerInv, TimerInTime, At, Floored

LEMMA NextTimer == TypeInv /\ TimerInv /\ [Next]_vars => TimerInv'
<1> SUFFICES ASSUME TypeInv, TimerInv, [Next]_vars PROVE TimerInv'
  OBVIOUS
<1>1. CASE UNCHANGED <<loop, timer, heap>>
  BY <1>1, OthersTimer
<1>2. ASSUME NEW w \in Workers, Worker(w) PROVE UNCHANGED <<loop, timer, heap>>
  BY <1>2 DEF Worker, Take, ReadAuth, Refreshed, RefreshFailed, RefreshCanceled, WorkerMark,
     WorkerSignal, LoopState
<1>3. ASSUME NEW c \in Callers, Caller(c) PROVE TimerInv'
  <2>1. CASE CallerMark(c) \/ CallerSignal(c)
    BY <1>1, <2>1 DEF CallerMark, CallerSignal, LoopState
  <2>2. CASE Unschedule(c)
    BY <2>2, OthersTimer DEF Unschedule, Put
  <2> QED BY <1>3, <2>1, <2>2 DEF Caller
<1>4. ASSUME NEW c \in Callers, NEW a \in Auths,
             Delete(c, a) \/ (\E lifetime \in Lifetimes : Store(c, a, lifetime))
      PROVE  UNCHANGED <<loop, timer, heap>>
  BY <1>4 DEF Delete, Store, LoopState
<1>5. ASSUME NEW a \in Auths, NEW denied \in BOOLEAN, MarkResult(a, denied)
      PROVE  UNCHANGED <<loop, timer, heap>>
  BY <1>5 DEF MarkResult, LoopState
<1>6. CASE UNCHANGED vars
  BY <1>1, <1>6 DEF vars
<1> QED
  BY <1>1, <1>2, <1>3, <1>4, <1>5, <1>6, LoopTimer, TickTimer DEF Next

\* When the loop waits it wakes in time for the first entry of the heap,
\* however old the now was that the timer was set with.
THEOREM TimerNeverLate == Spec => []TimerInTime
<1>1. Init => TimerInv
  BY DelaysAssumption DEF Init, IdleLoop, EmptyPlan, TimerInv, TimerInTime, At, Floored
<1>2. TimerInv => TimerInTime
  BY DEF TimerInv
<1> QED BY <1>1, <1>2, InitTypes, NextTypes, NextTimer, PTL DEF Spec

-----------------------------------------------------------------------------
(* Times stay in their range                                                *)

LEMMA LongestDelay ==
  /\ MaxDelay \in Nat
  /\ Pending <= MaxDelay /\ Backoff <= MaxDelay /\ Ineffective <= MaxDelay
  /\ \A t \in Lifetimes : t # NoTime => t \in Nat /\ t <= MaxDelay
<1> DEFINE T == {Pending, Backoff, Ineffective} \cup (Lifetimes \ {NoTime})
<1>1. T \in SUBSET Nat /\ T # {}
  BY DelaysAssumption
<1>2. IsFiniteSet(T)
  <2>1. IsFiniteSet({Pending, Backoff, Ineffective})
    <3>1. IsFiniteSet({Pending}) /\ IsFiniteSet({Backoff}) /\ IsFiniteSet({Ineffective})
      BY FS_Singleton
    <3>2. IsFiniteSet({Pending} \cup {Backoff})
      BY <3>1, FS_Union
    <3>3. IsFiniteSet(({Pending} \cup {Backoff}) \cup {Ineffective})
      BY <3>1, <3>2, FS_Union
    <3>4. {Pending, Backoff, Ineffective} = ({Pending} \cup {Backoff}) \cup {Ineffective}
      OBVIOUS
    <3> QED BY <3>3, <3>4
  <2>2. IsFiniteSet(Lifetimes \ {NoTime})
    BY DelaysAssumption, FS_Subset
  <2> QED BY <2>1, <2>2, FS_Union
<1>3. PICK x \in T : \A y \in T : x >= y
  BY <1>1, <1>2, GreatestExists
<1>4. Max(T) \in T /\ \A y \in T : Max(T) >= y
  BY <1>3 DEF Max
<1> QED BY <1>1, <1>4 DEF MaxDelay

LEMMA TimesMeans ==
  \A t : t \in Times <=> t = NoTime \/ (t \in Int /\ 0 - MaxLag <= t /\ t <= MaxDelay)
BY LongestDelay, DelaysAssumption DEF Times

\* Everything that keeps a time keeps one of Times.
Bounded ==
  /\ auth \in [Auths -> AuthRec \cup {NoAuth}]
  /\ \A a \in DOMAIN heap : heap[a] \in Times
  /\ \A a \in DOMAIN loop.plan : loop.plan[a] \in Times
  /\ loop.next \in Times
  /\ wake \in BOOLEAN /\ excused \subseteq Auths /\ Len(jobs) <= JobsCap

LEMMA CheckInTimes ==
  ASSUME NEW r \in AuthRec \cup {NoAuth}, NEW lag \in Nat, lag <= MaxLag
  PROVE  NextCheck(r, lag) \in Times
<1>1. CASE r = NoAuth
  BY <1>1, TimesMeans DEF NextCheck
<1>2. CASE r # NoAuth
  <2>1. r.after \in Times /\ r.due \in Times
    BY <1>2 DEF AuthRec
  <2>2. /\ r.after = NoTime \/ (r.after \in Int /\ 0 - MaxLag <= r.after /\ r.after <= MaxDelay)
        /\ r.due = NoTime \/ (r.due \in Int /\ 0 - MaxLag <= r.due /\ r.due <= MaxDelay)
    BY <2>1, TimesMeans
  <2>3. r.due # NoTime => Max({r.due, 0 - lag}) = IF r.due >= 0 - lag THEN r.due ELSE 0 - lag
    BY <2>2, MaxOfTwo
  <2>4. \/ NextCheck(r, lag) \in {NoTime, r.after}
        \/ r.due # NoTime /\ NextCheck(r, lag) = IF r.due >= 0 - lag THEN r.due ELSE 0 - lag
    BY <1>2, <2>3 DEF NextCheck
  <2>5. \/ NextCheck(r, lag) = NoTime
        \/ /\ NextCheck(r, lag) \in Int
           /\ 0 - MaxLag <= NextCheck(r, lag) /\ NextCheck(r, lag) <= MaxDelay
    BY <2>2, <2>4, LongestDelay, DelaysAssumption
  <2> QED BY <2>5, TimesMeans
<1> QED BY <1>1, <1>2

LEMMA LessInTimes == ASSUME NEW t \in Times PROVE Less(t) \in Times
<1>1. t = NoTime \/ (t \in Int /\ 0 - MaxLag <= t /\ t <= MaxDelay)
  BY TimesMeans
<1>2. t # NoTime => Less(t) = IF t - 1 >= 0 - MaxLag THEN t - 1 ELSE 0 - MaxLag
  BY <1>1, LessFacts DEF Time
<1>3. CASE t # NoTime
  <2>1. Less(t) \in Int /\ 0 - MaxLag <= Less(t) /\ Less(t) <= MaxDelay
    BY <1>1, <1>2, <1>3, LongestDelay, DelaysAssumption
  <2> QED BY <2>1, TimesMeans
<1>4. CASE t = NoTime
  BY <1>4, TimesMeans DEF Less
<1> QED BY <1>3, <1>4

\* A step that writes one record.
LEMMA OneRecordBounded ==
  ASSUME Bounded, NEW a, NEW r \in AuthRec, auth' = [auth EXCEPT ![a] = r],
         UNCHANGED <<heap, loop, jobs>>, wake' \in BOOLEAN, excused' \subseteq Auths
  PROVE  Bounded'
<1>1. auth' \in [Auths -> AuthRec \cup {NoAuth}]
  BY DEF Bounded
<1> QED BY <1>1 DEF Bounded

\* A step of the loop that changes no record.
LEMMA LoopStepBounded ==
  ASSUME Bounded, UNCHANGED <<auth, heap, excused>>, loop'.plan = loop.plan,
         loop'.next \in Times, wake' \in BOOLEAN, Len(jobs') <= JobsCap
  PROVE  Bounded'
BY DEF Bounded

LEMMA LoopBounded == ASSUME TypeInv, TimerInv, Bounded, Loop PROVE Bounded'
<1>1. /\ loop \in LoopRec /\ loop.lag \in Nat /\ loop.lag <= MaxLag /\ loop.next \in Times
      /\ auth \in [Auths -> AuthRec \cup {NoAuth}] /\ MaxLag \in Nat /\ NoTime \in Times
      /\ wake \in BOOLEAN /\ excused \subseteq Auths /\ Len(jobs) <= JobsCap
  BY DelaysAssumption, TimesMeans DEF TypeInv, LoopTypes, LoopRec, TimerInv, Bounded
<1>2. \A a \in Auths : NextCheck(auth[a], loop.lag) \in Times
  BY <1>1, CheckInTimes
<1>3. CASE RebuildRead
  <2> DEFINE plan == [a \in {b \in Auths : NextCheck(auth[b], loop.lag) # NoTime}
                        |-> NextCheck(auth[a], loop.lag)]
  <2>1. \A a \in DOMAIN plan : plan[a] \in Times
    BY <1>2
  <2>2. loop' = [loop EXCEPT !.pc = "install", !.plan = plan]
    BY <1>3 DEF RebuildRead
  <2> HIDE DEF plan
  <2>3. loop'.plan = plan /\ loop'.next = loop.next
    BY <1>1, <2>2 DEF LoopRec
  <2>4. UNCHANGED <<auth, heap, wake, excused, jobs>>
    BY <1>3 DEF RebuildRead, ManagerAndWorkers
  <2> QED BY <2>1, <2>3, <2>4 DEF Bounded
<1>4. CASE RebuildInstall
  <2>1. heap' = loop.plan /\ loop'.plan = EmptyPlan /\ loop'.next = loop.next
    BY <1>1, <1>4 DEF RebuildInstall, LoopRec
  <2>2. UNCHANGED <<auth, wake, excused, jobs>> /\ DOMAIN EmptyPlan = {}
    BY <1>4 DEF RebuildInstall, ManagerAndWorkers, EmptyPlan
  <2> QED BY <2>1, <2>2 DEF Bounded
<1>5. CASE OnWake \/ OnTimer
  <2>1. loop'.plan = loop.plan /\ loop'.next = loop.next
    BY <1>1, <1>5 DEF OnWake, OnTimer, LoopRec
  <2>2. \A a \in DOMAIN heap' : a \in DOMAIN heap /\ heap'[a] = heap[a]
    BY <1>5 DEF OnWake, OnTimer
  <2>3. UNCHANGED <<auth, excused, jobs>> /\ wake' \in {wake, FALSE}
    BY <1>5 DEF OnWake, OnTimer, ManagerAndWorkers
  <2> QED BY <2>1, <2>2, <2>3 DEF Bounded
<1>6. ASSUME NEW a \in Auths, Examine(a) \/ ApplyRead(a) PROVE Bounded'
  <2> DEFINE n == NextCheck(auth[a], loop.lag)
  <2>1. n \in Times /\ UNCHANGED <<auth, heap, wake, excused, jobs>>
    BY <1>2, <1>6 DEF Examine, ApplyRead, ManagerAndWorkers
  <2>2. loop'.next = n /\ loop'.plan = loop.plan
    <3>1. CASE Examine(a)
      BY <1>1, <3>1 DEF Examine, LoopRec
    <3>2. CASE ApplyRead(a)
      BY <1>1, <3>2 DEF ApplyRead, LoopRec
    <3> QED BY <1>6, <3>1, <3>2
  <2> QED BY <1>1, <2>1, <2>2, LoopStepBounded
<1>7. CASE MarkPending
  <2> DEFINE a == loop.cur
             t == Pending - loop.lag
  <2>1. a \in Auths /\ auth[a] # NoAuth
    BY <1>7 DEF MarkPending, At, MayMark, TypeInv, LoopTypes
  <2>2. t \in Times
    <3>1. t \in Int /\ 0 - MaxLag <= t /\ t <= MaxDelay
      BY <1>1, LongestDelay, DelaysAssumption
    <3> QED BY <3>1, TimesMeans
  <2>3. auth' = [auth EXCEPT ![a] = [auth[a] EXCEPT !.after = t]]
    BY <1>1, <1>7, <2>1 DEF MarkPending
  <2>4. excused' \subseteq Auths /\ wake' \in BOOLEAN /\ UNCHANGED <<heap, jobs>>
    BY <1>1, <1>7, <2>1 DEF MarkPending, Signal
  <2>5. loop'.plan = loop.plan /\ loop'.next = loop.next
    BY <1>1, <1>7 DEF MarkPending, Goto, LoopRec
  <2> HIDE DEF a, t
  <2>6. [auth[a] EXCEPT !.after = t] \in AuthRec
    <3>1. auth[a] \in AuthRec
      BY <1>1, <2>1
    <3> QED BY <2>2, <3>1 DEF AuthRec
  <2>7. auth' \in [Auths -> AuthRec \cup {NoAuth}]
    BY <1>1, <2>3, <2>6
  <2> QED BY <1>1, <2>4, <2>5, <2>7 DEF Bounded
<1>8. CASE MarkRefused \/ DueDone \/ DrainDirty \/ ResetTimer
  <2>1. loop'.plan = loop.plan /\ loop'.next = loop.next
    BY <1>1, <1>8 DEF MarkRefused, DueDone, DrainDirty, ResetTimer, Goto, LoopRec
  <2>2. UNCHANGED <<auth, heap, wake, excused, jobs>>
    BY <1>8 DEF MarkRefused, DueDone, DrainDirty, ResetTimer, ManagerAndWorkers
  <2> QED BY <1>1, <2>1, <2>2, LoopStepBounded
<1>9. CASE Reread
  <2>1. loop.cur \in Auths
    BY <1>9 DEF Reread, At, TypeInv, LoopTypes
  <2>2. loop'.plan = loop.plan /\ loop'.next = NextCheck(auth[loop.cur], loop.lag)
    BY <1>1, <1>9 DEF Reread, LoopRec
  <2>3. UNCHANGED <<auth, heap, wake, excused, jobs>>
    BY <1>9 DEF Reread, ManagerAndWorkers
  <2> QED BY <1>1, <1>2, <2>1, <2>2, <2>3, LoopStepBounded
<1>10. CASE Send
  <2>1. loop'.plan = loop.plan /\ loop'.next = NoTime /\ loop.cur \in Auths
    BY <1>1, <1>10 DEF Send, At, LoopRec, TypeInv, LoopTypes
  <2>2. jobs' = Append(jobs, loop.cur) /\ Len(jobs) < JobsCap /\ jobs \in Seq(Auths)
    BY <1>10 DEF Send, TypeInv, GoroutineTypes
  <2>3. Len(jobs') <= JobsCap
    BY <2>1, <2>2, DelaysAssumption
  <2>4. UNCHANGED <<auth, heap, wake, excused>>
    BY <1>10 DEF Send
  <2> QED BY <1>1, <2>1, <2>3, <2>4, LoopStepBounded
<1>11. CASE PutEntry
  <2>1. loop'.plan = loop.plan /\ loop'.next = NoTime
    BY <1>1, <1>11 DEF PutEntry, LoopRec
  <2>2. UNCHANGED <<auth, wake, excused, jobs>>
    BY <1>11 DEF PutEntry, ManagerAndWorkers
  <2>3. \A a \in DOMAIN heap' : heap'[a] \in {heap[b] : b \in DOMAIN heap} \cup {loop.next}
    BY <1>11 DEF PutEntry, Put
  <2>4. \A a \in DOMAIN heap' : heap'[a] \in Times
    BY <1>1, <2>3 DEF Bounded
  <2> QED BY <1>1, <2>1, <2>2, <2>4 DEF Bounded
<1> QED
  BY <1>3, <1>4, <1>5, <1>6, <1>7, <1>8, <1>9, <1>10, <1>11 DEF Loop

LEMMA FreshIsBounded == ASSUME NEW lifetime \in Lifetimes PROVE Fresh(lifetime) \in AuthRec
<1>1. Lifetimes \subseteq Times /\ NoTime \in Times /\ Ineffective \in Times
  BY LongestDelay, TimesMeans, DelaysAssumption
<1> QED BY <1>1 DEF Fresh, AuthRec

LEMMA WorkerBounded == ASSUME TypeInv, Bounded, NEW w \in Workers, Worker(w) PROVE Bounded'
<1>1. /\ auth \in [Auths -> AuthRec \cup {NoAuth}] /\ excused \subseteq Auths
      /\ wake \in BOOLEAN /\ Len(jobs) <= JobsCap
  BY DEF Bounded
<1>2. \A a : Ended(a) => excused' \subseteq Auths
  BY <1>1 DEF Ended
<1>3. CASE Take(w)
  <2>1. jobs \in Seq(Auths) /\ jobs # <<>> /\ jobs' = Tail(jobs)
    BY <1>3 DEF Take, TypeInv, GoroutineTypes
  <2>2. Len(jobs') <= JobsCap
    BY <1>1, <2>1, DelaysAssumption
  <2>3. UNCHANGED <<auth, heap, loop, wake, excused>>
    BY <1>3 DEF Take, LoopState
  <2> QED BY <2>2, <2>3 DEF Bounded
<1>4. CASE ReadAuth(w) \/ WorkerMark(w) \/ WorkerSignal(w)
  <2>1. UNCHANGED <<auth, heap, loop, excused, jobs>> /\ wake' \in {wake, TRUE}
    BY <1>4 DEF ReadAuth, WorkerMark, WorkerSignal, Signal, LoopState
  <2> QED BY <1>1, <2>1 DEF Bounded
<1>5. CASE RefreshCanceled(w)
  <2>1. UNCHANGED <<auth, heap, loop, wake, jobs>> /\ excused' \subseteq Auths
    BY <1>2, <1>5 DEF RefreshCanceled, LoopState
  <2> QED BY <2>1 DEF Bounded
<1>6. ASSUME NEW lifetime \in Lifetimes, Refreshed(w, lifetime) PROVE Bounded'
  <2>1. UNCHANGED <<heap, loop, wake, jobs>> /\ excused' \subseteq Auths
    BY <1>2, <1>6 DEF Refreshed, LoopState
  <2>2. auth' = auth \/ auth' = [auth EXCEPT ![worker[w].auth] = Fresh(lifetime)]
    BY <1>6 DEF Refreshed
  <2>3. CASE auth' = auth
    BY <2>1, <2>3 DEF Bounded
  <2>4. CASE auth' = [auth EXCEPT ![worker[w].auth] = Fresh(lifetime)]
    BY <1>1, <2>1, <2>4, FreshIsBounded, OneRecordBounded
  <2> QED BY <2>2, <2>3, <2>4
<1>7. ASSUME NEW denied \in BOOLEAN, RefreshFailed(w, denied) PROVE Bounded'
  <2> DEFINE a == worker[w].auth
             t == IF denied THEN NoTime ELSE Backoff
  <2>1. UNCHANGED <<heap, loop, wake, jobs>> /\ excused' \subseteq Auths
    BY <1>2, <1>7 DEF RefreshFailed, LoopState
  <2>2. a \in Auths
    BY <1>7 DEF RefreshFailed, TypeInv, GoroutineTypes
  <2>3. \/ auth' = auth
        \/ /\ auth[a] # NoAuth
           /\ auth' = [auth EXCEPT ![a] = [auth[a] EXCEPT !.denied = denied, !.after = t]]
    BY <1>1, <1>7, <2>2 DEF RefreshFailed
  <2>4. t \in Times
    BY LongestDelay, TimesMeans, DelaysAssumption
  <2> HIDE DEF a, t
  <2>5. CASE auth' = auth
    BY <2>1, <2>5 DEF Bounded
  <2>6. CASE auth' # auth
    <3> DEFINE r == [auth[a] EXCEPT !.denied = denied, !.after = t]
    <3>1. auth[a] \in AuthRec /\ auth' = [auth EXCEPT ![a] = r]
      BY <1>1, <2>2, <2>3, <2>6
    <3>2. r \in AuthRec
      BY <2>4, <3>1 DEF AuthRec
    <3> HIDE DEF r
    <3> QED BY <1>1, <2>1, <3>1, <3>2, OneRecordBounded
  <2> QED BY <2>5, <2>6
<1> QED BY <1>3, <1>4, <1>5, <1>6, <1>7 DEF Worker

LEMMA ApiBounded ==
  ASSUME Bounded, NEW c \in Callers, NEW a \in Auths,
         Delete(c, a) \/ (\E lifetime \in Lifetimes : Store(c, a, lifetime))
  PROVE  Bounded'
<1>1. auth \in [Auths -> AuthRec \cup {NoAuth}] /\ excused \subseteq Auths /\ wake \in BOOLEAN
  BY DEF Bounded
<1>2. CASE Delete(c, a)
  <2>1. auth' \in [Auths -> AuthRec \cup {NoAuth}]
    BY <1>1, <1>2 DEF Delete
  <2>2. UNCHANGED <<heap, loop, wake, jobs, excused>>
    BY <1>2 DEF Delete, LoopState
  <2> QED BY <2>1, <2>2 DEF Bounded
<1>3. ASSUME NEW lifetime \in Lifetimes, Store(c, a, lifetime) PROVE Bounded'
  <2> DEFINE fresh == [denied |-> FALSE, after |-> NoTime, due |-> lifetime]
             kept == IF auth[a] = NoAuth THEN {}
                     ELSE {auth[a], [fresh EXCEPT !.after = auth[a].after]}
  <2>1. Lifetimes \subseteq Times /\ NoTime \in Times
    BY LongestDelay, TimesMeans, DelaysAssumption
  <2>2. fresh \in AuthRec
    BY <2>1 DEF AuthRec
  <2>3. ASSUME auth[a] # NoAuth PROVE [fresh EXCEPT !.after = auth[a].after] \in AuthRec
    <3>1. auth[a] \in AuthRec
      BY <1>1, <2>3
    <3>2. auth[a].after \in Times
      BY <3>1 DEF AuthRec
    <3> QED BY <2>2, <3>2 DEF AuthRec
  <2>4. \A r \in {fresh} \cup kept : r \in AuthRec
    BY <1>1, <2>2, <2>3
  <2>5. PICK r \in {fresh} \cup kept :
          /\ auth' = [auth EXCEPT ![a] = r]
          /\ excused' \in {excused, excused \cup {a}}
    BY <1>3 DEF Store
  <2> HIDE DEF fresh, kept
  <2>6. UNCHANGED <<heap, loop, wake, jobs>> /\ excused' \subseteq Auths /\ r \in AuthRec
    BY <1>1, <1>3, <2>4, <2>5 DEF Store, LoopState
  <2> QED BY <1>1, <2>5, <2>6, OneRecordBounded
<1> QED BY <1>2, <1>3

LEMMA CallerBounded == ASSUME Bounded, NEW c \in Callers, Caller(c) PROVE Bounded'
<1>1. CASE CallerMark(c) \/ CallerSignal(c)
  <2>1. UNCHANGED <<auth, heap, loop, jobs, excused>> /\ wake' \in {wake, TRUE}
    BY <1>1 DEF CallerMark, CallerSignal, Signal, LoopState
  <2> QED BY <2>1 DEF Bounded
<1>2. CASE Unschedule(c)
  <2>1. UNCHANGED <<auth, loop, wake, jobs, excused>>
    BY <1>2 DEF Unschedule
  <2>2. \A a \in DOMAIN heap' : a \in DOMAIN heap /\ heap'[a] = heap[a]
    BY <1>2 DEF Unschedule, Put
  <2> QED BY <2>1, <2>2 DEF Bounded
<1> QED BY <1>1, <1>2 DEF Caller

LEMMA ResultBounded ==
  ASSUME Bounded, NEW a \in Auths, NEW denied \in BOOLEAN, MarkResult(a, denied) PROVE Bounded'
<1>1. /\ auth \in [Auths -> AuthRec \cup {NoAuth}] /\ excused \subseteq Auths
      /\ wake \in BOOLEAN
  BY DEF Bounded
<1> DEFINE r == [auth[a] EXCEPT !.denied = denied]
<1>2. auth[a] \in AuthRec /\ auth' = [auth EXCEPT ![a] = r]
  BY <1>1 DEF MarkResult
<1>3. r \in AuthRec
  BY <1>2 DEF AuthRec
<1>4. UNCHANGED <<heap, loop, wake, jobs, excused>>
  BY DEF MarkResult, LoopState
<1> HIDE DEF r
<1> QED BY <1>1, <1>2, <1>3, <1>4, OneRecordBounded

LEMMA TickBounded == ASSUME TypeInv, Bounded, Tick PROVE Bounded'
<1>1. ASSUME NEW a \in Auths PROVE auth'[a] \in AuthRec \cup {NoAuth}
  <2>1. auth'[a] = IF auth[a] = NoAuth THEN NoAuth
                   ELSE [auth[a] EXCEPT !.after = Less(@), !.due = Less(@)]
    BY DEF Tick
  <2>2. CASE auth[a] # NoAuth
    <3>1. auth[a] \in AuthRec
      BY <2>2 DEF Bounded
    <3>2. Less(auth[a].after) \in Times /\ Less(auth[a].due) \in Times
      BY <3>1, LessInTimes DEF AuthRec
    <3>3. [auth[a] EXCEPT !.after = Less(@), !.due = Less(@)] \in AuthRec
      BY <3>1, <3>2 DEF AuthRec
    <3> QED BY <2>1, <2>2, <3>3
  <2> QED BY <2>1, <2>2
<1>2. auth' = [a \in Auths |-> auth'[a]]
  BY DEF Tick
<1>3. auth' \in [Auths -> AuthRec \cup {NoAuth}]
  BY <1>1, <1>2
<1>4. DOMAIN heap' = DOMAIN heap /\ \A a \in DOMAIN heap : heap'[a] = Less(heap[a])
  BY DEF Tick
<1>5. /\ loop'.next = Less(loop.next) /\ DOMAIN loop'.plan = DOMAIN loop.plan
      /\ \A a \in DOMAIN loop.plan : loop'.plan[a] = Less(loop.plan[a])
  BY TickLoop
<1>6. excused' \subseteq Auths /\ UNCHANGED <<wake, jobs>>
  BY DEF Tick, Bounded
<1> QED BY <1>3, <1>4, <1>5, <1>6, LessInTimes DEF Bounded

LEMMA NextBounded == TypeInv /\ TimerInv /\ Bounded /\ [Next]_vars => Bounded'
<1> SUFFICES ASSUME TypeInv, TimerInv, Bounded, [Next]_vars PROVE Bounded'
  OBVIOUS
<1>1. CASE UNCHANGED vars
  BY <1>1 DEF vars, Bounded
<1> QED
  BY <1>1, LoopBounded, TickBounded, WorkerBounded, ApiBounded, CallerBounded, ResultBounded DEF Next

\* Every time the loop and the records hold stays within the longest delay and
\* the oldest round, the loop's round among them, the jobs fit their channel,
\* and only scheduled credentials have an entry.
THEOREM TypeCorrect == Spec => []TypeOK
<1>1. Init => TimerInv
  BY DelaysAssumption DEF Init, IdleLoop, EmptyPlan, TimerInv, TimerInTime, At, Floored
<1>2. Init => Bounded
  <2> SUFFICES ASSUME Init PROVE Bounded
    OBVIOUS
  <2>1. Lifetimes \subseteq Times /\ NoTime \in Times
    BY LongestDelay, TimesMeans, DelaysAssumption
  <2>2. auth \in [Auths -> AuthRec \cup {NoAuth}]
    <3>1. \A t \in Lifetimes : [denied |-> FALSE, after |-> NoTime, due |-> t] \in AuthRec
      BY <2>1 DEF AuthRec
    <3> QED BY <3>1 DEF Init
  <2>3. loop.plan = EmptyPlan /\ loop.next = NoTime /\ heap = EmptyPlan
    BY DEF Init, IdleLoop
  <2>4. wake \in BOOLEAN /\ excused \subseteq Auths /\ Len(jobs) <= JobsCap
    <3>1. jobs = <<>> /\ excused = {} /\ wake = FALSE
      BY DEF Init
    <3>2. Len(jobs) = 0 /\ 0 <= JobsCap
      BY <3>1, DelaysAssumption
    <3> QED BY <3>1, <3>2
  <2>5. DOMAIN EmptyPlan = {}
    BY DEF EmptyPlan
  <2> QED BY <2>1, <2>2, <2>3, <2>4, <2>5 DEF Bounded
<1>3. TypeInv /\ TimerInv /\ Bounded => TypeOK
  <2> SUFFICES ASSUME TypeInv, TimerInv, Bounded PROVE TypeOK
    OBVIOUS
  <2>1. DOMAIN heap \subseteq Auths /\ \A a \in DOMAIN heap : heap[a] \in Times \ {NoTime}
    BY PlanFacts, DelaysAssumption DEF TypeInv, HeapTypes, Bounded
  <2>2. /\ loop.due \subseteq Auths /\ loop.drained \subseteq Auths
        /\ loop.lag \in 0 .. MaxLag
    BY DelaysAssumption DEF TypeInv, LoopTypes, LoopRec, TimerInv
  <2> QED BY <2>1, <2>2 DEF TypeOK, TypeInv, SetTypes, TimerInv, Bounded
<1> QED
  BY <1>1, <1>2, <1>3, InitTypes, NextTypes, NextTimer, NextBounded, PTL DEF Spec

=============================================================================
