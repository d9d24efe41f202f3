--------------------------- MODULE ModelRegistry ---------------------------
(***************************************************************************)
(* The registry of models (internal/registry/model_registry.go): which     *)
(* client offers which model for which provider, how many registrations a  *)
(* model has in all and per provider, which clients have spent their quota *)
(* of it or are suspended from it, and the cached listing of what is       *)
(* available.                                                              *)
(*                                                                         *)
(* Every operation holds the registry's mutex from its first to its last   *)
(* write and is one action.  Two things are spread over several steps: the *)
(* calls a result makes, one critical section each (conductor.go:3064),    *)
(* and a listing, whose clock is read before the mutex is taken.           *)
(*                                                                         *)
(* A model without registrations is deleted from the map; here it is       *)
(* NoRegistration.  The metadata of a model is reduced to whose provider   *)
(* it is kept for, the list of a client's models to how often it names     *)
(* each of them.                                                           *)
(***************************************************************************)
EXTENDS Naturals, Sequences, FiniteSets, Functions

CONSTANTS Clients, Models, Providers, None,
          Results,      \* goroutines that report the result of a request
          MaxCopies,    \* how often one client may list one model
          Window,       \* modelQuotaExceededWindow
          MaxTime       \* bound of the clock

ASSUME RegistryAssumption ==
    /\ {MaxCopies, Window} \subseteq Nat \ {0} /\ MaxTime \in Nat
    /\ IsFiniteSet(Clients)   \* a map has finitely many entries
    /\ None \notin Clients \cup Models \cup Providers \cup Nat

VARIABLES models, clientModels, clientProviders, cache, now,
          calls         \* calls[r]: the calls the result of r still makes

vars == <<models, clientModels, clientProviders, cache, now, calls>>

Reasons == {"quota", "other"}

NoRegistration ==
    [count |-> 0, providers |-> [p \in Providers |-> 0], info |-> {},
     quota |-> [c \in Clients |-> None], suspended |-> [c \in Clients |-> None]]

NoCache == [valid |-> FALSE]

NoModels == [m \in Models |-> 0]

-----------------------------------------------------------------------------
(* One model's registration.                                               *)

\* n registrations fewer for provider p, whose metadata goes with the last.
Fewer(reg, p, n) ==
    IF p = None THEN reg
    ELSE LET left == IF reg.providers[p] <= n THEN 0 ELSE reg.providers[p] - n
         IN [reg EXCEPT !.providers[p] = left,
                        !.info = IF left = 0 THEN @ \ {p} ELSE @]

\* n calls of addModelRegistration.
Added(reg, p, n) ==
    LET more == [reg EXCEPT !.count = @ + n]
    IN IF p = None THEN more
       ELSE [more EXCEPT !.providers[p] = @ + n, !.info = @ \cup {p}]

Unmarked(reg, c) == [reg EXCEPT !.quota[c] = None, !.suspended[c] = None]

\* n calls of removeModelRegistration, or the loop of unregisterClientInternal
\* over n copies: the last registration takes the model with it.
Removed(reg, c, p, n) ==
    IF n = 0 \/ reg.count = 0 THEN reg
    ELSE IF n >= reg.count THEN NoRegistration
    ELSE Fewer(Unmarked([reg EXCEPT !.count = @ - n], c), p, n)

Least(i, j) == IF i < j THEN i ELSE j

\* Mutant of Reconciled: the registrations that stay keep the provider they
\* had, only the metadata moves.
ReconciledInPlace(reg, c, old, new, oldProvider, provider) ==
    LET fewer == Removed(reg, c, oldProvider, IF old > new THEN old - new ELSE 0)
        more  == IF new > old THEN Added(fewer, provider, new - old) ELSE fewer
    IN IF new = 0 THEN more
       ELSE [Unmarked(more, c) EXCEPT
               !.info = IF provider = None THEN @ ELSE @ \cup {provider}]

(* RegisterClient for a client that was registered before, for one model   *)
(* listed old times then and new times now: the copies that stay leave the *)
(* old provider, the superfluous ones are removed, the missing ones added, *)
(* and the copies that stay join the new provider.  Marks of the client    *)
(* are dropped either way.                                                 *)
Reconciled(reg, c, old, new, oldProvider, provider) ==
    LET changed == oldProvider # provider
        staying == Least(old, new)
        left    == IF changed /\ staying > 0 THEN Fewer(reg, oldProvider, staying) ELSE reg
        fewer   == Removed(left, c, oldProvider, IF old > new THEN old - new ELSE 0)
        more    == IF new > old THEN Added(fewer, provider, new - old) ELSE fewer
        clean   == Unmarked(more, c)
    IN IF new = 0 THEN more
       ELSE IF provider = None THEN clean
       ELSE [clean EXCEPT !.info = @ \cup {provider},
                          !.providers[provider] = IF changed THEN @ + staying ELSE @]

Registered(c) == clientModels[c] # NoModels

Invalidate == cache' = NoCache

\* UnregisterClient, and RegisterClient with an empty list.
UnregisterClient(c) ==
    /\ models' = [m \in Models |->
                    Removed(models[m], c, clientProviders[c], clientModels[c][m])]
    /\ clientModels' = [clientModels EXCEPT ![c] = NoModels]
    /\ clientProviders' = [clientProviders EXCEPT ![c] = None]
    /\ Invalidate
    /\ UNCHANGED <<now, calls>>

\* The first registration of a client adds and touches no mark.
RegisterNewClient(c, provider, list) ==
    /\ ~Registered(c)
    /\ models' = [m \in Models |-> IF list[m] = 0 THEN models[m]
                                   ELSE Added(models[m], provider, list[m])]
    /\ clientModels' = [clientModels EXCEPT ![c] = list]
    /\ clientProviders' = [clientProviders EXCEPT ![c] = provider]
    /\ Invalidate
    /\ UNCHANGED <<now, calls>>

RegisterAgain(c, provider, list) ==
    /\ Registered(c)
    /\ models' = [m \in Models |->
                    Reconciled(models[m], c, clientModels[c][m], list[m],
                               clientProviders[c], provider)]
    /\ clientModels' = [clientModels EXCEPT ![c] = list]
    /\ clientProviders' = [clientProviders EXCEPT ![c] = provider]
    /\ Invalidate
    /\ UNCHANGED <<now, calls>>

Register ==
    \E c \in Clients, provider \in Providers \cup {None},
       list \in [Models -> 0 .. MaxCopies] \ {NoModels} :
        RegisterNewClient(c, provider, list) \/ RegisterAgain(c, provider, list)

Unregister == \E c \in Clients : UnregisterClient(c)

-----------------------------------------------------------------------------
(* Marks.  A result makes its calls in this order, each in a critical      *)
(* section of its own, for the client and the model it was given when it   *)
(* started: the client may have changed its models or gone meanwhile.      *)

Call(op, c, m, reason) == [op |-> op, client |-> c, model |-> m, reason |-> reason]

CallsOf(kind, c, m) ==
    CASE kind = "success" -> <<Call("clear", c, m, None), Call("resume", c, m, None)>>
      [] kind = "quota"   -> <<Call("exceeded", c, m, None), Call("suspend", c, m, "quota")>>
      [] kind = "other"   -> <<Call("suspend", c, m, "other")>>

StartResult(r) ==
    /\ calls[r] = <<>>
    /\ \E c \in Clients, m \in Models, kind \in {"success", "quota", "other"} :
          /\ clientModels[c][m] > 0
          /\ calls' = [calls EXCEPT ![r] = CallsOf(kind, c, m)]
    /\ UNCHANGED <<models, clientModels, clientProviders, cache, now>>

\* Nothing checks that the client still offers the model.
SetModelQuotaExceeded(c, m) ==
    /\ models[m].count > 0
    /\ models' = [models EXCEPT ![m].quota[c] = now]
    /\ Invalidate

ClearModelQuotaExceeded(c, m) ==
    /\ models[m].count > 0
    /\ models' = [models EXCEPT ![m].quota[c] = None]
    /\ Invalidate

\* The first reason stays.
SuspendClientModel(c, m, reason) ==
    /\ models[m].count > 0 /\ models[m].suspended[c] = None
    /\ models' = [models EXCEPT ![m].suspended[c] = reason]
    /\ Invalidate

ResumeClientModel(c, m) ==
    /\ models[m].count > 0 /\ models[m].suspended[c] # None
    /\ models' = [models EXCEPT ![m].suspended[c] = None]
    /\ Invalidate

\* A call whose early return applies.
NoEffect(call) ==
    /\ \/ models[call.model].count = 0
       \/ call.op = "suspend" /\ models[call.model].suspended[call.client] # None
       \/ call.op = "resume" /\ models[call.model].suspended[call.client] = None
    /\ UNCHANGED <<models, cache>>

MakeCall(r) ==
    /\ calls[r] # <<>>
    /\ LET call == Head(calls[r])
       IN \/ call.op = "exceeded" /\ SetModelQuotaExceeded(call.client, call.model)
          \/ call.op = "clear" /\ ClearModelQuotaExceeded(call.client, call.model)
          \/ call.op = "suspend" /\ SuspendClientModel(call.client, call.model, call.reason)
          \/ call.op = "resume" /\ ResumeClientModel(call.client, call.model)
          \/ NoEffect(call)
    /\ calls' = [calls EXCEPT ![r] = Tail(@)]
    /\ UNCHANGED <<clientModels, clientProviders, now>>

CleanupExpiredQuotas ==
    \E reg \in {[m \in Models |->
                   [models[m] EXCEPT !.quota = [c \in Clients |->
                      IF @[c] # None /\ now - @[c] >= Window THEN None ELSE @[c]]]]} :
        /\ reg # models
        /\ models' = reg
        /\ Invalidate
        /\ UNCHANGED <<clientModels, clientProviders, now, calls>>

-----------------------------------------------------------------------------
(* The listing.                                                            *)

\* Clients of provider p that still wait, at time t, for their quota of m.
Waiting(m, p, t) ==
    {c \in Clients : /\ models[m].quota[c] # None
                     /\ clientProviders[c] = p
                     /\ t < models[m].quota[c] + Window}

Suspended(m, p, reason) ==
    {c \in Clients : models[m].suspended[c] = reason /\ clientProviders[c] = p}

\* What both listings make of the number of registrations and of the marks.
Served(offers, waiting, cooling, others) ==
    \/ offers > waiting + others
    \/ offers > 0 /\ (waiting > 0 \/ cooling > 0) /\ others = 0

\* Mutant of ProviderModelAvailable: marks count whatever the provider.
AvailableAnyProvider(m, p, t) ==
    Served(models[m].providers[p],
           Cardinality(UNION {Waiting(m, q, t) : q \in Providers}),
           Cardinality(UNION {Suspended(m, q, "quota") : q \in Providers}),
           Cardinality(UNION {Suspended(m, q, "other") : q \in Providers}))

ProviderModelAvailable(m, p, t) ==
    Served(models[m].providers[p], Cardinality(Waiting(m, p, t)),
           Cardinality(Suspended(m, p, "quota")), Cardinality(Suspended(m, p, "other")))

\* When the clients counted as waiting recover.
Recoveries(t) ==
    LET counted == {mc \in Models \X Clients :
                      \E p \in Providers : models[mc[1]].providers[p] > 0
                                           /\ mc[2] \in Waiting(mc[1], p, t)}
    IN {models[mc[1]].quota[mc[2]] + Window : mc \in counted}

\* Mutant of ExpiresAt: the last recovery ends the cached listing.
ExpiresLast(t) ==
    IF Recoveries(t) = {} THEN None
    ELSE CHOOSE e \in Recoveries(t) : \A f \in Recoveries(t) : e >= f

\* The first recovery ends the cached listing.
ExpiresAt(t) ==
    IF Recoveries(t) = {} THEN None
    ELSE CHOOSE e \in Recoveries(t) : \A f \in Recoveries(t) : e <= f

BuildAvailableModels(t) ==
    {pm \in Providers \X Models : ProviderModelAvailable(pm[2], pm[1], t)}

Valid(entry, t) == entry.valid /\ (entry.expires = None \/ t < entry.expires)

\* A caller that read the clock at t, some time ago, and found no valid entry.
GetAvailableModels(t) ==
    /\ ~Valid(cache, t)
    /\ cache' = [valid |-> TRUE, listing |-> BuildAvailableModels(t), expires |-> ExpiresAt(t)]
    /\ UNCHANGED <<models, clientModels, clientProviders, now, calls>>

\* GetAvailableModelsByProvider counts over the clients instead.
Copies(m, C) == SumFunctionOnSet([c \in Clients |-> clientModels[c][m]], C)

Offers(m, p) == Copies(m, {c \in Clients : clientProviders[c] = p})

GetAvailableModelsByProvider(p) ==
    {m \in Models :
        Served(Offers(m, p), Cardinality(Waiting(m, p, now)),
               Cardinality(Suspended(m, p, "quota")), Cardinality(Suspended(m, p, "other")))}

-----------------------------------------------------------------------------
Tick ==
    /\ now < MaxTime
    /\ now' = now + 1
    /\ UNCHANGED <<models, clientModels, clientProviders, cache, calls>>

Init ==
    /\ models = [m \in Models |-> NoRegistration]
    /\ clientModels = [c \in Clients |-> NoModels]
    /\ clientProviders = [c \in Clients |-> None]
    /\ cache = NoCache
    /\ now = 0
    /\ calls = [r \in Results |-> <<>>]

Next ==
    \/ Register
    \/ Unregister
    \/ CleanupExpiredQuotas
    \/ Tick
    \/ \E r \in Results : StartResult(r) \/ MakeCall(r)
    \/ \E t \in 0 .. now : GetAvailableModels(t)

Spec == Init /\ [][Next]_vars

-----------------------------------------------------------------------------

(* The reference counts are those of the registrations: a model counts     *)
(* every copy of every client, a provider every copy of its clients, and   *)
(* metadata is kept for exactly the providers that offer the model,        *)
(* through changes of provider, duplicates and partial removals            *)
(* (RegisterClient's in-place reconciliation).                             *)
CountsExact ==
    \A m \in Models :
        /\ models[m].count = Copies(m, Clients)
        /\ \A p \in Providers : models[m].providers[p] = Offers(m, p)
        /\ models[m].info = {p \in Providers : Offers(m, p) > 0}

(* A listing served from the cache is the one a fresh build would give     *)
(* now: every change that could alter it empties the cache, its expiry is  *)
(* early enough for every quota that recovers by itself, and a builder     *)
(* whose clock was read long before it got the mutex does no harm.         *)
CacheHonest ==
    Valid(cache, now) => cache.listing = BuildAvailableModels(now)

(* The two ways to list, from the counts of the models and from the lists  *)
(* of the clients, agree on what a provider serves.                        *)
ListingsAgree ==
    \A p \in Providers, m \in Models :
        <<p, m>> \in BuildAvailableModels(now) <=> m \in GetAvailableModelsByProvider(p)

=============================================================================
