---------------------------- MODULE RegistryProofs ----------------------------
(***************************************************************************)
(* Proofs about ModelRegistry, for any clients, models, providers, numbers *)
(* of copies, goroutines and any length of the window: its counts are sums *)
(* over the lists of its clients, and its cached listing is a current one. *)
(***************************************************************************)
EXTENDS ModelRegistry, SetLemmas

-----------------------------------------------------------------------------
(* Registrations.                                                          *)

Reg == [count : Nat, providers : [Providers -> Nat], info : SUBSET Providers,
        quota : [Clients -> Nat \cup {None}], suspended : [Clients -> Reasons \cup {None}]]

\* Metadata is kept for the providers with registrations.
Tallied(reg) == reg.info = {p \in Providers : reg.providers[p] > 0}

\* What each helper does to the counts.
Share(p, q, n) == IF q = p THEN n ELSE 0

\* The registration counts n copies of a client of p among others.
Holds(reg, p, n) ==
    /\ n <= reg.count
    /\ p # None => reg.providers[p] >= n
    /\ \A q \in Providers : reg.providers[q] - Share(p, q, n) <= reg.count - n

LEMMA NoRegistrationFacts ==
    /\ NoRegistration \in Reg /\ Tallied(NoRegistration) /\ NoRegistration.count = 0
    /\ \A q \in Providers : NoRegistration.providers[q] = 0
BY DEF NoRegistration, Reg, Tallied

LEMMA FewerFacts ==
    ASSUME NEW reg \in Reg, Tallied(reg), NEW p \in Providers \cup {None}, NEW n \in Nat,
           p # None => reg.providers[p] >= n
    PROVE  /\ Fewer(reg, p, n) \in Reg /\ Tallied(Fewer(reg, p, n))
           /\ Fewer(reg, p, n).count = reg.count
           /\ \A q \in Providers :
                Fewer(reg, p, n).providers[q] = reg.providers[q] - Share(p, q, n)
<1>1. CASE p = None
  BY <1>1, RegistryAssumption DEF Fewer, Reg, Share
<1>2. CASE p # None
  <2> DEFINE left == IF reg.providers[p] <= n THEN 0 ELSE reg.providers[p] - n
  <2>1. left \in Nat /\ left = reg.providers[p] - n
    BY <1>2 DEF Reg
  <2>2. Fewer(reg, p, n) = [reg EXCEPT !.providers[p] = left,
                                       !.info = IF left = 0 THEN @ \ {p} ELSE @]
    BY <1>2 DEF Fewer
  <2> HIDE DEF left
  <2> DEFINE fewer == [reg.providers EXCEPT ![p] = left]
             kept == IF left = 0 THEN reg.info \ {p} ELSE reg.info
  <2>3. fewer \in [Providers -> Nat] /\ kept \in SUBSET Providers
    BY <2>1 DEF Reg
  <2>4. Fewer(reg, p, n) = [reg EXCEPT !.providers = fewer, !.info = kept]
    BY <2>2 DEF Reg
  <2>5. /\ Fewer(reg, p, n) \in Reg /\ Fewer(reg, p, n).count = reg.count
        /\ Fewer(reg, p, n).providers = fewer /\ Fewer(reg, p, n).info = kept
    <3> HIDE DEF fewer, kept
    <3> QED BY <2>3, <2>4 DEF Reg
  <2>6. /\ Fewer(reg, p, n) \in Reg /\ Fewer(reg, p, n).count = reg.count
        /\ Fewer(reg, p, n).providers = [reg.providers EXCEPT ![p] = left]
        /\ Fewer(reg, p, n).info = IF left = 0 THEN reg.info \ {p} ELSE reg.info
    BY <2>5
  <2>7. \A q \in Providers : Fewer(reg, p, n).providers[q] = IF q = p THEN left ELSE reg.providers[q]
    BY <1>2, <2>6 DEF Reg
  <2>8. \A q \in Providers : Fewer(reg, p, n).providers[q] = reg.providers[q] - Share(p, q, n)
    BY <2>1, <2>7 DEF Share, Reg
  <2>9. Tallied(Fewer(reg, p, n))
    BY <1>2, <2>1, <2>6, <2>7 DEF Tallied, Reg
  <2> QED BY <2>6, <2>8, <2>9
<1> QED BY <1>1, <1>2

LEMMA AddedFacts ==
    ASSUME NEW reg \in Reg, Tallied(reg), NEW p \in Providers \cup {None},
           NEW n \in Nat, n > 0
    PROVE  /\ Added(reg, p, n) \in Reg /\ Tallied(Added(reg, p, n))
           /\ Added(reg, p, n).count = reg.count + n
           /\ \A q \in Providers :
                Added(reg, p, n).providers[q] = reg.providers[q] + Share(p, q, n)
<1>1. CASE p = None
  BY <1>1, RegistryAssumption DEF Added, Reg, Share, Tallied
<1>2. CASE p # None
  <2> DEFINE more == [reg.providers EXCEPT ![p] = @ + n]
  <2>1. more \in [Providers -> Nat] /\ reg.count + n \in Nat
        /\ reg.info \cup {p} \in SUBSET Providers
    BY <1>2 DEF Reg
  <2>2. Added(reg, p, n) = [reg EXCEPT !.count = reg.count + n, !.providers = more,
                                       !.info = reg.info \cup {p}]
    BY <1>2 DEF Added, Reg
  <2>3. /\ Added(reg, p, n) \in Reg /\ Added(reg, p, n).count = reg.count + n
        /\ Added(reg, p, n).providers = more
        /\ Added(reg, p, n).info = reg.info \cup {p}
    <3> HIDE DEF more
    <3> QED BY <2>1, <2>2 DEF Reg
  <2>4. /\ Added(reg, p, n) \in Reg /\ Added(reg, p, n).count = reg.count + n
        /\ Added(reg, p, n).providers = [reg.providers EXCEPT ![p] = @ + n]
        /\ Added(reg, p, n).info = reg.info \cup {p}
    BY <2>3
  <2>5. \A q \in Providers : Added(reg, p, n).providers[q]
                               = IF q = p THEN reg.providers[q] + n ELSE reg.providers[q]
    BY <1>2, <2>4 DEF Reg
  <2>6. \A q \in Providers : Added(reg, p, n).providers[q] = reg.providers[q] + Share(p, q, n)
    BY <2>5 DEF Share, Reg
  <2>7. Tallied(Added(reg, p, n))
    BY <1>2, <2>4, <2>5 DEF Tallied, Reg
  <2> QED BY <2>4, <2>6, <2>7
<1> QED BY <1>1, <1>2

LEMMA UnmarkedFacts ==
    ASSUME NEW reg \in Reg, NEW c \in Clients
    PROVE  /\ Unmarked(reg, c) \in Reg
           /\ Tallied(reg) => Tallied(Unmarked(reg, c))
           /\ Unmarked(reg, c).count = reg.count
           /\ Unmarked(reg, c).providers = reg.providers
           /\ Unmarked(reg, c).info = reg.info
BY DEF Unmarked, Reg, Tallied

LEMMA RemovedFacts ==
    ASSUME NEW reg \in Reg, Tallied(reg), NEW c \in Clients,
           NEW p \in Providers \cup {None}, NEW n \in Nat, Holds(reg, p, n)
    PROVE  /\ Removed(reg, c, p, n) \in Reg /\ Tallied(Removed(reg, c, p, n))
           /\ Removed(reg, c, p, n).count = reg.count - n
           /\ \A q \in Providers :
                Removed(reg, c, p, n).providers[q] = reg.providers[q] - Share(p, q, n)
<1>1. /\ reg.count \in Nat /\ (\A q \in Providers : reg.providers[q] \in Nat)
      /\ n <= reg.count /\ (p # None => reg.providers[p] >= n)
      /\ \A q \in Providers : reg.providers[q] - Share(p, q, n) <= reg.count - n
  BY DEF Reg, Holds
<1>2. CASE n = 0
  BY <1>1, <1>2 DEF Removed, Share
<1>3. CASE n # 0 /\ n >= reg.count
  <2>1. reg.count = n
    BY <1>1, <1>3
  <2>2. Removed(reg, c, p, n) = NoRegistration
    BY <1>1, <1>3 DEF Removed
  <2>3. \A q \in Providers : reg.providers[q] - Share(p, q, n) = 0
    BY <1>1, <2>1, RegistryAssumption DEF Share
  <2> QED BY <1>1, <2>1, <2>2, <2>3, NoRegistrationFacts
<1>4. CASE n # 0 /\ ~(n >= reg.count)
  <2> DEFINE less == [reg EXCEPT !.count = @ - n]
  <2>1. /\ less \in Reg /\ Tallied(less) /\ less.count = reg.count - n
        /\ less.providers = reg.providers
    BY <1>1, <1>4 DEF Reg, Tallied
  <2> HIDE DEF less
  <2> DEFINE bare == Unmarked(less, c)
  <2>2. /\ bare \in Reg /\ Tallied(bare) /\ bare.count = reg.count - n
        /\ bare.providers = reg.providers
    BY <2>1, UnmarkedFacts
  <2>3. Removed(reg, c, p, n) = Fewer(bare, p, n)
    BY <1>1, <1>4 DEF Removed, less
  <2> HIDE DEF bare
  <2> QED BY <1>1, <2>2, <2>3, FewerFacts
<1> QED BY <1>2, <1>3, <1>4

\* The counts after RegisterClient for one model: old copies for the provider
\* before have become new ones for the provider now.
LEMMA ReconciledFacts ==
    ASSUME NEW reg \in Reg, Tallied(reg), NEW c \in Clients,
           NEW old \in Nat, NEW new \in Nat,
           NEW p \in Providers \cup {None}, NEW r \in Providers \cup {None},
           Holds(reg, p, old)
    PROVE  /\ Reconciled(reg, c, old, new, p, r) \in Reg
           /\ Tallied(Reconciled(reg, c, old, new, p, r))
           /\ Reconciled(reg, c, old, new, p, r).count = reg.count - old + new
           /\ \A q \in Providers : Reconciled(reg, c, old, new, p, r).providers[q]
                = reg.providers[q] - Share(p, q, old) + Share(r, q, new)
<1> DEFINE moves == p # r /\ Least(old, new) > 0
           staying == IF moves THEN Least(old, new) ELSE 0
           spare == IF old > new THEN old - new ELSE 0
           left == IF moves THEN Fewer(reg, p, staying) ELSE reg
           fewer == Removed(left, c, p, spare)
           more == IF new > old THEN Added(fewer, r, new - old) ELSE fewer
           clean == Unmarked(more, c)
<1>3. /\ reg.count \in Nat /\ (\A q \in Providers : reg.providers[q] \in Nat)
      /\ old <= reg.count /\ (p # None => reg.providers[p] >= old)
      /\ \A q \in Providers : reg.providers[q] - Share(p, q, old) <= reg.count - old
  BY DEF Reg, Holds
<1>1. /\ staying \in Nat /\ spare \in Nat /\ staying + spare <= old
      /\ staying = IF p # r THEN Least(old, new) ELSE 0
      /\ Least(old, new) = old - spare
  BY DEF Least
<1>2. /\ left \in Reg /\ Tallied(left) /\ left.count = reg.count
      /\ \A q \in Providers : left.providers[q] = reg.providers[q] - Share(p, q, staying)
  <2>1. CASE moves
    <3>1. p # None => reg.providers[p] >= staying
      BY <1>1, <1>3
    <3> QED BY <1>1, <2>1, <3>1, FewerFacts
  <2>2. CASE ~moves
    BY <1>1, <2>2 DEF Share, Reg
  <2> QED BY <2>1, <2>2
<1> HIDE DEF moves, staying, spare, left
<1>4. /\ fewer \in Reg /\ Tallied(fewer) /\ fewer.count = reg.count - spare
      /\ \A q \in Providers : fewer.providers[q]
           = reg.providers[q] - Share(p, q, staying) - Share(p, q, spare)
  <2>1. spare <= left.count
    BY <1>1, <1>2, <1>3
  <2>2. p # None => left.providers[p] >= spare
    BY <1>1, <1>2, <1>3 DEF Share
  <2>3. \A q \in Providers : left.providers[q] - Share(p, q, spare) <= left.count - spare
    BY <1>1, <1>2, <1>3 DEF Share
  <2>5. Holds(left, p, spare)
    BY <2>1, <2>2, <2>3 DEF Holds
  <2>4. /\ fewer \in Reg /\ Tallied(fewer) /\ fewer.count = left.count - spare
        /\ \A q \in Providers : fewer.providers[q] = left.providers[q] - Share(p, q, spare)
    BY <1>1, <1>2, <2>5, RemovedFacts
  <2> HIDE DEF fewer
  <2> QED BY <1>2, <2>4
<1> HIDE DEF fewer
<1>5. /\ more \in Reg /\ Tallied(more) /\ more.count = reg.count - old + new
      /\ \A q \in Providers : more.providers[q]
           = reg.providers[q] - Share(p, q, staying) - Share(p, q, spare)
               + Share(r, q, IF new > old THEN new - old ELSE 0)
  <2>1. CASE new > old
    <3> DEFINE extra == new - old
    <3>1. spare = 0 /\ extra \in Nat /\ extra > 0 /\ more = Added(fewer, r, extra)
      BY <2>1 DEF spare
    <3>2. new = old + extra /\ extra = IF new > old THEN new - old ELSE 0
      BY <2>1
    <3> HIDE DEF extra, more
    <3>3. /\ more \in Reg /\ Tallied(more) /\ more.count = fewer.count + extra
          /\ \A q \in Providers : more.providers[q] = fewer.providers[q] + Share(r, q, extra)
      BY <1>4, <3>1, AddedFacts
    <3>4. more.count = reg.count - old + new
      BY <1>3, <1>4, <3>1, <3>2, <3>3
    <3>5. \A q \in Providers : more.providers[q]
            = reg.providers[q] - Share(p, q, staying) - Share(p, q, spare) + Share(r, q, extra)
      BY <1>4, <3>3
    <3> QED BY <3>2, <3>3, <3>4, <3>5
  <2>2. CASE ~(new > old)
    <3>1. spare = old - new
      BY <2>2 DEF spare
    <3> QED BY <1>1, <1>3, <1>4, <2>2, <3>1 DEF Share
  <2> QED BY <2>1, <2>2
<1> HIDE DEF more
<1>6. /\ clean \in Reg /\ Tallied(clean) /\ clean.count = more.count
      /\ clean.providers = more.providers /\ clean.info = more.info
  BY <1>5, UnmarkedFacts
<1>7. Reconciled(reg, c, old, new, p, r)
        = IF new = 0 THEN more
          ELSE IF r = None THEN clean
          ELSE [clean EXCEPT !.info = @ \cup {r},
                             !.providers[r] = IF p # r THEN @ + Least(old, new) ELSE @]
  BY <1>1 DEF Reconciled, moves, staying, spare, left, fewer, more
<1> HIDE DEF clean
<1>8. CASE new = 0
  <2>1. staying = 0 /\ spare = old
    BY <1>1, <1>3, <1>8 DEF spare, Least
  <2> QED BY <1>3, <1>5, <1>7, <1>8, <2>1 DEF Share
<1>9. CASE new # 0 /\ r = None
  <2>1. \A q \in Providers : Share(p, q, staying) + Share(p, q, spare) = Share(p, q, old)
    BY <1>1, <1>9, RegistryAssumption DEF Share
  <2>2. \A q \in Providers : Share(r, q, new) = 0 /\ Share(r, q, IF new > old THEN new - old ELSE 0) = 0
    BY <1>9, RegistryAssumption DEF Share
  <2> QED BY <1>1, <1>3, <1>5, <1>6, <1>7, <1>9, <2>1, <2>2 DEF Share
<1>10. CASE new # 0 /\ r # None
  <2> DEFINE joined == clean.providers[r] + staying
             shares == [clean.providers EXCEPT ![r] = joined]
             kept == clean.info \cup {r}
  <2>1. joined \in Nat /\ shares \in [Providers -> Nat] /\ kept \in SUBSET Providers
    BY <1>1, <1>6, <1>10 DEF Reg
  <2>2. Reconciled(reg, c, old, new, p, r) = [clean EXCEPT !.info = kept, !.providers = shares]
    <3>1. joined = IF p # r THEN clean.providers[r] + Least(old, new) ELSE clean.providers[r]
      BY <1>1, <1>6, <1>10 DEF Reg
    <3>2. Reconciled(reg, c, old, new, p, r)
            = [clean EXCEPT !.info = @ \cup {r},
                            !.providers[r] = IF p # r THEN @ + Least(old, new) ELSE @]
      BY <1>7, <1>10
    <3> HIDE DEF joined
    <3> QED BY <1>6, <3>1, <3>2 DEF Reg
  <2>3. /\ Reconciled(reg, c, old, new, p, r) \in Reg
        /\ Reconciled(reg, c, old, new, p, r).count = more.count
        /\ Reconciled(reg, c, old, new, p, r).info = clean.info \cup {r}
        /\ Reconciled(reg, c, old, new, p, r).providers = shares
    <3>1. /\ Reconciled(reg, c, old, new, p, r) \in Reg
          /\ Reconciled(reg, c, old, new, p, r).count = more.count
          /\ Reconciled(reg, c, old, new, p, r).info = kept
          /\ Reconciled(reg, c, old, new, p, r).providers = shares
      <4> HIDE DEF shares, kept
      <4> QED BY <1>6, <2>1, <2>2 DEF Reg
    <3> QED BY <3>1
  <2>4. \A q \in Providers : shares[q] = clean.providers[q] + Share(r, q, staying)
    BY <1>1, <1>6, <1>10 DEF Share, Reg
  <2> HIDE DEF shares, joined, kept
  <2>5. \A q \in Providers : shares[q]
          = reg.providers[q] - Share(p, q, old) + Share(r, q, new)
    BY <1>1, <1>3, <1>5, <1>6, <1>10, <2>4 DEF Share, spare, Least
  <2>6. shares[r] > 0
    BY <1>3, <1>10, <2>5 DEF Share
  <2>7. Tallied(Reconciled(reg, c, old, new, p, r))
    <3>1. \A q \in Providers : q # r => shares[q] = clean.providers[q]
      BY <1>6, <2>4 DEF Share, Reg
    <3>2. clean.info = {q \in Providers : clean.providers[q] > 0}
      BY <1>6 DEF Tallied
    <3> QED BY <1>10, <2>3, <2>6, <3>1, <3>2 DEF Tallied
  <2> QED BY <1>5, <2>3, <2>5, <2>7
<1> QED BY <1>8, <1>9, <1>10

-----------------------------------------------------------------------------
(* What the lists of the clients add up to.                                *)

Lists == [Clients -> [Models -> Nat]]

Owners == [Clients -> Providers \cup {None}]

CopiesIn(lists, m, C) == SumFunctionOnSet([c \in Clients |-> lists[c][m]], C)

ClientsOf(owners, p) == {c \in Clients : owners[c] = p}

OffersIn(lists, owners, m, p) == CopiesIn(lists, m, ClientsOf(owners, p))

LEMMA CopiesType ==
    ASSUME NEW lists \in Lists, NEW m \in Models, NEW C \in SUBSET Clients
    PROVE  CopiesIn(lists, m, C) \in Nat
<1> DEFINE h == [c \in Clients |-> lists[c][m]]
<1>1. IsFiniteSet(C) /\ \A c \in C : h[c] \in Nat
  BY RegistryAssumption, FS_Subset DEF Lists
<1> HIDE DEF h
<1>2. SumFunctionOnSet(h, C) \in Nat
  BY <1>1, SumType
<1> QED BY <1>2 DEF h, CopiesIn

\* What one client adds to the sum over some.
LEMMA CopiesWithout ==
    ASSUME NEW lists \in Lists, NEW m \in Models, NEW C \in SUBSET Clients, NEW c \in Clients
    PROVE  CopiesIn(lists, m, C)
             = CopiesIn(lists, m, C \ {c}) + (IF c \in C THEN lists[c][m] ELSE 0)
<1> DEFINE h == [d \in Clients |-> lists[d][m]]
<1>1. IsFiniteSet(C) /\ (\A d \in C : h[d] \in Nat) /\ h[c] = lists[c][m]
  BY RegistryAssumption, FS_Subset DEF Lists
<1>2. CopiesIn(lists, m, C \ {c}) \in Nat /\ lists[c][m] \in Nat
  BY CopiesType DEF Lists
<1>3. CASE c \in C
  <2> HIDE DEF h
  <2>1. SumFunctionOnSet(h, C) = h[c] + SumFunctionOnSet(h, C \ {c})
    BY <1>1, <1>3, SumWithout
  <2>2. CopiesIn(lists, m, C) = lists[c][m] + CopiesIn(lists, m, C \ {c})
    BY <1>1, <2>1 DEF CopiesIn, h
  <2> QED BY <1>2, <1>3, <2>2
<1>4. CASE c \notin C
  <2>1. C \ {c} = C
    BY <1>4
  <2> QED BY <1>2, <1>4, <2>1
<1> QED BY <1>3, <1>4

LEMMA CopiesSame ==
    ASSUME NEW lists \in Lists, NEW others \in Lists, NEW m \in Models,
           NEW C \in SUBSET Clients, \A c \in C : lists[c] = others[c]
    PROVE  CopiesIn(lists, m, C) = CopiesIn(others, m, C)
<1> DEFINE h == [c \in Clients |-> lists[c][m]]
           k == [c \in Clients |-> others[c][m]]
<1>1. IsFiniteSet(C) /\ \A c \in C : h[c] = k[c]
  BY RegistryAssumption, FS_Subset
<1> HIDE DEF h, k
<1>2. SumFunctionOnSet(h, C) = SumFunctionOnSet(k, C)
  BY <1>1, SumSame
<1> QED BY <1>2 DEF h, k, CopiesIn

LEMMA CopiesOfSubset ==
    ASSUME NEW lists \in Lists, NEW m \in Models, NEW C \in SUBSET Clients, NEW D \in SUBSET C
    PROVE  CopiesIn(lists, m, D) <= CopiesIn(lists, m, C)
<1> DEFINE h == [c \in Clients |-> lists[c][m]]
<1>1. IsFiniteSet(C) /\ \A c \in C : h[c] \in Nat
  BY RegistryAssumption, FS_Subset DEF Lists
<1> HIDE DEF h
<1>2. SumFunctionOnSet(h, D) <= SumFunctionOnSet(h, C)
  BY <1>1, SumOfSubset
<1> QED BY <1>2 DEF h, CopiesIn

\* A client's copies are among those of its provider and of the model.
LEMMA OneAmongAll ==
    ASSUME NEW lists \in Lists, NEW owners \in Owners, NEW c \in Clients, NEW m \in Models
    PROVE  /\ CopiesIn(lists, m, Clients) \in Nat
           /\ \A p \in Providers : OffersIn(lists, owners, m, p) \in Nat
           /\ lists[c][m] \in Nat /\ lists[c][m] <= CopiesIn(lists, m, Clients)
           /\ owners[c] # None => OffersIn(lists, owners, m, owners[c]) >= lists[c][m]
           /\ \A p \in Providers :
                OffersIn(lists, owners, m, p) - Share(owners[c], p, lists[c][m])
                  <= CopiesIn(lists, m, Clients) - lists[c][m]
<1> DEFINE n == lists[c][m]
           rest == CopiesIn(lists, m, Clients \ {c})
           others(p) == CopiesIn(lists, m, ClientsOf(owners, p) \ {c})
<1>1. n \in Nat /\ rest \in Nat /\ CopiesIn(lists, m, Clients) = rest + n
  BY CopiesType, CopiesWithout DEF Lists
<1>2. ASSUME NEW p \in Providers
      PROVE  /\ others(p) \in Nat /\ others(p) <= rest
             /\ OffersIn(lists, owners, m, p) = others(p) + Share(owners[c], p, n)
  <2>1. others(p) \in Nat
    BY CopiesType DEF ClientsOf
  <2>2. others(p) <= rest
    BY CopiesOfSubset DEF ClientsOf
  <2>3. CopiesIn(lists, m, ClientsOf(owners, p))
          = others(p) + (IF c \in ClientsOf(owners, p) THEN n ELSE 0)
    BY CopiesWithout DEF ClientsOf
  <2>4. c \in ClientsOf(owners, p) <=> p = owners[c]
    BY DEF ClientsOf
  <2> HIDE DEF others, n
  <2> QED BY <2>1, <2>2, <2>3, <2>4 DEF OffersIn, Share
<1>3. owners[c] # None => owners[c] \in Providers
  BY DEF Owners
<1> HIDE DEF n, rest, others
<1>4. CopiesIn(lists, m, Clients) \in Nat /\ n <= CopiesIn(lists, m, Clients)
  BY <1>1
<1>5. \A p \in Providers : OffersIn(lists, owners, m, p) \in Nat
  BY <1>1, <1>2 DEF Share
<1>6. owners[c] # None => OffersIn(lists, owners, m, owners[c]) >= n
  BY <1>1, <1>2, <1>3 DEF Share
<1>7. \A p \in Providers : OffersIn(lists, owners, m, p) - Share(owners[c], p, n)
                             <= CopiesIn(lists, m, Clients) - n
  BY <1>1, <1>2 DEF Share
<1> QED BY <1>1, <1>4, <1>5, <1>6, <1>7 DEF n

\* One client takes another list and another provider.
LEMMA OneClientMoves ==
    ASSUME NEW lists \in Lists, NEW owners \in Owners, NEW c \in Clients, NEW m \in Models,
           NEW list \in [Models -> Nat], NEW r \in Providers \cup {None}
    PROVE  /\ CopiesIn([lists EXCEPT ![c] = list], m, Clients)
                = CopiesIn(lists, m, Clients) - lists[c][m] + list[m]
           /\ \A p \in Providers :
                OffersIn([lists EXCEPT ![c] = list], [owners EXCEPT ![c] = r], m, p)
                  = OffersIn(lists, owners, m, p) - Share(owners[c], p, lists[c][m])
                      + Share(r, p, list[m])
<1> DEFINE after == [lists EXCEPT ![c] = list]
           owned == [owners EXCEPT ![c] = r]
<1>1. /\ after \in Lists /\ after[c] = list
      /\ \A d \in Clients \ {c} : after[d] = lists[d]
  BY DEF Lists
<1>2. owned[c] = r /\ \A d \in Clients \ {c} : owned[d] = owners[d]
  BY DEF Owners
<1>3. lists[c][m] \in Nat /\ list[m] \in Nat
  BY DEF Lists
<1> HIDE DEF after, owned
<1>4. CopiesIn(after, m, Clients) = CopiesIn(lists, m, Clients) - lists[c][m] + list[m]
  <2> DEFINE rest == CopiesIn(lists, m, Clients \ {c})
  <2>1. CopiesIn(after, m, Clients \ {c}) = rest /\ rest \in Nat
    BY <1>1, CopiesSame, CopiesType
  <2>2. CopiesIn(after, m, Clients) = CopiesIn(after, m, Clients \ {c}) + list[m]
    BY <1>1, CopiesWithout
  <2>3. CopiesIn(lists, m, Clients) = rest + lists[c][m]
    BY CopiesWithout
  <2> HIDE DEF rest
  <2> QED BY <1>3, <2>1, <2>2, <2>3
<1>5. ASSUME NEW p \in Providers
      PROVE  OffersIn(after, owned, m, p)
               = OffersIn(lists, owners, m, p) - Share(owners[c], p, lists[c][m])
                   + Share(r, p, list[m])
  <2> DEFINE others == ClientsOf(owners, p) \ {c}
             rest == CopiesIn(lists, m, others)
  <2>1. /\ others \in SUBSET Clients /\ ClientsOf(owned, p) \ {c} = others
        /\ ClientsOf(owners, p) \in SUBSET Clients /\ ClientsOf(owned, p) \in SUBSET Clients
        /\ c \in ClientsOf(owners, p) <=> p = owners[c]
        /\ c \in ClientsOf(owned, p) <=> p = r
    BY <1>2 DEF ClientsOf
  <2>2. CopiesIn(after, m, others) = rest /\ rest \in Nat
    BY <1>1, <2>1, CopiesSame, CopiesType
  <2>3. CopiesIn(after, m, ClientsOf(owned, p))
          = CopiesIn(after, m, others) + Share(r, p, list[m])
    <3>1. CopiesIn(after, m, ClientsOf(owned, p))
            = CopiesIn(after, m, ClientsOf(owned, p) \ {c})
                + (IF c \in ClientsOf(owned, p) THEN after[c][m] ELSE 0)
      BY <1>1, <2>1, CopiesWithout
    <3>2. (IF c \in ClientsOf(owned, p) THEN after[c][m] ELSE 0) = Share(r, p, list[m])
      BY <1>1, <2>1 DEF Share
    <3> HIDE DEF others
    <3> QED BY <2>1, <3>1, <3>2
  <2>4. CopiesIn(lists, m, ClientsOf(owners, p)) = rest + Share(owners[c], p, lists[c][m])
    <3>1. CopiesIn(lists, m, ClientsOf(owners, p))
            = CopiesIn(lists, m, others)
                + (IF c \in ClientsOf(owners, p) THEN lists[c][m] ELSE 0)
      BY <2>1, CopiesWithout
    <3>2. (IF c \in ClientsOf(owners, p) THEN lists[c][m] ELSE 0)
            = Share(owners[c], p, lists[c][m])
      BY <2>1 DEF Share
    <3> QED BY <3>1, <3>2
  <2> HIDE DEF rest
  <2> QED BY <1>3, <2>2, <2>3, <2>4 DEF OffersIn, Share
<1> QED BY <1>4, <1>5 DEF after, owned

-----------------------------------------------------------------------------
(* The invariant of the counts.                                            *)

CallRec == [op : {"clear", "resume", "exceeded", "suspend"}, client : Clients,
            model : Models, reason : Reasons \cup {None}]

Types ==
    /\ models \in [Models -> Reg]
    /\ clientModels \in Lists
    /\ clientProviders \in Owners
    /\ now \in Nat
    /\ calls \in [Results -> Seq(CallRec)]

Exact(reg, lists, owners, m) ==
    /\ reg \in Reg /\ Tallied(reg)
    /\ reg.count = CopiesIn(lists, m, Clients)
    /\ \A p \in Providers : reg.providers[p] = OffersIn(lists, owners, m, p)

AllExact == \A m \in Models : Exact(models[m], clientModels, clientProviders, m)

LEMMA CountsMean ==
    ASSUME Types, AllExact
    PROVE  CountsExact
<1> SUFFICES ASSUME NEW m \in Models
             PROVE  /\ models[m].count = Copies(m, Clients)
                    /\ \A p \in Providers : models[m].providers[p] = Offers(m, p)
                    /\ models[m].info = {p \in Providers : Offers(m, p) > 0}
  BY DEF CountsExact
<1>1. /\ Copies(m, Clients) = CopiesIn(clientModels, m, Clients)
      /\ \A p \in Providers : Offers(m, p) = OffersIn(clientModels, clientProviders, m, p)
  BY DEF Copies, CopiesIn, Offers, OffersIn, ClientsOf
<1>2. Exact(models[m], clientModels, clientProviders, m)
  BY DEF AllExact
<1> QED BY <1>1, <1>2 DEF Exact, Tallied

\* The models need not change in what is counted.
LEMMA SameCounts ==
    ASSUME Types, AllExact, models' \in [Models -> Reg],
           \A m \in Models : /\ models'[m].count = models[m].count
                             /\ models'[m].providers = models[m].providers
                             /\ models'[m].info = models[m].info,
           UNCHANGED <<clientModels, clientProviders>>
    PROVE  AllExact'
<1> SUFFICES ASSUME NEW m \in Models
             PROVE  Exact(models'[m], clientModels', clientProviders', m)
  BY DEF AllExact
<1>1. Exact(models[m], clientModels, clientProviders, m)
  BY DEF AllExact
<1>2. models'[m] \in Reg
  OBVIOUS
<1> QED BY <1>1, <1>2 DEF Exact, Tallied

\* The models follow a client that takes another list and another provider.
LEMMA ClientMoves ==
    ASSUME Types, AllExact, NEW c \in Clients, NEW list \in [Models -> Nat],
           NEW r \in Providers \cup {None},
           clientModels' = [clientModels EXCEPT ![c] = list],
           clientProviders' = [clientProviders EXCEPT ![c] = r],
           models' = [m \in Models |-> models'[m]],
           \A m \in Models :
             /\ models'[m] \in Reg /\ Tallied(models'[m])
             /\ models'[m].count = models[m].count - clientModels[c][m] + list[m]
             /\ \A q \in Providers : models'[m].providers[q]
                  = models[m].providers[q] - Share(clientProviders[c], q, clientModels[c][m])
                      + Share(r, q, list[m]),
           UNCHANGED <<now, calls>>
    PROVE  Types' /\ AllExact'
<1>1. clientModels' \in Lists /\ clientProviders' \in Owners
  BY DEF Types, Lists, Owners
<1>2. models' \in [Models -> Reg]
  OBVIOUS
<1>3. Types'
  BY <1>1, <1>2 DEF Types
<1>4. ASSUME NEW m \in Models PROVE Exact(models'[m], clientModels', clientProviders', m)
  <2>1. Exact(models[m], clientModels, clientProviders, m)
    BY DEF AllExact
  <2>2. /\ CopiesIn(clientModels', m, Clients)
             = CopiesIn(clientModels, m, Clients) - clientModels[c][m] + list[m]
        /\ \A p \in Providers : OffersIn(clientModels', clientProviders', m, p)
             = OffersIn(clientModels, clientProviders, m, p)
                 - Share(clientProviders[c], p, clientModels[c][m]) + Share(r, p, list[m])
    BY OneClientMoves DEF Types
  <2> QED BY <2>1, <2>2 DEF Exact
<1> QED BY <1>3, <1>4 DEF AllExact

\* What the bounds of the helpers ask for.
LEMMA OneInReg ==
    ASSUME Types, AllExact, NEW c \in Clients, NEW m \in Models
    PROVE  /\ models[m] \in Reg /\ Tallied(models[m])
           /\ clientModels[c][m] \in Nat /\ clientProviders[c] \in Providers \cup {None}
           /\ Holds(models[m], clientProviders[c], clientModels[c][m])
<1>1. Exact(models[m], clientModels, clientProviders, m)
  BY DEF AllExact
<1>2. clientProviders[c] \in Providers \cup {None}
  BY DEF Types, Owners
<1>3. clientModels \in Lists /\ clientProviders \in Owners
  BY DEF Types
<1> QED BY <1>1, <1>2, <1>3, OneAmongAll DEF Exact, Holds

LEMMA UnregisterCounts ==
    ASSUME Types, AllExact, NEW c \in Clients, UnregisterClient(c)
    PROVE  Types' /\ AllExact'
<1>1. NoModels \in [Models -> Nat] /\ \A m \in Models : NoModels[m] = 0
  BY DEF NoModels
<1>2. ASSUME NEW m \in Models
      PROVE  /\ models'[m] \in Reg /\ Tallied(models'[m])
             /\ models'[m].count = models[m].count - clientModels[c][m] + NoModels[m]
             /\ \A q \in Providers : models'[m].providers[q]
                  = models[m].providers[q] - Share(clientProviders[c], q, clientModels[c][m])
                      + Share(None, q, NoModels[m])
  <2> DEFINE n == clientModels[c][m]
             p == clientProviders[c]
             reg == models[m]
             after == Removed(reg, c, p, n)
  <2>1. models'[m] = after
    BY DEF UnregisterClient
  <2>2. /\ reg \in Reg /\ Tallied(reg) /\ n \in Nat
        /\ p \in Providers \cup {None} /\ Holds(reg, p, n)
    BY OneInReg
  <2> HIDE DEF n, p, reg
  <2>3. /\ after \in Reg /\ Tallied(after) /\ after.count = reg.count - n
        /\ \A q \in Providers : after.providers[q] = reg.providers[q] - Share(p, q, n)
    BY <2>2, RemovedFacts
  <2> HIDE DEF after
  <2>4. reg.count \in Nat /\ \A q \in Providers : reg.providers[q] \in Nat
    BY <2>2 DEF Reg
  <2>5. \A q \in Providers : Share(None, q, 0) = 0 /\ Share(p, q, n) \in Nat
    BY <2>2 DEF Share
  <2>6. after.count = reg.count - n + 0
    BY <2>2, <2>3, <2>4
  <2>7. \A q \in Providers : after.providers[q]
                               = reg.providers[q] - Share(p, q, n) + Share(None, q, 0)
    BY <2>3, <2>4, <2>5
  <2> QED BY <1>1, <2>1, <2>3, <2>6, <2>7 DEF n, p, reg
<1>3. models' = [m \in Models |-> models'[m]]
  BY DEF UnregisterClient
<1>4. /\ clientModels' = [clientModels EXCEPT ![c] = NoModels]
      /\ clientProviders' = [clientProviders EXCEPT ![c] = None]
      /\ UNCHANGED <<now, calls>>
  BY DEF UnregisterClient
<1> HIDE DEF NoModels
<1> QED BY <1>1, <1>2, <1>3, <1>4, ClientMoves

LEMMA RegisterNewCounts ==
    ASSUME Types, AllExact, NEW c \in Clients, NEW r \in Providers \cup {None},
           NEW list \in [Models -> Nat], RegisterNewClient(c, r, list)
    PROVE  Types' /\ AllExact'
<1>1. \A m \in Models : clientModels[c][m] = 0
  BY DEF RegisterNewClient, Registered, NoModels
<1>2. ASSUME NEW m \in Models
      PROVE  /\ models'[m] \in Reg /\ Tallied(models'[m])
             /\ models'[m].count = models[m].count - clientModels[c][m] + list[m]
             /\ \A q \in Providers : models'[m].providers[q]
                  = models[m].providers[q] - Share(clientProviders[c], q, clientModels[c][m])
                      + Share(r, q, list[m])
  <2> DEFINE reg == models[m]
             n == list[m]
             after == IF n = 0 THEN reg ELSE Added(reg, r, n)
  <2>1. models'[m] = after
    BY DEF RegisterNewClient
  <2>2. reg \in Reg /\ Tallied(reg) /\ n \in Nat
    BY OneInReg
  <2> HIDE DEF reg, n
  <2>3. reg.count \in Nat /\ \A q \in Providers : reg.providers[q] \in Nat
    BY <2>2 DEF Reg
  <2>4. /\ after \in Reg /\ Tallied(after) /\ after.count = reg.count + n
        /\ \A q \in Providers : after.providers[q] = reg.providers[q] + Share(r, q, n)
    <3>1. CASE n = 0
      BY <2>2, <2>3, <3>1 DEF Share
    <3>2. CASE n # 0
      BY <2>2, <3>2, AddedFacts
    <3> QED BY <3>1, <3>2
  <2> HIDE DEF after
  <2>5. \A q \in Providers : Share(clientProviders[c], q, 0) = 0 /\ Share(r, q, n) \in Nat
    BY <2>2 DEF Share
  <2>6. after.count = reg.count - 0 + n
    BY <2>2, <2>3, <2>4
  <2>7. \A q \in Providers : after.providers[q]
          = reg.providers[q] - Share(clientProviders[c], q, 0) + Share(r, q, n)
    BY <2>3, <2>4, <2>5
  <2> QED BY <1>1, <2>1, <2>4, <2>6, <2>7 DEF reg, n
<1>3. /\ clientModels' = [clientModels EXCEPT ![c] = list]
      /\ clientProviders' = [clientProviders EXCEPT ![c] = r]
      /\ models' = [m \in Models |-> models'[m]]
      /\ UNCHANGED <<now, calls>>
  BY DEF RegisterNewClient
<1> QED BY <1>2, <1>3, ClientMoves

LEMMA RegisterAgainCounts ==
    ASSUME Types, AllExact, NEW c \in Clients, NEW r \in Providers \cup {None},
           NEW list \in [Models -> Nat], RegisterAgain(c, r, list)
    PROVE  Types' /\ AllExact'
<1>1. ASSUME NEW m \in Models
      PROVE  /\ models'[m] \in Reg /\ Tallied(models'[m])
             /\ models'[m].count = models[m].count - clientModels[c][m] + list[m]
             /\ \A q \in Providers : models'[m].providers[q]
                  = models[m].providers[q] - Share(clientProviders[c], q, clientModels[c][m])
                      + Share(r, q, list[m])
  <2> DEFINE reg == models[m]
             old == clientModels[c][m]
             new == list[m]
             p == clientProviders[c]
             after == Reconciled(reg, c, old, new, p, r)
  <2>1. models'[m] = after
    BY DEF RegisterAgain
  <2>2. /\ reg \in Reg /\ Tallied(reg) /\ old \in Nat /\ new \in Nat
        /\ p \in Providers \cup {None} /\ Holds(reg, p, old)
    BY OneInReg
  <2> HIDE DEF reg, old, new, p
  <2>3. /\ after \in Reg /\ Tallied(after) /\ after.count = reg.count - old + new
        /\ \A q \in Providers : after.providers[q]
             = reg.providers[q] - Share(p, q, old) + Share(r, q, new)
    <3>1. after \in Reg
      BY <2>2, ReconciledFacts
    <3>2. Tallied(after)
      BY <2>2, ReconciledFacts
    <3>3. after.count = reg.count - old + new
      BY <2>2, ReconciledFacts
    <3>4. ASSUME NEW q \in Providers PROVE after.providers[q]
             = reg.providers[q] - Share(p, q, old) + Share(r, q, new)
      BY <2>2, ReconciledFacts
    <3> QED BY <3>1, <3>2, <3>3, <3>4
  <2> HIDE DEF after
  <2> QED BY <2>1, <2>3 DEF reg, old, new, p
<1>2. /\ clientModels' = [clientModels EXCEPT ![c] = list]
      /\ clientProviders' = [clientProviders EXCEPT ![c] = r]
      /\ models' = [m \in Models |-> models'[m]]
      /\ UNCHANGED <<now, calls>>
  BY DEF RegisterAgain
<1> QED BY <1>1, <1>2, ClientMoves

\* Marks of a client change nothing that is counted.
LEMMA QuotaMarked ==
    ASSUME NEW reg \in Reg, NEW c \in Clients, NEW mark \in Nat \cup {None}
    PROVE  /\ [reg EXCEPT !.quota[c] = mark] \in Reg
           /\ [reg EXCEPT !.quota[c] = mark].count = reg.count
           /\ [reg EXCEPT !.quota[c] = mark].providers = reg.providers
           /\ [reg EXCEPT !.quota[c] = mark].info = reg.info
<1> DEFINE marks == [reg.quota EXCEPT ![c] = mark]
<1>1. marks \in [Clients -> Nat \cup {None}]
  BY DEF Reg
<1>2. [reg EXCEPT !.quota[c] = mark] = [reg EXCEPT !.quota = marks]
  BY DEF Reg
<1> HIDE DEF marks
<1> QED BY <1>1, <1>2 DEF Reg

LEMMA SuspensionMarked ==
    ASSUME NEW reg \in Reg, NEW c \in Clients, NEW mark \in Reasons \cup {None}
    PROVE  /\ [reg EXCEPT !.suspended[c] = mark] \in Reg
           /\ [reg EXCEPT !.suspended[c] = mark].count = reg.count
           /\ [reg EXCEPT !.suspended[c] = mark].providers = reg.providers
           /\ [reg EXCEPT !.suspended[c] = mark].info = reg.info
<1> DEFINE marks == [reg.suspended EXCEPT ![c] = mark]
<1>1. marks \in [Clients -> Reasons \cup {None}]
  BY DEF Reg
<1>2. [reg EXCEPT !.suspended[c] = mark] = [reg EXCEPT !.suspended = marks]
  BY DEF Reg
<1> HIDE DEF marks
<1> QED BY <1>1, <1>2 DEF Reg

\* One model's registration is replaced by one that counts the same.
LEMMA OneModelMarked ==
    ASSUME Types, AllExact, NEW m \in Models, NEW reg \in Reg,
           models' = [models EXCEPT ![m] = reg],
           reg.count = models[m].count, reg.providers = models[m].providers,
           reg.info = models[m].info,
           UNCHANGED <<clientModels, clientProviders>>
    PROVE  models' \in [Models -> Reg] /\ AllExact'
<1>1. models' \in [Models -> Reg]
  BY DEF Types
<1>2. \A n \in Models : /\ models'[n].count = models[n].count
                        /\ models'[n].providers = models[n].providers
                        /\ models'[n].info = models[n].info
  <2> SUFFICES ASSUME NEW n \in Models
               PROVE  /\ models'[n].count = models[n].count
                      /\ models'[n].providers = models[n].providers
                      /\ models'[n].info = models[n].info
    OBVIOUS
  <2>1. models'[n] = IF n = m THEN reg ELSE models[n]
    BY DEF Types
  <2> QED BY <2>1
<1> QED BY <1>1, <1>2, SameCounts

LEMMA CallsAreCalls ==
    ASSUME NEW c \in Clients, NEW m \in Models, NEW kind \in {"success", "quota", "other"}
    PROVE  CallsOf(kind, c, m) \in Seq(CallRec)
<1>1. \A op \in {"clear", "resume", "exceeded", "suspend"}, reason \in Reasons \cup {None} :
        Call(op, c, m, reason) \in CallRec
  BY DEF Call, CallRec
<1>2. {"quota", "other"} \subseteq Reasons
  BY DEF Reasons
<1>3. \A a \in CallRec, b \in CallRec : <<a, b>> \in Seq(CallRec) /\ <<a>> \in Seq(CallRec)
  OBVIOUS
<1>4. CASE kind = "success"
  BY <1>1, <1>3, <1>4 DEF CallsOf
<1>5. CASE kind = "quota"
  BY <1>1, <1>2, <1>3, <1>5 DEF CallsOf
<1>6. CASE kind = "other"
  BY <1>1, <1>2, <1>3, <1>6 DEF CallsOf
<1> QED BY <1>4, <1>5, <1>6

LEMMA StartCounts ==
    ASSUME Types, AllExact, NEW r \in Results, StartResult(r)
    PROVE  Types' /\ AllExact'
<1>1. PICK c \in Clients, m \in Models, kind \in {"success", "quota", "other"} :
        calls' = [calls EXCEPT ![r] = CallsOf(kind, c, m)]
  BY DEF StartResult
<1>2. CallsOf(kind, c, m) \in Seq(CallRec)
  BY CallsAreCalls
<1>3. UNCHANGED <<models, clientModels, clientProviders, now>>
  BY DEF StartResult
<1>4. Types'
  BY <1>1, <1>2, <1>3 DEF Types
<1> QED BY <1>3, <1>4 DEF AllExact

LEMMA MakeCallCounts ==
    ASSUME Types, AllExact, NEW r \in Results, MakeCall(r)
    PROVE  Types' /\ AllExact'
<1> DEFINE call == Head(calls[r])
           c == call.client
           m == call.model
<1>1. call \in CallRec /\ Tail(calls[r]) \in Seq(CallRec)
  <2>1. calls[r] \in Seq(CallRec) /\ calls[r] # <<>>
    BY DEF MakeCall, Types
  <2> QED BY <2>1
<1>2. c \in Clients /\ m \in Models /\ call.reason \in Reasons \cup {None}
  BY <1>1 DEF CallRec
<1>3. /\ calls' = [calls EXCEPT ![r] = Tail(@)]
      /\ UNCHANGED <<clientModels, clientProviders, now>>
      /\ \/ SetModelQuotaExceeded(c, m) \/ ClearModelQuotaExceeded(c, m)
         \/ SuspendClientModel(c, m, call.reason) \/ ResumeClientModel(c, m)
         \/ NoEffect(call)
  BY DEF MakeCall
<1>4. calls' \in [Results -> Seq(CallRec)]
  BY <1>1, <1>3 DEF Types
<1>5. models[m] \in Reg
  BY <1>2 DEF Types
<1> HIDE DEF call, c, m
<1>6. CASE SetModelQuotaExceeded(c, m) \/ ClearModelQuotaExceeded(c, m)
  <2>1. PICK mark \in Nat \cup {None} : models' = [models EXCEPT ![m].quota[c] = mark]
    BY <1>6 DEF SetModelQuotaExceeded, ClearModelQuotaExceeded, Types
  <2> DEFINE reg == [models[m] EXCEPT !.quota[c] = mark]
  <2>2. /\ reg \in Reg /\ reg.count = models[m].count
        /\ reg.providers = models[m].providers /\ reg.info = models[m].info
    BY <1>2, <1>5, QuotaMarked
  <2>3. models' = [models EXCEPT ![m] = reg]
    BY <2>1
  <2> HIDE DEF reg
  <2>4. models' \in [Models -> Reg] /\ AllExact'
    BY <1>2, <1>3, <2>2, <2>3, OneModelMarked
  <2> QED BY <1>3, <1>4, <2>4 DEF Types
<1>7. CASE SuspendClientModel(c, m, call.reason) \/ ResumeClientModel(c, m)
  <2>1. PICK mark \in Reasons \cup {None} : models' = [models EXCEPT ![m].suspended[c] = mark]
    BY <1>2, <1>7 DEF SuspendClientModel, ResumeClientModel
  <2> DEFINE reg == [models[m] EXCEPT !.suspended[c] = mark]
  <2>2. /\ reg \in Reg /\ reg.count = models[m].count
        /\ reg.providers = models[m].providers /\ reg.info = models[m].info
    BY <1>2, <1>5, SuspensionMarked
  <2>3. models' = [models EXCEPT ![m] = reg]
    BY <2>1
  <2> HIDE DEF reg
  <2>4. models' \in [Models -> Reg] /\ AllExact'
    BY <1>2, <1>3, <2>2, <2>3, OneModelMarked
  <2> QED BY <1>3, <1>4, <2>4 DEF Types
<1>8. CASE NoEffect(call)
  <2>1. UNCHANGED models
    BY <1>8 DEF NoEffect
  <2> QED BY <1>3, <1>4, <2>1 DEF Types, AllExact
<1> QED BY <1>3, <1>6, <1>7, <1>8

LEMMA CleanupCounts ==
    ASSUME Types, AllExact, CleanupExpiredQuotas
    PROVE  Types' /\ AllExact'
<1> DEFINE kept(reg) == [c \in Clients |->
             IF reg.quota[c] # None /\ now - reg.quota[c] >= Window THEN None ELSE reg.quota[c]]
<1>1. /\ models' = [m \in Models |-> [models[m] EXCEPT !.quota = kept(models[m])]]
      /\ UNCHANGED <<clientModels, clientProviders, now, calls>>
  BY DEF CleanupExpiredQuotas
<1>2. ASSUME NEW m \in Models
      PROVE  /\ models'[m] \in Reg /\ models'[m].count = models[m].count
             /\ models'[m].providers = models[m].providers
             /\ models'[m].info = models[m].info
  <2>1. models[m] \in Reg
    BY DEF Types
  <2>2. kept(models[m]) \in [Clients -> Nat \cup {None}]
    BY <2>1 DEF Reg
  <2>3. models'[m] = [models[m] EXCEPT !.quota = kept(models[m])]
    BY <1>1
  <2> HIDE DEF kept
  <2> QED BY <2>1, <2>2, <2>3 DEF Reg
<1>3. models' = [m \in Models |-> models'[m]]
  BY <1>1
<1>4. models' \in [Models -> Reg]
  BY <1>2, <1>3
<1>5. AllExact'
  BY <1>1, <1>2, <1>4, SameCounts
<1> QED BY <1>1, <1>4, <1>5 DEF Types

LEMMA InitCounts == Init => Types /\ AllExact
<1> SUFFICES ASSUME Init PROVE Types /\ AllExact
  OBVIOUS
<1>1. /\ models = [m \in Models |-> NoRegistration]
      /\ clientModels = [c \in Clients |-> NoModels]
      /\ clientProviders = [c \in Clients |-> None]
      /\ now = 0 /\ calls = [r \in Results |-> <<>>]
  BY DEF Init
<1>2. clientModels \in Lists /\ clientProviders \in Owners
  BY <1>1 DEF NoModels, Lists, Owners
<1>3. Types
  BY <1>1, <1>2, NoRegistrationFacts DEF Types
<1>4. ASSUME NEW C \in SUBSET Clients, NEW m \in Models PROVE CopiesIn(clientModels, m, C) = 0
  <2> DEFINE h == [c \in Clients |-> clientModels[c][m]]
             G == {s \in SUBSET C : SumFunctionOnSet(h, s) = 0}
  <2>1. IsFiniteSet(C) /\ \A c \in C : h[c] = 0
    BY <1>1, RegistryAssumption, FS_Subset DEF NoModels
  <2> HIDE DEF h
  <2>2. ASSUME NEW s \in SUBSET C, \A t \in SUBSET s : t # s => t \in G PROVE s \in G
    <3>1. CASE s = {}
      BY <3>1, SumOfNone
    <3>2. CASE s # {}
      <4>1. /\ IsFiniteSet(s) /\ Some(s) \in C
            /\ SumFunctionOnSet(h, s \ {Some(s)}) = 0
        BY <2>1, <2>2, <3>2, SomeIn, FS_Subset
      <4>2. SumFunctionOnSet(h, s) = h[Some(s)] + SumFunctionOnSet(h, s \ {Some(s)})
        BY <3>2, <4>1, SumAt
      <4> QED BY <2>1, <4>1, <4>2
    <3> QED BY <3>1, <3>2
  <2> HIDE DEF G
  <2>3. SUBSET C \subseteq G
    BY <2>1, <2>2, SubsetInduction
  <2>4. SumFunctionOnSet(h, C) = 0
    BY <2>3 DEF G
  <2> QED BY <2>4 DEF CopiesIn, h
<1>5. ASSUME NEW m \in Models PROVE Exact(models[m], clientModels, clientProviders, m)
  <2>1. models[m] = NoRegistration
    BY <1>1
  <2>2. \A p \in Providers : OffersIn(clientModels, clientProviders, m, p) = 0
    BY <1>4 DEF OffersIn, ClientsOf
  <2> QED BY <1>4, <2>1, <2>2, NoRegistrationFacts DEF Exact
<1> QED BY <1>3, <1>5 DEF AllExact

LEMMA NextCounts ==
    ASSUME Types, AllExact, [Next]_vars
    PROVE  Types' /\ AllExact'
<1>1. CASE Register
  <2>1. PICK c \in Clients, r \in Providers \cup {None},
             list \in [Models -> 0 .. MaxCopies] \ {NoModels} :
          RegisterNewClient(c, r, list) \/ RegisterAgain(c, r, list)
    BY <1>1 DEF Register
  <2>2. list \in [Models -> Nat]
    BY RegistryAssumption
  <2> QED BY <2>1, <2>2, RegisterNewCounts, RegisterAgainCounts
<1>2. CASE Unregister
  BY <1>2, UnregisterCounts DEF Unregister
<1>3. CASE CleanupExpiredQuotas
  BY <1>3, CleanupCounts
<1>4. CASE Tick
  BY <1>4 DEF Tick, Types, AllExact
<1>5. CASE \E r \in Results : StartResult(r) \/ MakeCall(r)
  BY <1>5, StartCounts, MakeCallCounts
<1>6. CASE \E t \in 0 .. now : GetAvailableModels(t)
  BY <1>6 DEF GetAvailableModels, Types, AllExact
<1>7. CASE UNCHANGED vars
  BY <1>7 DEF vars, Types, AllExact
<1> QED BY <1>1, <1>2, <1>3, <1>4, <1>5, <1>6, <1>7 DEF Next

LEMMA CountsHold == Spec => [](Types /\ AllExact)
<1>1. Types /\ AllExact /\ [Next]_vars => (Types /\ AllExact)'
  BY NextCounts
<1> QED BY InitCounts, <1>1, PTL DEF Spec

\* The registry counts what its clients list: through registrations, changes
\* of provider, partial removals and departures, in any order, every model
\* has as many registrations as there are copies in the lists of the clients,
\* every provider as many as its clients list, and metadata for exactly the
\* providers that offer the model.
THEOREM CountsStayExact == Spec => []CountsExact
<1>1. Types /\ AllExact => CountsExact
  BY CountsMean
<1> QED BY CountsHold, <1>1, PTL

\* The two listings of the registry say the same of a provider, whether they
\* start from the counts of the models or from the lists of the clients.
THEOREM ListingsStayTogether == Spec => []ListingsAgree
<1>1. CountsExact => ListingsAgree
  <2> SUFFICES ASSUME CountsExact, NEW p \in Providers, NEW m \in Models
               PROVE  <<p, m>> \in BuildAvailableModels(now)
                        <=> m \in GetAvailableModelsByProvider(p)
    BY DEF ListingsAgree
  <2>1. models[m].providers[p] = Offers(m, p)
    BY DEF CountsExact
  <2>2. <<p, m>> \in BuildAvailableModels(now) <=> ProviderModelAvailable(m, p, now)
    BY DEF BuildAvailableModels
  <2>3. m \in GetAvailableModelsByProvider(p)
          <=> Served(Offers(m, p), Cardinality(Waiting(m, p, now)),
                     Cardinality(Suspended(m, p, "quota")),
                     Cardinality(Suspended(m, p, "other")))
    BY DEF GetAvailableModelsByProvider
  <2> QED BY <2>1, <2>2, <2>3 DEF ProviderModelAvailable
<1> QED BY CountsStayExact, <1>1, PTL

-----------------------------------------------------------------------------
(* The cached listing.                                                     *)

\* What an entry promises: the listing a build gives at any time from now on
\* until the entry ends, whenever its builder read the clock.
CacheFresh ==
    \/ cache = NoCache
    \/ /\ cache.valid = TRUE
       /\ \A t \in Nat : (t >= now /\ (cache.expires = None \/ t < cache.expires))
                            => cache.listing = BuildAvailableModels(t)

LEMMA RecoveriesAreTimes ==
    ASSUME Types, NEW t \in Nat
    PROVE  Recoveries(t) \subseteq Nat
<1> SUFFICES ASSUME NEW e \in Recoveries(t) PROVE e \in Nat
  OBVIOUS
<1>1. PICK mc \in Models \X Clients :
        /\ \E p \in Providers : mc[2] \in Waiting(mc[1], p, t)
        /\ e = models[mc[1]].quota[mc[2]] + Window
  BY DEF Recoveries
<1>2. models[mc[1]].quota[mc[2]] # None
  BY <1>1 DEF Waiting
<1>3. models[mc[1]].quota[mc[2]] \in Nat \cup {None}
  <2>1. models[mc[1]] \in Reg /\ mc[2] \in Clients
    BY DEF Types
  <2> QED BY <2>1 DEF Reg
<1> QED BY <1>1, <1>2, <1>3, RegistryAssumption

\* The entry ends before the first client that waited recovers.
LEMMA ExpiresInTime ==
    ASSUME Types, NEW t \in Nat, NEW m \in Models, NEW p \in Providers, NEW c \in Clients,
           models[m].providers[p] > 0, c \in Waiting(m, p, t)
    PROVE  /\ ExpiresAt(t) # None /\ ExpiresAt(t) \in Nat
           /\ ExpiresAt(t) <= models[m].quota[c] + Window
<1> DEFINE e == models[m].quota[c] + Window
<1>1. e \in Recoveries(t)
  <2> DEFINE mc == <<m, c>>
  <2>1. mc \in Models \X Clients /\ mc[1] = m /\ mc[2] = c
    OBVIOUS
  <2> HIDE DEF mc
  <2> QED BY <2>1 DEF Recoveries
<1>2. Recoveries(t) \subseteq Nat
  BY RecoveriesAreTimes
<1> HIDE DEF e
<1>3. \E x \in Recoveries(t) : \A y \in Recoveries(t) : x <= y
  BY <1>1, <1>2, LeastExists
<1>4. ExpiresAt(t) = CHOOSE x \in Recoveries(t) : \A y \in Recoveries(t) : x <= y
  BY <1>1 DEF ExpiresAt
<1>5. ExpiresAt(t) \in Recoveries(t) /\ \A y \in Recoveries(t) : ExpiresAt(t) <= y
  BY <1>3, <1>4
<1>6. ExpiresAt(t) <= e
  BY <1>1, <1>5
<1> QED BY <1>2, <1>5, <1>6, RegistryAssumption DEF e

\* A listing built with an old clock is the one a build gives until it ends.
LEMMA BuildsAgree ==
    ASSUME Types, NEW t0 \in Nat, NEW t \in Nat, t >= t0,
           ExpiresAt(t0) = None \/ t < ExpiresAt(t0)
    PROVE  BuildAvailableModels(t0) = BuildAvailableModels(t)
<1>1. ASSUME NEW p \in Providers, NEW m \in Models
      PROVE  ProviderModelAvailable(m, p, t0) <=> ProviderModelAvailable(m, p, t)
  <2>1. models[m].providers[p] \in Nat
    BY DEF Types, Reg
  <2>2. CASE models[m].providers[p] = 0
    <3>1. ASSUME NEW u \in Nat PROVE ~ProviderModelAvailable(m, p, u)
      <4> DEFINE waiting == Cardinality(Waiting(m, p, u))
                 others == Cardinality(Suspended(m, p, "other"))
      <4>1. waiting \in Nat /\ others \in Nat
        <5>1. Waiting(m, p, u) \subseteq Clients /\ Suspended(m, p, "other") \subseteq Clients
          BY DEF Waiting, Suspended
        <5> QED BY <5>1, RegistryAssumption, FS_Subset, FS_CardinalityType
      <4> HIDE DEF waiting, others
      <4>2. ~Served(0, waiting, Cardinality(Suspended(m, p, "quota")), others)
        BY <4>1 DEF Served
      <4> QED BY <2>2, <4>2 DEF ProviderModelAvailable, waiting, others
    <3> QED BY <3>1
  <2>3. CASE models[m].providers[p] > 0
    <3>1. ASSUME NEW c \in Clients
          PROVE  c \in Waiting(m, p, t0) <=> c \in Waiting(m, p, t)
      <4> DEFINE q == models[m].quota[c]
      <4>1. q \in Nat \cup {None}
        BY DEF Types, Reg
      <4>2. ASSUME c \in Waiting(m, p, t0) PROVE t < q + Window
        <5>1. /\ ExpiresAt(t0) # None /\ ExpiresAt(t0) \in Nat
              /\ ExpiresAt(t0) <= q + Window
          BY <2>3, <4>2, ExpiresInTime
        <5>2. q # None
          BY <4>2 DEF Waiting
        <5>3. q + Window \in Nat
          BY <4>1, <5>2, RegistryAssumption
        <5> QED BY <5>1, <5>3
      <4>3. q # None /\ t < q + Window => t0 < q + Window
        BY <4>1, RegistryAssumption
      <4> QED BY <4>2, <4>3 DEF Waiting
    <3>2. Waiting(m, p, t0) = Waiting(m, p, t)
      BY <3>1 DEF Waiting
    <3> QED BY <3>2 DEF ProviderModelAvailable
  <2> QED BY <2>1, <2>2, <2>3
<1>2. \A pm \in Providers \X Models :
        ProviderModelAvailable(pm[2], pm[1], t0) <=> ProviderModelAvailable(pm[2], pm[1], t)
  BY <1>1
<1> QED BY <1>2 DEF BuildAvailableModels

\* Nothing a listing is built from has changed.
LEMMA SameListing ==
    ASSUME UNCHANGED <<models, clientProviders>>
    PROVE  \A t \in Nat : BuildAvailableModels(t)' = BuildAvailableModels(t)
BY DEF BuildAvailableModels, ProviderModelAvailable, Waiting, Suspended

LEMMA CacheKept ==
    ASSUME CacheFresh, UNCHANGED <<models, clientProviders, cache>>, now \in Nat, now' \in Nat,
           now' >= now
    PROVE  CacheFresh'
<1>1. CASE cache = NoCache
  BY <1>1 DEF CacheFresh, NoCache
<1>2. CASE cache # NoCache
  <2>1. /\ cache.valid = TRUE
        /\ \A t \in Nat : (t >= now /\ (cache.expires = None \/ t < cache.expires))
                             => cache.listing = BuildAvailableModels(t)
    BY <1>2 DEF CacheFresh
  <2>2. ASSUME NEW t \in Nat, t >= now', cache'.expires = None \/ t < cache'.expires
        PROVE  cache'.listing = BuildAvailableModels(t)'
    BY <2>1, <2>2, SameListing
  <2> QED BY <2>1, <2>2 DEF CacheFresh
<1> QED BY <1>1, <1>2

LEMMA CacheEmptied ==
    ASSUME Invalidate
    PROVE  CacheFresh'
BY DEF Invalidate, CacheFresh, NoCache

LEMMA CacheBuilt ==
    ASSUME Types, NEW t0 \in 0 .. now, GetAvailableModels(t0)
    PROVE  CacheFresh'
<1>1. /\ cache' = [valid |-> TRUE, listing |-> BuildAvailableModels(t0),
                   expires |-> ExpiresAt(t0)]
      /\ UNCHANGED <<models, clientProviders, now>>
  BY DEF GetAvailableModels
<1>2. t0 \in Nat /\ now \in Nat /\ t0 <= now
  BY DEF Types
<1>3. ASSUME NEW t \in Nat, t >= now, ExpiresAt(t0) = None \/ t < ExpiresAt(t0)
      PROVE  BuildAvailableModels(t0) = BuildAvailableModels(t)'
  <2>1. t >= t0
    BY <1>2, <1>3
  <2> QED BY <1>1, <1>2, <1>3, <2>1, BuildsAgree, SameListing
<1>4. /\ cache'.valid = TRUE /\ cache'.listing = BuildAvailableModels(t0)
      /\ cache'.expires = ExpiresAt(t0) /\ now' = now
  BY <1>1
<1> QED BY <1>3, <1>4 DEF CacheFresh

LEMMA NextCache ==
    ASSUME Types, CacheFresh, [Next]_vars
    PROVE  CacheFresh'
<1>1. CASE Register
  BY <1>1, CacheEmptied DEF Register, RegisterNewClient, RegisterAgain
<1>2. CASE Unregister
  BY <1>2, CacheEmptied DEF Unregister, UnregisterClient
<1>3. CASE CleanupExpiredQuotas
  BY <1>3, CacheEmptied DEF CleanupExpiredQuotas
<1>4. CASE Tick
  <2>1. /\ UNCHANGED <<models, clientProviders, cache>>
        /\ now \in Nat /\ now' \in Nat /\ now' >= now
    BY <1>4 DEF Tick, Types
  <2> QED BY <2>1, CacheKept
<1>5. ASSUME NEW r \in Results, StartResult(r) PROVE CacheFresh'
  <2>1. /\ UNCHANGED <<models, clientProviders, cache>>
        /\ now \in Nat /\ now' \in Nat /\ now' >= now
    BY <1>5 DEF StartResult, Types
  <2> QED BY <2>1, CacheKept
<1>6. ASSUME NEW r \in Results, MakeCall(r) PROVE CacheFresh'
  <2>1. Invalidate \/ UNCHANGED <<models, cache>>
    BY <1>6 DEF MakeCall, SetModelQuotaExceeded, ClearModelQuotaExceeded,
                SuspendClientModel, ResumeClientModel, NoEffect
  <2>2. /\ UNCHANGED <<clientProviders>>
        /\ now \in Nat /\ now' \in Nat /\ now' >= now
    BY <1>6 DEF MakeCall, Types
  <2> QED BY <2>1, <2>2, CacheKept, CacheEmptied
<1>7. CASE \E t \in 0 .. now : GetAvailableModels(t)
  BY <1>7, CacheBuilt
<1>8. CASE UNCHANGED vars
  <2>1. /\ UNCHANGED <<models, clientProviders, cache>>
        /\ now \in Nat /\ now' \in Nat /\ now' >= now
    BY <1>8 DEF vars, Types
  <2> QED BY <2>1, CacheKept
<1> QED BY <1>1, <1>2, <1>3, <1>4, <1>5, <1>6, <1>7, <1>8 DEF Next

\* A listing that is served from the cache is the one a build would give at
\* that moment, also when its builder read the clock long before it got the
\* mutex, and however quotas were spent, cleared and recovered meanwhile.
THEOREM CacheStaysHonest == Spec => []CacheHonest
<1>1. Init => CacheFresh
  BY DEF Init, CacheFresh
<1>2. Types /\ CacheFresh /\ [Next]_vars => CacheFresh'
  BY NextCache
<1>3. Types /\ CacheFresh => CacheHonest
  <2> SUFFICES ASSUME Types, CacheFresh, Valid(cache, now)
               PROVE  cache.listing = BuildAvailableModels(now)
    BY DEF CacheHonest
  <2>1. now \in Nat /\ now >= now
    BY DEF Types
  <2>2. cache # NoCache
    BY DEF Valid, NoCache
  <2> QED BY <2>1, <2>2 DEF CacheFresh, Valid
<1> QED BY CountsHold, <1>1, <1>2, <1>3, PTL DEF Spec

=============================================================================
