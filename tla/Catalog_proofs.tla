---------------------------- MODULE Catalog_proofs ----------------------------
(***************************************************************************)
(* Proofs about Catalog, for any patterns, accounts, endpoints and         *)
(* listings, and any number of scans, registrations and deletions; and     *)
(* about ModelRouting, the names discovery gives to what the catalogue     *)
(* holds, for any providers' listings.                                     *)
(***************************************************************************)
EXTENDS Catalog, ModelRouting, FiniteSetTheorems, TLAPS

Binding == [pool : Nat, account : Accounts]
Lock == [pattern : Patterns, pool : Nat]
Discovered == [pattern : Patterns, account : Accounts]

Transaction ==
    [phase : Phases, items : SUBSET (Discovered \cup Lock), next : Patterns \cup {None},
     todo : SUBSET Patterns, held : SUBSET Lock,
     known : SUBSET Binding, added : SUBSET Binding]

Endpoints == { Endpoint[a] : a \in Accounts }

Report ==
    [endpoints : SUBSET Endpoints, accounts : SUBSET Accounts,
     ok : Nat, failed : Nat, cut : BOOLEAN]

Upserters == Scanners \cup Registrars

(* Every variable has its type; and those who bind keys have found them.   *)
CatalogTypeOK ==
    /\ pools \in [Patterns -> Nat]
    /\ rows \subseteq [pool : Nat, account : Accounts, by : Writers \cup {Hand}, healthy : BOOLEAN]
    /\ fresh \in Nat
    /\ tx \in [Writers -> Transaction]
    /\ scan \in [Scanners -> Report]
    /\ \A w \in Upserters : tx[w].items \subseteq Discovered

LEMMA SharingFinite ==
    ASSUME NEW w \in Scanners, CatalogTypeOK, NEW g
    PROVE  /\ Sharing(w, g) \subseteq Accounts
           /\ Cardinality(Sharing(w, g)) \in Nat
<1>1. Sharing(w, g) \subseteq Accounts
  BY DEF Sharing, CatalogTypeOK, Report
<1>2. IsFiniteSet(Sharing(w, g))
  BY <1>1, FS_Subset, CatalogAssumption
<1> QED BY <1>1, <1>2, FS_CardinalityType

LEMMA NextOfType ==
    ASSUME NEW w, NEW todo \in SUBSET Patterns, NEW n \in NextOf(w, todo)
    PROVE  /\ n \in Patterns \cup {None}
           /\ n \in todo \/ (todo = {} /\ n = None)
           /\ w \in Scanners => \A q \in todo : n <= q
BY DEF NextOf

\* A transaction that begins is one.
LEMMA BeginType ==
    ASSUME CatalogTypeOK, NEW w \in Writers, NEW known \in SUBSET Binding,
           NEW items, items \subseteq Discovered \/ items \subseteq Lock,
           w \in Upserters => items \subseteq Discovered,
           Begin(w, items, known)
    PROVE  /\ tx' \in [Writers -> Transaction]
           /\ \A v \in Upserters : tx'[v].items \subseteq Discovered
<1> DEFINE todo == { i.pattern : i \in items }
<1>1. todo \in SUBSET Patterns
  BY SMTT(30) DEF Discovered, Lock
<1>2. PICK n \in NextOf(w, todo) :
        tx' = [tx EXCEPT ![w] = [Idle EXCEPT !.phase = "lock", !.items = items, !.next = n,
                                             !.todo = todo, !.known = known]]
  BY DEF Begin
<1>3. n \in Patterns \cup {None}
  BY <1>1, NextOfType
<1>4. [Idle EXCEPT !.phase = "lock", !.items = items, !.next = n,
                   !.todo = todo, !.known = known] \in Transaction
  BY <1>1, <1>3 DEF Idle, Transaction, Phases
<1>5. tx' \in [Writers -> Transaction]
  BY <1>2, <1>4 DEF CatalogTypeOK
<1>6. tx'[w].items = items /\ \A v \in Writers \ {w} : tx'[v] = tx[v]
  BY <1>2 DEF CatalogTypeOK, Idle
<1>7. \A v \in Upserters : tx'[v].items \subseteq Discovered
  BY <1>6 DEF CatalogTypeOK, Upserters, Writers
<1> QED BY <1>5, <1>7

LEMMA CatalogInit == Init => CatalogTypeOK
<1> SUFFICES ASSUME Init PROVE CatalogTypeOK
  OBVIOUS
<1>1. pools \in [Patterns -> Nat]
  BY CatalogAssumption DEF Init, None
<1>2. rows \subseteq [pool : Nat, account : Accounts, by : Writers \cup {Hand}, healthy : BOOLEAN]
  <2>1. \A b \in Initial : b.pattern \in Nat /\ b.account \in Accounts
    BY CatalogAssumption
  <2>2. \A b \in Initial :
          Row([pool |-> b.pattern, account |-> b.account], Hand)
            \in [pool : Nat, account : Accounts, by : Writers \cup {Hand}, healthy : BOOLEAN]
    BY <2>1 DEF Row
  <2> QED BY <2>2 DEF Init
<1>3. Idle \in Transaction
  BY DEF Idle, Transaction, Phases
<1>4. NoScan \in Report
  BY DEF NoScan, Report
<1> QED
  BY <1>1, <1>2, <1>3, <1>4, CatalogAssumption DEF Init, CatalogTypeOK, Idle, Upserters, Writers

\* A step inside a transaction keeps its type.
LEMMA ScanTypes ==
    ASSUME CatalogTypeOK, NEW w \in Scanners,
           \/ ScanStart(w)
           \/ \E g \in scan[w].endpoints :
                  \/ \E listed \in SUBSET Offers[g] : ScanListed(w, g, listed)
                  \/ ScanFailed(w, g)
           \/ ScanCut(w)
    PROVE  CatalogTypeOK'
<1>0. w \in Writers /\ w \in Upserters /\ tx[w] \in Transaction /\ scan[w] \in Report
  BY DEF Writers, Upserters, CatalogTypeOK
<1>a. BoundAccounts \in SUBSET Accounts
  BY DEF BoundAccounts, CatalogTypeOK
<1>1. CASE ScanStart(w)
  <2>1. { Endpoint[a] : a \in BoundAccounts } \in SUBSET Endpoints
    BY <1>a DEF Endpoints
  <2>2. scan' \in [Scanners -> Report]
    BY <1>0, <1>1, <1>a, <2>1 DEF ScanStart, CatalogTypeOK, Report
  <2>3. tx' \in [Writers -> Transaction] /\ \A v \in Writers : tx'[v].items = tx[v].items
    BY <1>0, <1>1 DEF ScanStart, CatalogTypeOK, Transaction, Phases
  <2> QED BY <1>1, <2>2, <2>3 DEF ScanStart, Called, CatalogTypeOK, Upserters, Writers
<1>2. ASSUME NEW g \in scan[w].endpoints, NEW listed \in SUBSET Offers[g],
             ScanListed(w, g, listed)
      PROVE  CatalogTypeOK'
  <2>1. g \in Endpoints
    BY <1>0 DEF Report
  <2>2. listed \subseteq Patterns
    BY <2>1, CatalogAssumption DEF Endpoints
  <2>3. [pattern : listed, account : Sharing(w, g)] \subseteq Discovered
    <3>1. Sharing(w, g) \subseteq Accounts
      BY SharingFinite
    <3> QED BY <2>2, <3>1 DEF Discovered
  <2> DEFINE found == [pattern : listed, account : Sharing(w, g)]
  <2>a. found \subseteq Discovered
    BY <2>3
  <2>b. tx' = [tx EXCEPT ![w].items = @ \cup found]
    BY <1>2 DEF ScanListed
  <2> HIDE DEF found
  <2>c. tx[w].items \cup found \subseteq Discovered
    BY <1>0, <2>a DEF CatalogTypeOK
  <2>4. tx' \in [Writers -> Transaction]
    BY <1>0, <2>b, <2>c DEF CatalogTypeOK, Transaction
  <2>5. \A v \in Upserters : tx'[v].items \subseteq Discovered
    BY <1>0, <2>b, <2>c DEF CatalogTypeOK, Upserters, Writers, Transaction
  <2> DEFINE n == Cardinality(Sharing(w, g))
  <2>s. n \in Nat
    BY SharingFinite
  <2>t. scan' = [scan EXCEPT ![w].endpoints = @ \ {g}, ![w].ok = @ + n]
    BY <1>2 DEF ScanListed
  <2> HIDE DEF n
  <2> DEFINE left == scan[w].endpoints \ {g}
             more == scan[w].ok + n
  <2>u. left \in SUBSET Endpoints /\ more \in Nat
    BY <1>0, <2>s DEF Report
  <2>v. scan' = [scan EXCEPT ![w].endpoints = left, ![w].ok = more]
    BY <1>0, <2>t DEF CatalogTypeOK, Report
  <2> HIDE DEF left, more
  <2>6. scan' \in [Scanners -> Report]
    BY <1>0, <2>u, <2>v DEF CatalogTypeOK, Report
  <2> QED BY <1>2, <2>4, <2>5, <2>6 DEF ScanListed, CatalogTypeOK
<1>3. ASSUME NEW g \in scan[w].endpoints, ScanFailed(w, g)
      PROVE  CatalogTypeOK'
  <2> DEFINE n == Cardinality(Sharing(w, g))
  <2>s. n \in Nat
    BY SharingFinite
  <2>t. scan' = [scan EXCEPT ![w].endpoints = @ \ {g}, ![w].failed = @ + n]
    BY <1>3 DEF ScanFailed
  <2> HIDE DEF n
  <2> DEFINE left == scan[w].endpoints \ {g}
             more == scan[w].failed + n
  <2>u. left \in SUBSET Endpoints /\ more \in Nat
    BY <1>0, <2>s DEF Report
  <2>v. scan' = [scan EXCEPT ![w].endpoints = left, ![w].failed = more]
    BY <1>0, <2>t DEF CatalogTypeOK, Report
  <2> HIDE DEF left, more
  <2>1. scan' \in [Scanners -> Report]
    BY <1>0, <2>u, <2>v DEF CatalogTypeOK, Report
  <2> QED BY <1>3, <2>1 DEF ScanFailed, CatalogTypeOK
<1>4. CASE ScanCut(w)
  <2>1. scan' \in [Scanners -> Report]
    BY <1>0, <1>4 DEF ScanCut, CatalogTypeOK, Report
  <2> QED BY <1>4, <2>1 DEF ScanCut, CatalogTypeOK
<1> QED BY <1>1, <1>2, <1>3, <1>4

\* What an upsert locks, and what a registration binds to it.
LEMMA UpsertedType ==
    ASSUME CatalogTypeOK, NEW w \in Writers, NEW p \in Patterns
    PROVE  /\ Upserted(p) \in Lock
           /\ w \in Upserters => BoundAtOnce(w, Upserted(p)) \in SUBSET Binding
<1>1. Upserted(p) \in Lock
  BY DEF Upserted, Lock, CatalogTypeOK
<1>2. w \in Upserters => \A i \in tx[w].items : i.account \in Accounts
  BY DEF CatalogTypeOK, Discovered
<1>3. w \in Upserters => BoundAtOnce(w, Upserted(p)) \in SUBSET Binding
  BY <1>1, <1>2 DEF BoundAtOnce, Binding, Lock
<1> QED BY <1>1, <1>3

LEMMA WantedType ==
    ASSUME CatalogTypeOK, NEW w \in Upserters
    PROVE  Wanted(w) \in SUBSET Binding
<1>1. \A r \in tx[w].held : r.pool \in Nat
  BY DEF CatalogTypeOK, Transaction, Lock, Upserters, Writers
<1>2. \A i \in tx[w].items : i.account \in Accounts
  BY DEF CatalogTypeOK, Discovered
<1> QED BY <1>1, <1>2 DEF Wanted, Binding

LEMMA BindingsType ==
    ASSUME CatalogTypeOK, NEW R \in SUBSET rows
    PROVE  Bindings(R) \in SUBSET Binding
BY DEF Bindings, Binding, CatalogTypeOK

LEMMA PoolRowsType ==
    ASSUME CatalogTypeOK
    PROVE  PoolRows \subseteq Lock /\ ZeroHealth \subseteq PoolRows
BY DEF PoolRows, ZeroHealth, Lock, CatalogTypeOK

LEMMA BeginTypes ==
    ASSUME CatalogTypeOK, NEW w \in Writers,
           \/ w \in Scanners /\ BatchBegin(w)
           \/ w \in Registrars /\ \E a \in Accounts : \E listed \in SUBSET Offers[Endpoint[a]] :
                  RegisterBegin(w, a, listed)
           \/ w \in Sweepers /\ \E chosen \in SUBSET PoolRows : SweepBegin(w, chosen)
    PROVE  CatalogTypeOK'
<1>1. CASE w \in Scanners /\ BatchBegin(w)
  <2>1. tx[w].items \subseteq Discovered
    BY <1>1 DEF CatalogTypeOK, Upserters
  <2>2. Begin(w, tx[w].items, {})
    BY <1>1 DEF BatchBegin
  <2>3. tx' \in [Writers -> Transaction] /\ \A v \in Upserters : tx'[v].items \subseteq Discovered
    BY <2>1, <2>2, BeginType
  <2> QED BY <1>1, <2>3 DEF BatchBegin, CatalogTypeOK
<1>2. ASSUME w \in Registrars, NEW a \in Accounts, NEW listed \in SUBSET Offers[Endpoint[a]],
             RegisterBegin(w, a, listed)
      PROVE  CatalogTypeOK'
  <2> DEFINE items == [pattern : listed, account : {a}]
             known == Bindings({ r \in rows : r.account = a })
  <2>1. listed \subseteq Patterns
    BY CatalogAssumption
  <2>2. items \subseteq Discovered
    BY <2>1 DEF Discovered
  <2>3. known \in SUBSET Binding
    BY BindingsType
  <2>4. Begin(w, items, known)
    BY <1>2 DEF RegisterBegin
  <2> HIDE DEF items, known
  <2>5. tx' \in [Writers -> Transaction] /\ \A v \in Upserters : tx'[v].items \subseteq Discovered
    BY <2>2, <2>3, <2>4, BeginType
  <2> QED BY <1>2, <2>5 DEF RegisterBegin, CatalogTypeOK
<1>3. ASSUME w \in Sweepers, NEW chosen \in SUBSET PoolRows, SweepBegin(w, chosen)
      PROVE  CatalogTypeOK'
  <2>1. chosen \subseteq Lock /\ w \notin Upserters
    BY <1>3, PoolRowsType, CatalogAssumption DEF Upserters
  <2>2. Begin(w, chosen, {})
    BY <1>3 DEF SweepBegin
  <2>3. tx' \in [Writers -> Transaction] /\ \A v \in Upserters : tx'[v].items \subseteq Discovered
    BY <2>1, <2>2, BeginType
  <2> QED BY <1>3, <2>3 DEF SweepBegin, CatalogTypeOK
<1> QED BY <1>1, <1>2, <1>3

LEMMA UpsertTypes ==
    ASSUME CatalogTypeOK, NEW w \in Upserters, Upsert(w)
    PROVE  CatalogTypeOK'
<1> DEFINE p == tx[w].next
           r == Upserted(p)
           bound == BoundAtOnce(w, r)
<1>0. w \in Writers /\ tx[w] \in Transaction
  BY DEF Writers, Upserters, CatalogTypeOK
<1>1. p \in Patterns
  BY <1>0 DEF Upsert, Transaction
<1>2. r \in Lock /\ bound \in SUBSET Binding
  BY <1>0, <1>1, UpsertedType
<1>3. PICK n \in NextOf(w, tx[w].todo \ {p}) :
           tx' = [tx EXCEPT ![w].todo = @ \ {p}, ![w].next = n,
                            ![w].held = @ \cup {r},
                            ![w].known = @ \cup bound,
                            ![w].added = @ \cup bound]
  BY DEF Upsert
<1>4. tx[w].todo \ {p} \in SUBSET Patterns
  BY <1>0 DEF Transaction
<1>5. n \in Patterns \cup {None}
  BY <1>3, <1>4, NextOfType
<1> DEFINE todo  == tx[w].todo \ {p}
           held  == tx[w].held \cup {r}
           known == tx[w].known \cup bound
           added == tx[w].added \cup bound
<1>a. held \in SUBSET Lock /\ known \in SUBSET Binding /\ added \in SUBSET Binding
  BY <1>0, <1>2 DEF Transaction
<1>b. tx' = [tx EXCEPT ![w].todo = todo, ![w].next = n, ![w].held = held,
                       ![w].known = known, ![w].added = added]
  BY <1>0, <1>3 DEF CatalogTypeOK, Transaction
<1> HIDE DEF p, r, bound, todo, held, known, added
<1>c. todo \in SUBSET Patterns
  BY <1>4 DEF todo
<1>6. tx' \in [Writers -> Transaction]
  BY <1>0, <1>a, <1>b, <1>c, <1>5 DEF CatalogTypeOK, Transaction
<1>7. \A v \in Writers : tx'[v].items = tx[v].items
  BY <1>0, <1>b DEF CatalogTypeOK, Transaction
<1>8. fresh' \in Nat /\ UNCHANGED <<pools, rows, scan>>
  BY DEF Upsert, CatalogTypeOK
<1> QED BY <1>6, <1>7, <1>8 DEF CatalogTypeOK, Upserters, Writers

LEMMA EndTypes ==
    ASSUME CatalogTypeOK, NEW w \in Writers, NEW phase \in Phases, Ended(w, phase)
    PROVE  /\ tx' \in [Writers -> Transaction]
           /\ \A v \in Upserters : tx'[v].items \subseteq Discovered
<1>1. [Idle EXCEPT !.phase = phase] \in Transaction
  BY DEF Idle, Transaction
<1>2. tx' \in [Writers -> Transaction]
  BY <1>1 DEF Ended, CatalogTypeOK
<1>3. \A v \in Upserters : tx'[v].items = {} \/ tx'[v].items = tx[v].items
  BY DEF Ended, CatalogTypeOK, Upserters, Writers, Idle
<1> QED BY <1>2, <1>3 DEF CatalogTypeOK

LEMMA StepTypes ==
    ASSUME CatalogTypeOK, NEW w \in Writers,
           \/ w \in Scanners /\ (NothingFound(w) \/ BatchRead(w))
           \/ w \in Upserters /\ Commit(w)
           \/ w \in Sweepers /\ (SweepTake(w) \/ SweepCommit(w))
           \/ Abort(w)
    PROVE  CatalogTypeOK'
<1>0. tx[w] \in Transaction
  BY DEF CatalogTypeOK
<1>1. CASE w \in Scanners /\ NothingFound(w)
  <2>1. tx' \in [Writers -> Transaction] /\ \A v \in Writers : tx'[v].items = tx[v].items
    BY <1>0, <1>1 DEF NothingFound, CatalogTypeOK, Transaction, Phases
  <2> QED BY <1>1, <2>1 DEF NothingFound, CatalogTypeOK, Upserters, Writers
<1>2. CASE w \in Scanners /\ BatchRead(w)
  <2> DEFINE known == Bindings({ r \in rows : \E h \in tx[w].held : h.pool = r.pool })
             added == Wanted(w) \ known
  <2>1. known \in SUBSET Binding /\ added \in SUBSET Binding
    BY <1>2, BindingsType, WantedType DEF Upserters
  <2>2. tx' = [tx EXCEPT ![w].phase = "copy", ![w].known = known, ![w].added = added]
    BY <1>2 DEF BatchRead
  <2> HIDE DEF known, added
  <2>3. tx' \in [Writers -> Transaction] /\ \A v \in Writers : tx'[v].items = tx[v].items
    BY <1>0, <2>1, <2>2 DEF CatalogTypeOK, Transaction, Phases
  <2> QED BY <1>2, <2>3 DEF BatchRead, CatalogTypeOK, Upserters, Writers
<1>3. CASE w \in Upserters /\ Commit(w)
  <2>1. \A p \in Patterns : (\E r \in tx[w].held : r.pattern = p) =>
             (CHOOSE r \in tx[w].held : r.pattern = p).pool \in Nat
    BY <1>0 DEF Transaction, Lock
  <2>2. pools' \in [Patterns -> Nat]
    BY <1>3, <2>1 DEF Commit, CatalogTypeOK
  <2>3. \A b \in tx[w].added : Row(b, w) \in
            [pool : Nat, account : Accounts, by : Writers \cup {Hand}, healthy : BOOLEAN]
    BY <1>0 DEF Transaction, Binding, Row
  <2>4. rows' \subseteq [pool : Nat, account : Accounts, by : Writers \cup {Hand}, healthy : BOOLEAN]
    BY <1>3, <2>3 DEF Commit, CatalogTypeOK
  <2>5. tx' \in [Writers -> Transaction] /\ \A v \in Upserters : tx'[v].items \subseteq Discovered
    BY <1>3, EndTypes DEF Commit, Phases
  <2> QED BY <1>3, <2>2, <2>4, <2>5 DEF Commit, CatalogTypeOK
<1>4. CASE w \in Sweepers /\ SweepTake(w)
  <2> DEFINE r == [pattern |-> tx[w].next, pool |-> pools[tx[w].next]]
             held == IF r \in tx[w].items THEN tx[w].held \cup {r} ELSE tx[w].held
             todo == tx[w].todo \ {r.pattern}
  <2>1. r \in Lock
    BY <1>0, <1>4 DEF SweepTake, Transaction, Lock, CatalogTypeOK
  <2>2. held \in SUBSET Lock /\ todo \in SUBSET Patterns
    BY <1>0, <2>1 DEF Transaction
  <2>3. PICK n \in NextOf(w, todo) :
            tx' = [tx EXCEPT ![w].todo = todo, ![w].next = n, ![w].held = held]
    BY <1>0, <1>4 DEF SweepTake, CatalogTypeOK, Transaction
  <2>4. n \in Patterns \cup {None}
    BY <2>2, <2>3, NextOfType
  <2> HIDE DEF r, held, todo
  <2>5. tx' \in [Writers -> Transaction] /\ \A v \in Writers : tx'[v].items = tx[v].items
    BY <1>0, <2>2, <2>3, <2>4 DEF CatalogTypeOK, Transaction
  <2> QED BY <1>4, <2>5 DEF SweepTake, CatalogTypeOK, Upserters, Writers
<1>5. CASE w \in Sweepers /\ SweepCommit(w)
  <2>1. pools' \in [Patterns -> Nat] /\ rows' \subseteq rows
    BY <1>5 DEF SweepCommit, CatalogTypeOK, None
  <2>2. tx' \in [Writers -> Transaction] /\ \A v \in Upserters : tx'[v].items \subseteq Discovered
    BY <1>5, EndTypes DEF SweepCommit, Phases
  <2> QED BY <1>5, <2>1, <2>2 DEF SweepCommit, CatalogTypeOK
<1>6. CASE Abort(w)
  <2>1. tx' \in [Writers -> Transaction] /\ \A v \in Upserters : tx'[v].items \subseteq Discovered
    BY <1>6, EndTypes DEF Abort, Phases
  <2> QED BY <1>6, <2>1 DEF Abort, CatalogTypeOK
<1> QED BY <1>1, <1>2, <1>3, <1>4, <1>5, <1>6

LEMMA EditTypes == ASSUME CatalogTypeOK, Edit PROVE CatalogTypeOK'
<1> DEFINE Credential == [pool : Nat, account : Accounts, by : Writers \cup {Hand}, healthy : BOOLEAN]
<1>1. ASSUME NEW p \in Patterns, CreateModelPool(p) PROVE CatalogTypeOK'
  BY <1>1 DEF CreateModelPool, CatalogTypeOK
<1>2. ASSUME NEW p \in Patterns, NEW a \in Accounts, CreateCredential(p, a) PROVE CatalogTypeOK'
  <2>1. Row([pool |-> pools[p], account |-> a], Hand) \in Credential
    BY DEF Row, CatalogTypeOK
  <2> QED BY <1>2, <2>1 DEF CreateCredential, CatalogTypeOK
<1>3. ASSUME NEW r \in rows, DeleteCredential(r) PROVE CatalogTypeOK'
  BY <1>3 DEF DeleteCredential, CatalogTypeOK
<1>4. ASSUME NEW r \in rows, NEW healthy \in BOOLEAN, UpdateCredentialHealthState(r, healthy)
      PROVE  CatalogTypeOK'
  <2>1. [r EXCEPT !.healthy = healthy] \in Credential
    BY DEF CatalogTypeOK
  <2> QED BY <1>4, <2>1 DEF UpdateCredentialHealthState, CatalogTypeOK
<1>5. ASSUME NEW chosen, ActivateCredentialsBulk(chosen) PROVE CatalogTypeOK'
  <2>1. \A c \in rows : [c EXCEPT !.healthy = TRUE] \in Credential
    BY DEF CatalogTypeOK
  <2> QED BY <1>5, <2>1 DEF ActivateCredentialsBulk, CatalogTypeOK
<1> QED BY <1>1, <1>2, <1>3, <1>4, <1>5 DEF Edit

-----------------------------------------------------------------------------
\* Every step is one of these.
StepOf(w) ==
    \/ /\ w \in Scanners
       /\ \/ ScanStart(w)
          \/ \E g \in scan[w].endpoints :
                 \/ \E listed \in SUBSET Offers[g] : ScanListed(w, g, listed)
                 \/ ScanFailed(w, g)
          \/ ScanCut(w)
    \/ \/ w \in Scanners /\ BatchBegin(w)
       \/ w \in Registrars /\ \E a \in Accounts : \E listed \in SUBSET Offers[Endpoint[a]] :
              RegisterBegin(w, a, listed)
       \/ w \in Sweepers /\ \E chosen \in SUBSET PoolRows : SweepBegin(w, chosen)
    \/ w \in Upserters /\ Upsert(w)
    \/ \/ w \in Scanners /\ (NothingFound(w) \/ BatchRead(w))
       \/ w \in Upserters /\ Commit(w)
       \/ w \in Sweepers /\ (SweepTake(w) \/ SweepCommit(w))
       \/ Abort(w)

LEMMA Steps == ASSUME CatalogTypeOK, Next PROVE Edit \/ \E w \in Writers : StepOf(w)
<1>1. ASSUME NEW w \in Scanners, Scanning(w) PROVE w \in Writers /\ StepOf(w)
  BY <1>1 DEF Scanning, StepOf, Upserters, Writers
<1>2. ASSUME NEW w \in Registrars, Registering(w) PROVE w \in Writers /\ StepOf(w)
  BY <1>2 DEF Registering, StepOf, Upserters, Writers
<1>3. ASSUME NEW w \in Sweepers, Sweeping(w) PROVE w \in Writers /\ StepOf(w)
  BY <1>3, PoolRowsType DEF Sweeping, StepOf, Writers
<1>4. ASSUME NEW w \in Writers, BreakCycle(w) PROVE StepOf(w)
  BY <1>4 DEF BreakCycle, StepOf
<1> QED BY <1>1, <1>2, <1>3, <1>4 DEF Next

LEMMA CatalogTypes == CatalogTypeOK /\ [Next]_vars => CatalogTypeOK'
<1> SUFFICES ASSUME CatalogTypeOK, [Next]_vars PROVE CatalogTypeOK'
  OBVIOUS
<1>1. CASE UNCHANGED vars
  BY <1>1 DEF vars, CatalogTypeOK
<1>2. CASE Edit
  BY <1>2, EditTypes
<1>3. ASSUME NEW w \in Writers, StepOf(w) PROVE CatalogTypeOK'
  BY <1>3, ScanTypes, BeginTypes, UpsertTypes, StepTypes DEF StepOf
<1> QED BY <1>1, <1>2, <1>3, Steps

(* In every reachable state the variables are what they are meant to be,   *)
(* and a registration or a scan is about keys and patterns that exist.     *)
THEOREM CatalogTypeCorrect == Spec => []CatalogTypeOK
BY CatalogInit, CatalogTypes, PTL DEF Spec

-----------------------------------------------------------------------------
(* The order in which a transaction locks.                                 *)

LockOrder ==
    \A w \in Upserters :
        /\ tx[w].next \in tx[w].todo \/ (tx[w].next = None /\ tx[w].todo = {})
        /\ \A r \in tx[w].held : r.pattern \notin tx[w].todo
        /\ w \in Scanners =>
             /\ \A q \in tx[w].todo : tx[w].next <= q
             /\ \A r \in tx[w].held : \A q \in tx[w].todo : r.pattern < q

LEMMA LockOrderBegins ==
    ASSUME CatalogTypeOK, LockOrder, NEW w \in Writers, NEW known, NEW items,
           \A i \in items : i.pattern \in Patterns, Begin(w, items, known)
    PROVE  LockOrder'
<1> DEFINE todo == { i.pattern : i \in items }
<1>1. todo \in SUBSET Patterns
  BY SMTT(30)
<1>2. PICK n \in NextOf(w, todo) :
        tx' = [tx EXCEPT ![w] = [Idle EXCEPT !.phase = "lock", !.items = items, !.next = n,
                                             !.todo = todo, !.known = known]]
  BY DEF Begin
<1>3. /\ n \in todo \/ (todo = {} /\ n = None)
      /\ w \in Scanners => \A q \in todo : n <= q
  BY <1>1, NextOfType
<1> HIDE DEF todo
<1>4. /\ tx'[w].next = n /\ tx'[w].todo = todo /\ tx'[w].held = {}
      /\ \A v \in Writers \ {w} : tx'[v] = tx[v]
  BY <1>2 DEF CatalogTypeOK, Idle
<1> QED BY <1>3, <1>4 DEF LockOrder, Upserters, Writers

LEMMA LockOrderUpsert ==
    ASSUME CatalogTypeOK, LockOrder, NEW w \in Upserters, Upsert(w)
    PROVE  LockOrder'
<1> DEFINE p == tx[w].next
           r == Upserted(p)
           todo == tx[w].todo \ {p}
<1>0. w \in Writers /\ tx[w] \in Transaction
  BY DEF Writers, Upserters, CatalogTypeOK
<1>1. PICK n \in NextOf(w, todo) :
           tx' = [tx EXCEPT ![w].todo = @ \ {p}, ![w].next = n,
                            ![w].held = @ \cup {r},
                            ![w].known = @ \cup BoundAtOnce(w, r),
                            ![w].added = @ \cup BoundAtOnce(w, r)]
  BY DEF Upsert
<1>2. todo \in SUBSET Patterns /\ p \in tx[w].todo /\ p \in Patterns
  BY <1>0 DEF Transaction, Upsert, LockOrder
<1>3. /\ n \in todo \/ (todo = {} /\ n = None)
      /\ w \in Scanners => \A q \in todo : n <= q
  BY SMTT(30), <1>1, <1>2, NextOfType
<1>4. r.pattern = p
  BY DEF Upserted
<1>5. /\ tx'[w].next = n /\ tx'[w].todo = todo /\ tx'[w].held = tx[w].held \cup {r}
      /\ \A v \in Writers \ {w} : tx'[v] = tx[v]
  BY <1>0, <1>1 DEF CatalogTypeOK, Transaction
<1>6. w \in Scanners => \A q \in todo : p < q
  <2>1. ASSUME w \in Scanners, NEW q \in todo PROVE p < q
    <3>1. p <= q /\ p # q
      BY <2>1 DEF LockOrder
    <3>2. p \in Nat /\ q \in Nat
      BY <1>2, CatalogAssumption
    <3> QED BY <3>1, <3>2
  <2> QED BY <2>1
<1>7. \A s \in tx[w].held \cup {r} : s.pattern \notin todo
  BY <1>4 DEF LockOrder
<1>8. w \in Scanners => \A s \in tx[w].held \cup {r} : \A q \in todo : s.pattern < q
  BY <1>4, <1>6 DEF LockOrder
<1> HIDE DEF todo, r
<1> QED BY <1>3, <1>5, <1>7, <1>8 DEF LockOrder, Upserters, Writers

\* A step that lets go of everything, or takes nothing.
LEMMA LockOrderKept ==
    ASSUME LockOrder,
           \A v \in Upserters :
               \/ tx'[v].next = None /\ tx'[v].todo = {} /\ tx'[v].held = {}
               \/ /\ tx'[v].next = tx[v].next /\ tx'[v].todo = tx[v].todo
                  /\ tx'[v].held = tx[v].held
    PROVE  LockOrder'
BY DEF LockOrder

\* What every step but a beginning and an upsert does to locks.
LEMMA LocksKept ==
    ASSUME CatalogTypeOK, NEW w \in Writers,
           \/ /\ w \in Scanners
              /\ \/ ScanStart(w)
                 \/ \E g \in scan[w].endpoints :
                        \/ \E listed \in SUBSET Offers[g] : ScanListed(w, g, listed)
                        \/ ScanFailed(w, g)
                 \/ ScanCut(w)
                 \/ NothingFound(w)
                 \/ BatchRead(w)
           \/ w \in Upserters /\ Commit(w)
           \/ w \in Sweepers /\ (SweepTake(w) \/ SweepCommit(w))
           \/ Abort(w)
    PROVE  \A v \in Upserters :
               \/ tx'[v].next = None /\ tx'[v].todo = {} /\ tx'[v].held = {} /\ tx'[v].added = {}
                  /\ tx'[v].phase \in {"done", "failed"}
               \/ /\ tx'[v].next = tx[v].next /\ tx'[v].todo = tx[v].todo
                  /\ tx'[v].held = tx[v].held
<1>0. tx[w] \in Transaction /\ \A v \in Upserters : v \in Writers
  BY DEF CatalogTypeOK, Upserters, Writers
<1>1. CASE /\ w \in Scanners
           /\ \/ ScanStart(w)
              \/ \E g \in scan[w].endpoints : 
                     \/ \E listed \in SUBSET Offers[g] : ScanListed(w, g, listed)
                     \/ ScanFailed(w, g)
              \/ ScanCut(w)
              \/ NothingFound(w)
              \/ BatchRead(w)
  <2>1. CASE ScanStart(w)
    BY <1>0, <2>1 DEF ScanStart, CatalogTypeOK, Transaction
  <2>2. ASSUME NEW g, NEW listed, ScanListed(w, g, listed)
        PROVE  \A v \in Upserters : /\ tx'[v].next = tx[v].next /\ tx'[v].todo = tx[v].todo
                                    /\ tx'[v].held = tx[v].held
    BY <1>0, <2>2 DEF ScanListed, CatalogTypeOK, Transaction
  <2>3. ASSUME NEW g, ScanFailed(w, g) \/ ScanCut(w) PROVE tx' = tx
    BY <2>3 DEF ScanFailed, ScanCut
  <2>4. CASE NothingFound(w)
    BY <1>0, <2>4 DEF NothingFound, CatalogTypeOK, Transaction
  <2>5. CASE BatchRead(w)
    <3> DEFINE known == Bindings({ r \in rows : \E h \in tx[w].held : h.pool = r.pool })
               added == Wanted(w) \ known
    <3>1. tx' = [tx EXCEPT ![w].phase = "copy", ![w].known = known, ![w].added = added]
      BY <2>5 DEF BatchRead
    <3> HIDE DEF known, added
    <3> QED BY <1>0, <3>1 DEF CatalogTypeOK, Transaction
  <2> QED BY <1>1, <2>1, <2>2, <2>3, <2>4, <2>5
<1>2. ASSUME NEW phase \in {"done", "failed"}, Ended(w, phase)
      PROVE  \A v \in Upserters :
               \/ tx'[v].next = None /\ tx'[v].todo = {} /\ tx'[v].held = {} /\ tx'[v].added = {}
                  /\ tx'[v].phase \in {"done", "failed"}
               \/ tx'[v] = tx[v]
  BY SMTT(30), <1>0, <1>2 DEF Ended, Idle, CatalogTypeOK
<1>3. CASE w \in Sweepers /\ SweepTake(w)
  <2>1. \A v \in Upserters : v # w
    BY <1>3, CatalogAssumption DEF Upserters
  <2> QED BY <1>0, <1>3, <2>1 DEF SweepTake, CatalogTypeOK
<1> QED BY <1>1, <1>2, <1>3 DEF Commit, SweepCommit, Abort

LEMMA EditKeepsTx == ASSUME Edit PROVE UNCHANGED <<tx, scan>>
BY DEF Edit, CreateModelPool, CreateCredential, DeleteCredential,
       UpdateCredentialHealthState, ActivateCredentialsBulk

LEMMA LockOrderInit == Init => LockOrder
BY DEF Init, LockOrder, Idle, Upserters, Writers

LEMMA LockOrderStep == CatalogTypeOK /\ LockOrder /\ [Next]_vars => LockOrder'
<1> SUFFICES ASSUME CatalogTypeOK, LockOrder, [Next]_vars PROVE LockOrder'
  OBVIOUS
<1>1. CASE UNCHANGED vars
  BY <1>1 DEF vars, LockOrder
<1>2. CASE Edit
  BY <1>2, EditKeepsTx DEF LockOrder
<1>3. ASSUME NEW w \in Writers, StepOf(w) PROVE LockOrder'
  <2>1. CASE w \in Scanners /\ BatchBegin(w)
    <3>1. \A i \in tx[w].items : i.pattern \in Patterns
      BY <2>1 DEF CatalogTypeOK, Upserters, Discovered
    <3> QED BY <2>1, <3>1, LockOrderBegins DEF BatchBegin
  <2>2. ASSUME w \in Registrars, NEW a \in Accounts, NEW listed \in SUBSET Offers[Endpoint[a]],
               RegisterBegin(w, a, listed)
        PROVE  LockOrder'
    <3>1. listed \subseteq Patterns
      BY CatalogAssumption
    <3>2. \A i \in [pattern : listed, account : {a}] : i.pattern \in Patterns
      BY <3>1
    <3> QED BY <2>2, <3>2, LockOrderBegins DEF RegisterBegin
  <2>3. ASSUME w \in Sweepers, NEW chosen \in SUBSET PoolRows, SweepBegin(w, chosen)
        PROVE  LockOrder'
    <3>1. \A i \in chosen : i.pattern \in Patterns
      BY PoolRowsType DEF Lock
    <3> QED BY <2>3, <3>1, LockOrderBegins DEF SweepBegin
  <2>4. CASE w \in Upserters /\ Upsert(w)
    BY <2>4, LockOrderUpsert
  <2> QED
    BY <1>3, <2>1, <2>2, <2>3, <2>4, LocksKept, LockOrderKept DEF StepOf
<1> QED BY <1>1, <1>2, <1>3, Steps

\* Of a set of scans each of which waits for another, the one that asks for
\* the last pattern waits for one that holds it, and so asks for a later one.
LEMMA OrderedNeverDeadlock == CatalogTypeOK /\ LockOrder => BatchesNeverDeadlock
<1> SUFFICES ASSUME CatalogTypeOK, LockOrder, NEW S \in SUBSET Scanners, Deadlocked(S)
             PROVE  FALSE
  BY DEF BatchesNeverDeadlock
<1> DEFINE asked == { tx[w].next : w \in S }
<1>1. \A w \in S : \E v \in S : \E r \in tx[v].held : r.pattern = tx[w].next
  BY DEF Deadlocked, Waits
<1>2. \A w \in S : tx[w].next \in Patterns /\ tx[w].next \in tx[w].todo
  <2>1. ASSUME NEW w \in S PROVE tx[w].next \in Patterns
    BY <1>1 DEF CatalogTypeOK, Transaction, Lock, Writers
  <2>2. \A p \in Patterns : p # None
    BY CatalogAssumption
  <2> QED BY <2>1, <2>2 DEF LockOrder, Upserters
<1>3. asked \in SUBSET Patterns /\ asked # {}
  BY <1>2 DEF Deadlocked
<1>4. PICK m \in asked : \A p \in asked : p <= m
  BY <1>3, CatalogAssumption
<1>5. PICK v \in S : \E r \in tx[v].held : r.pattern = m
  BY <1>1
<1>6. m < tx[v].next
  BY <1>2, <1>5 DEF LockOrder, Upserters
<1>7. tx[v].next <= m /\ tx[v].next \in Nat /\ m \in Nat
  BY <1>3, <1>4, CatalogAssumption
<1> QED BY <1>6, <1>7

(* However many re-discoveries run at once, on how many patterns, they     *)
(* never wait for one another in a circle.                                 *)
THEOREM NoBatchDeadlock == Spec => []BatchesNeverDeadlock
<1>1. Init => CatalogTypeOK /\ LockOrder
  BY CatalogInit, LockOrderInit
<1>2. CatalogTypeOK /\ LockOrder /\ [Next]_vars => (CatalogTypeOK /\ LockOrder)'
  BY CatalogTypes, LockOrderStep
<1> QED BY <1>1, <1>2, OrderedNeverDeadlock, PTL DEF Spec

-----------------------------------------------------------------------------
(* What a scan counts.                                                     *)

Waiting(w) == { a \in scan[w].accounts : Endpoint[a] \in scan[w].endpoints }

ScanCounts ==
    \A w \in Scanners :
        /\ tx[w].phase = "idle" => scan[w] = NoScan
        /\ ~scan[w].cut =>
             scan[w].ok + scan[w].failed + Cardinality(Waiting(w)) = Cardinality(scan[w].accounts)

LEMMA CountsInit == Init => ScanCounts
<1> SUFFICES ASSUME Init, NEW w \in Scanners
             PROVE  /\ scan[w] = NoScan
                    /\ scan[w].ok + scan[w].failed + Cardinality(Waiting(w))
                         = Cardinality(scan[w].accounts)
  BY DEF ScanCounts
<1>1. scan[w] = NoScan
  BY DEF Init
<1>2. Waiting(w) = {}
  BY <1>1 DEF Waiting, NoScan
<1> QED BY <1>1, <1>2, FS_EmptySet DEF NoScan

\* An endpoint heard takes the keys that share it from those that wait.
LEMMA EndpointHeard ==
    ASSUME CatalogTypeOK, NEW w \in Scanners, NEW g \in scan[w].endpoints,
           scan'[w].accounts = scan[w].accounts,
           scan'[w].endpoints = scan[w].endpoints \ {g}
    PROVE  /\ Cardinality(Waiting(w)') \in Nat
           /\ Cardinality(Waiting(w)) = Cardinality(Waiting(w)') + Cardinality(Sharing(w, g))
<1>1. IsFiniteSet(Waiting(w)') /\ IsFiniteSet(Sharing(w, g))
  <2>1. Waiting(w)' \subseteq Accounts /\ Sharing(w, g) \subseteq Accounts
    BY DEF Waiting, Sharing, CatalogTypeOK, Report
  <2> QED BY <2>1, FS_Subset, CatalogAssumption
<1>2. Waiting(w) = Waiting(w)' \cup Sharing(w, g)
  BY DEF Waiting, Sharing
<1>3. Waiting(w)' \cap Sharing(w, g) = {}
  BY DEF Waiting, Sharing
<1>4. Cardinality(Waiting(w)') \in Nat /\ Cardinality(Sharing(w, g)) \in Nat
  BY <1>1, FS_CardinalityType
<1>5. Cardinality(Waiting(w)' \cup Sharing(w, g))
        = Cardinality(Waiting(w)') + Cardinality(Sharing(w, g)) - Cardinality({})
  BY <1>1, <1>3, FS_Union
<1> QED BY <1>2, <1>4, <1>5, FS_EmptySet

\* A step that is not one of the scan's own leaves its counts.
LEMMA CountsKept ==
    ASSUME ScanCounts, scan' = scan,
           \A v \in Scanners : tx'[v].phase = "idle" => tx[v].phase = "idle"
    PROVE  ScanCounts'
BY DEF ScanCounts, Waiting

\* A writer's step is about its own transaction, which has begun.
LEMMA StepIsOwn ==
    ASSUME CatalogTypeOK, NEW w \in Writers, StepOf(w)
    PROVE  tx'[w].phase # "idle" /\ \A v \in Writers \ {w} : tx'[v] = tx[v]
<1>0. tx[w] \in Transaction /\ \A v \in Scanners : v \in Writers
  BY DEF CatalogTypeOK, Writers
<1>1. ASSUME NEW known, NEW items, Begin(w, items, known)
      PROVE  tx'[w].phase = "lock" /\ \A v \in Writers \ {w} : tx'[v] = tx[v]
  BY <1>1 DEF Begin, Idle, CatalogTypeOK
<1>2. ASSUME NEW phase \in {"done", "failed"}, Ended(w, phase)
      PROVE  tx'[w].phase = phase /\ \A v \in Writers \ {w} : tx'[v] = tx[v]
  BY <1>2 DEF Ended, Idle, CatalogTypeOK
<1>3. ASSUME w \in Scanners, ScanStart(w)
      PROVE  tx'[w].phase # "idle" /\ \A v \in Writers \ {w} : tx'[v] = tx[v]
  BY <1>0, <1>3 DEF ScanStart, CatalogTypeOK, Transaction
<1>4. ASSUME NEW g, NEW listed, ScanListed(w, g, listed)
      PROVE  tx'[w].phase = "scan" /\ \A v \in Writers \ {w} : tx'[v] = tx[v]
  BY <1>0, <1>4 DEF ScanListed, CatalogTypeOK, Transaction
<1>5. ASSUME NEW g, ScanFailed(w, g) \/ ScanCut(w)
      PROVE  tx'[w].phase = "scan" /\ tx' = tx
  BY <1>5 DEF ScanFailed, ScanCut
<1>6. ASSUME NothingFound(w)
      PROVE  tx'[w].phase = "done" /\ \A v \in Writers \ {w} : tx'[v] = tx[v]
  BY <1>0, <1>6 DEF NothingFound, CatalogTypeOK, Transaction
<1>7. ASSUME BatchRead(w)
      PROVE  tx'[w].phase = "copy" /\ \A v \in Writers \ {w} : tx'[v] = tx[v]
  <2> DEFINE known == Bindings({ r \in rows : \E h \in tx[w].held : h.pool = r.pool })
             added == Wanted(w) \ known
  <2>1. tx' = [tx EXCEPT ![w].phase = "copy", ![w].known = known, ![w].added = added]
    BY <1>7 DEF BatchRead
  <2> HIDE DEF known, added
  <2> QED BY <1>0, <2>1 DEF CatalogTypeOK, Transaction
<1>8. ASSUME Upsert(w)
      PROVE  tx'[w].phase = "lock" /\ \A v \in Writers \ {w} : tx'[v] = tx[v]
  <2> DEFINE r == Upserted(tx[w].next)
             bound == BoundAtOnce(w, r)
  <2>1. PICK n : tx' = [tx EXCEPT ![w].todo = @ \ {tx[w].next}, ![w].next = n,
                            ![w].held = @ \cup {r},
                            ![w].known = @ \cup bound,
                            ![w].added = @ \cup bound]
    BY <1>8 DEF Upsert
  <2>2. tx[w].phase = "lock"
    BY <1>8 DEF Upsert
  <2> HIDE DEF r, bound
  <2> QED BY SMTT(30), <1>0, <2>1, <2>2 DEF CatalogTypeOK, Transaction
<1>9. ASSUME SweepTake(w)
      PROVE  tx'[w].phase = "lock" /\ \A v \in Writers \ {w} : tx'[v] = tx[v]
  <2> DEFINE r == [pattern |-> tx[w].next, pool |-> pools[tx[w].next]]
             held == IF r \in tx[w].items THEN tx[w].held \cup {r} ELSE tx[w].held
  <2>1. PICK n : tx' = [tx EXCEPT ![w].todo = @ \ {r.pattern}, ![w].next = n, ![w].held = held]
    BY <1>0, <1>9 DEF SweepTake, CatalogTypeOK, Transaction
  <2>2. tx[w].phase = "lock"
    BY <1>9 DEF SweepTake
  <2> HIDE DEF r, held
  <2> QED BY <1>0, <2>1, <2>2 DEF CatalogTypeOK, Transaction
<1> QED
  BY <1>0, <1>1, <1>2, <1>3, <1>4, <1>5, <1>6, <1>7, <1>8, <1>9
     DEF StepOf, BatchBegin, RegisterBegin, SweepBegin, Commit, SweepCommit, Abort

LEMMA CountsStep == CatalogTypeOK /\ ScanCounts /\ [Next]_vars => ScanCounts'
<1> SUFFICES ASSUME CatalogTypeOK, ScanCounts, [Next]_vars PROVE ScanCounts'
  OBVIOUS
<1>1. CASE UNCHANGED vars
  BY <1>1, CountsKept DEF vars
<1>2. CASE Edit
  BY SMTT(30), <1>2, EditKeepsTx, CountsKept
<1>3. ASSUME NEW w \in Writers, StepOf(w) PROVE ScanCounts'
  <2>0. \A v \in Scanners : tx'[v].phase = "idle" => tx[v].phase = "idle" /\ v # w
    BY <1>3, StepIsOwn DEF Writers
  <2>1. CASE w \in Scanners /\ ScanStart(w)
    <3>0. scan[w] = NoScan
      BY <2>1 DEF ScanStart, Called, ScanCounts
    <3>1. /\ scan'[w].ok = 0 /\ scan'[w].failed = 0
          /\ scan'[w].accounts = BoundAccounts
          /\ scan'[w].endpoints = { Endpoint[a] : a \in BoundAccounts }
          /\ \A v \in Scanners \ {w} : scan'[v] = scan[v]
      BY <2>1, <3>0 DEF ScanStart, CatalogTypeOK, Report, NoScan
    <3>2. Waiting(w)' = BoundAccounts
      BY <3>1 DEF Waiting
    <3>3. BoundAccounts \subseteq Accounts
      BY DEF BoundAccounts, CatalogTypeOK
    <3>4. Cardinality(BoundAccounts) \in Nat
      BY <3>3, FS_Subset, FS_CardinalityType, CatalogAssumption
    <3>5. \A v \in Scanners \ {w} : Waiting(v)' = Waiting(v)
      BY <3>1 DEF Waiting
    <3> QED BY <2>0, <2>1, <3>1, <3>2, <3>4, <3>5 DEF ScanCounts
  <2>2. ASSUME w \in Scanners, NEW g \in scan[w].endpoints, NEW listed,
               ScanListed(w, g, listed) \/ ScanFailed(w, g)
        PROVE  ScanCounts'
    <3> DEFINE n == Cardinality(Sharing(w, g))
    <3>0. scan[w] \in Report /\ n \in Nat
      BY <2>2, SharingFinite DEF CatalogTypeOK
    <3>1. /\ scan'[w].accounts = scan[w].accounts
          /\ scan'[w].endpoints = scan[w].endpoints \ {g}
          /\ scan'[w].cut = scan[w].cut
          /\ \/ scan'[w].ok = scan[w].ok + n /\ scan'[w].failed = scan[w].failed
             \/ scan'[w].failed = scan[w].failed + n /\ scan'[w].ok = scan[w].ok
          /\ \A v \in Scanners \ {w} : scan'[v] = scan[v]
      BY <2>2, <3>0 DEF ScanListed, ScanFailed, CatalogTypeOK, Report
    <3>2. /\ Cardinality(Waiting(w)') \in Nat
          /\ Cardinality(Waiting(w)) = Cardinality(Waiting(w)') + n
      BY <2>2, <3>1, EndpointHeard
    <3>3. ~scan'[w].cut => scan'[w].ok + scan'[w].failed + Cardinality(Waiting(w)')
                             = Cardinality(scan'[w].accounts)
      <4>1. ~scan[w].cut => scan[w].ok + scan[w].failed + Cardinality(Waiting(w))
                             = Cardinality(scan[w].accounts)
        BY <2>2 DEF ScanCounts
      <4>2. scan[w].ok \in Nat /\ scan[w].failed \in Nat
        BY <3>0 DEF Report
      <4> HIDE DEF n
      <4> QED BY <3>0, <3>1, <3>2, <4>1, <4>2
    <3>4. \A v \in Scanners \ {w} : Waiting(v)' = Waiting(v)
      BY <3>1 DEF Waiting
    <3> QED BY <2>0, <3>1, <3>3, <3>4 DEF ScanCounts
  <2>3. CASE w \in Scanners /\ ScanCut(w)
    <3>1. scan'[w].cut /\ \A v \in Scanners \ {w} : scan'[v] = scan[v]
      BY <2>3 DEF ScanCut, CatalogTypeOK, Report
    <3>2. \A v \in Scanners \ {w} : Waiting(v)' = Waiting(v)
      BY <3>1 DEF Waiting
    <3> QED BY <2>0, <3>1, <3>2 DEF ScanCounts
  <2>4. CASE scan' = scan
    BY <2>0, <2>4, CountsKept
  <2> QED
    BY <1>3, <2>1, <2>2, <2>3, <2>4
       DEF StepOf, BatchBegin, RegisterBegin, SweepBegin, Upsert, NothingFound, BatchRead,
           Commit, SweepTake, SweepCommit, Abort
<1> QED BY <1>1, <1>2, <1>3, Steps

LEMMA CountsAccount == CatalogTypeOK /\ ScanCounts => ScanAccounted
<1> SUFFICES ASSUME CatalogTypeOK, ScanCounts, NEW w \in Scanners,
                    scan[w].endpoints = {}, ~scan[w].cut
             PROVE  scan[w].ok + scan[w].failed = Cardinality(scan[w].accounts)
  BY DEF ScanAccounted
<1>1. Waiting(w) = {}
  BY DEF Waiting
<1>2. scan[w].ok \in Nat /\ scan[w].failed \in Nat
  BY DEF CatalogTypeOK, Report
<1> QED BY <1>1, <1>2, FS_EmptySet DEF ScanCounts

(* Whatever endpoints keys share and whichever of them fail, the report of *)
(* a scan that was not cut short counts each account once.                 *)
THEOREM EveryAccountCounted == Spec => []ScanAccounted
<1>1. Init => CatalogTypeOK /\ ScanCounts
  BY CatalogInit, CountsInit
<1>2. CatalogTypeOK /\ ScanCounts /\ [Next]_vars => (CatalogTypeOK /\ ScanCounts)'
  BY CatalogTypes, CountsStep
<1> QED BY <1>1, <1>2, CountsAccount, PTL DEF Spec

-----------------------------------------------------------------------------
(* What a batch reads under its locks.                                     *)

\* No two patterns share a pool, and no two transactions that upsert hold one:
\* whoever holds a pool's row is alone in binding keys to it.
PoolsApart ==
    /\ \A p \in Patterns : pools[p] < fresh
    /\ \A p, q \in Patterns : pools[p] = pools[q] /\ pools[p] # None => p = q
    /\ \A v \in Upserters : \A s \in tx[v].held :
           /\ s.pool # None /\ s.pool < fresh
           /\ \A q \in Patterns : pools[q] = s.pool => q = s.pattern
    /\ \A v, w \in Upserters : \A r \in tx[v].held, s \in tx[w].held :
           r.pool = s.pool => v = w /\ r.pattern = s.pattern

\* What a transaction inserts is in pools it holds, and what a batch is about
\* to copy in is bound by none but an administrator.
OnlyMissing ==
    \A w \in Upserters :
        /\ \A b \in tx[w].added : \E r \in tx[w].held : r.pool = b.pool
        /\ w \in Scanners /\ tx[w].phase = "copy" =>
               \A d \in rows : d.by # Hand =>
                   [pool |-> d.pool, account |-> d.account] \notin tx[w].added

LEMMA PoolsApartInit == CatalogTypeOK /\ Init => PoolsApart
<1> SUFFICES ASSUME CatalogTypeOK, Init PROVE PoolsApart
  OBVIOUS
<1>1. \A p \in Patterns : pools[p] = None \/ pools[p] = p
  BY DEF Init
<1>2. \A p \in Patterns : p \in Nat /\ p < FirstID /\ FirstID \in Nat
  BY CatalogAssumption
<1>3. \A v \in Upserters : tx[v].held = {}
  BY DEF Init, Idle, Upserters, Writers
<1> QED BY <1>1, <1>2, <1>3 DEF Init, PoolsApart, None

\* Rows of model_pools that go, and locks that are released, take nothing away.
LEMMA PoolsApartKept ==
    ASSUME PoolsApart, CatalogTypeOK, fresh' = fresh,
           \A p \in Patterns : pools'[p] = pools[p] \/ pools'[p] = None,
           \A v \in Upserters : tx'[v].held \subseteq tx[v].held
    PROVE  PoolsApart'
<1>1. \A p \in Patterns : pools'[p] < fresh'
  BY DEF PoolsApart, CatalogTypeOK, None
<1>2. \A p, q \in Patterns : pools'[p] = pools'[q] /\ pools'[p] # None => p = q
  BY DEF PoolsApart
<1>3. \A v \in Upserters : \A s \in tx'[v].held :
           /\ s.pool # None /\ s.pool < fresh'
           /\ \A q \in Patterns : pools'[q] = s.pool => q = s.pattern
  BY DEF PoolsApart
<1>4. \A v, w \in Upserters : \A r \in tx'[v].held, s \in tx'[w].held :
           r.pool = s.pool => v = w /\ r.pattern = s.pattern
  BY DEF PoolsApart
<1> QED BY <1>1, <1>2, <1>3, <1>4 DEF PoolsApart

LEMMA PoolsApartUpsert ==
    ASSUME PoolsApart, CatalogTypeOK, LockOrder, NEW w \in Upserters, Upsert(w)
    PROVE  PoolsApart'
<1> DEFINE p == tx[w].next
           r == Upserted(p)
<1>0. /\ w \in Writers /\ tx[w] \in Transaction
      /\ \A v \in Upserters : v \in Writers /\ tx[v] \in Transaction
  BY DEF Writers, Upserters, CatalogTypeOK
<1>1. p \in Patterns /\ r \in Lock
  BY <1>0, UpsertedType DEF Upsert, Transaction
<1>2. /\ tx'[w].held = tx[w].held \cup {r}
      /\ \A v \in Upserters \ {w} : tx'[v].held = tx[v].held
  BY <1>0 DEF Upsert, CatalogTypeOK, Transaction
<1>3. pools' = pools /\ fresh \in Nat /\ fresh' \in Nat /\ fresh <= fresh'
  BY DEF Upsert, CatalogTypeOK
<1>4. \A v \in Writers : \A s \in tx[v].held : s.pool \in Nat
  BY DEF CatalogTypeOK, Transaction, Lock
<1>5. /\ r.pattern = p /\ r.pool \in Nat /\ r.pool # None /\ r.pool < fresh'
      /\ \A q \in Patterns : pools[q] = r.pool => q = p
  <2>1. CASE pools[p] = None
    <3>1. r.pool = fresh /\ fresh' = fresh + 1
      BY <2>1 DEF Upserted, Upsert
    <3>2. \A q \in Patterns : pools[q] \in Nat /\ pools[q] < fresh
      BY DEF PoolsApart, CatalogTypeOK
    <3>3. fresh # None
      BY <1>1, <1>3, <3>2 DEF None
    <3> QED BY <1>3, <3>1, <3>2, <3>3 DEF Upserted
  <2>2. CASE pools[p] # None
    <3>1. r.pool = pools[p] /\ fresh' = fresh
      BY <2>2 DEF Upserted, Upsert
    <3> QED BY <1>1, <2>2, <3>1 DEF Upserted, PoolsApart, CatalogTypeOK
  <2> QED BY <2>1, <2>2
<1>6. \A v \in Upserters : \A s \in tx[v].held : s.pool = r.pool => v = w /\ s.pattern = p
  <2> SUFFICES ASSUME NEW v \in Upserters, NEW s \in tx[v].held, s.pool = r.pool
               PROVE  v = w /\ s.pattern = p
    OBVIOUS
  <2>1. CASE pools[p] = None
    <3>1. r.pool = fresh
      BY <2>1 DEF Upserted
    <3>2. s.pool < fresh /\ s.pool \in Nat
      BY <1>0, <1>4 DEF PoolsApart
    <3> QED BY <1>3, <3>1, <3>2
  <2>2. CASE pools[p] # None
    <3>1. r.pool = pools[p]
      BY <2>2 DEF Upserted
    <3>2. s.pattern = p
      BY <1>1, <3>1 DEF PoolsApart
    <3>3. w \notin Sweepers
      BY CatalogAssumption DEF Upserters
    <3>4. ~Waits(w, v)
      BY <1>0 DEF Upsert
    <3> QED BY <3>2, <3>3, <3>4 DEF Waits
  <2> QED BY <2>1, <2>2
<1> HIDE DEF p, r
<1>7. \A q \in Patterns : pools'[q] < fresh'
  BY <1>3 DEF PoolsApart, CatalogTypeOK
<1>8. \A v \in Upserters : \A s \in tx'[v].held :
           /\ s.pool # None /\ s.pool < fresh'
           /\ \A q \in Patterns : pools'[q] = s.pool => q = s.pattern
  <2> SUFFICES ASSUME NEW v \in Upserters, NEW s \in tx'[v].held
               PROVE  /\ s.pool # None /\ s.pool < fresh'
                      /\ \A q \in Patterns : pools'[q] = s.pool => q = s.pattern
    OBVIOUS
  <2>1. CASE s \in tx[v].held
    BY <1>0, <1>3, <1>4, <2>1 DEF PoolsApart
  <2>2. CASE s = r
    BY <1>3, <1>5, <2>2
  <2> QED BY <1>2, <2>1, <2>2
<1>9. \A v, u \in Upserters : \A s \in tx'[v].held, t \in tx'[u].held :
           s.pool = t.pool => v = u /\ s.pattern = t.pattern
  BY <1>2, <1>5, <1>6 DEF PoolsApart
<1> QED BY <1>3, <1>7, <1>8, <1>9 DEF PoolsApart

LEMMA PoolsApartCommit ==
    ASSUME PoolsApart, CatalogTypeOK, NEW w \in Upserters, Commit(w)
    PROVE  PoolsApart'
<1>0. w \in Writers /\ tx[w] \in Transaction
  BY DEF Writers, Upserters, CatalogTypeOK
<1>1. fresh' = fresh /\ \A v \in Upserters : tx'[v].held \subseteq tx[v].held
  BY <1>0 DEF Commit, Ended, Idle, CatalogTypeOK, Upserters, Writers
<1>2. \A p \in Patterns :
          \/ pools'[p] = pools[p] /\ \A r \in tx[w].held : r.pattern # p
          \/ \E r \in tx[w].held : r.pattern = p /\ pools'[p] = r.pool
  <2> SUFFICES ASSUME NEW p \in Patterns
               PROVE  \/ pools'[p] = pools[p] /\ \A r \in tx[w].held : r.pattern # p
                      \/ \E r \in tx[w].held : r.pattern = p /\ pools'[p] = r.pool
    OBVIOUS
  <2>1. CASE \E r \in tx[w].held : r.pattern = p
    <3> DEFINE r == CHOOSE x \in tx[w].held : x.pattern = p
    <3>1. r \in tx[w].held /\ r.pattern = p
      BY <2>1
    <3>2. pools'[p] = r.pool
      BY <2>1 DEF Commit
    <3> QED BY <3>1, <3>2
  <2>2. CASE ~\E r \in tx[w].held : r.pattern = p
    BY <2>2 DEF Commit
  <2> QED BY <2>1, <2>2
<1>3. \A p \in Patterns : pools'[p] < fresh
  BY <1>2 DEF PoolsApart
<1>4. \A p, q \in Patterns : pools'[p] = pools'[q] /\ pools'[p] # None => p = q
  BY <1>2 DEF PoolsApart
<1>5. \A v \in Upserters : \A s \in tx[v].held : \A q \in Patterns :
          pools'[q] = s.pool => q = s.pattern
  BY <1>2 DEF PoolsApart
<1> QED BY <1>1, <1>3, <1>4, <1>5 DEF PoolsApart

LEMMA PoolsApartEdit == ASSUME PoolsApart, CatalogTypeOK, Edit PROVE PoolsApart'
<1>0. \A v \in Upserters : \A s \in tx[v].held : s.pool \in Nat
  BY DEF CatalogTypeOK, Transaction, Lock, Upserters, Writers
<1>1. ASSUME NEW p \in Patterns, CreateModelPool(p) PROVE PoolsApart'
  <2>1. /\ fresh \in Nat /\ fresh' = fresh + 1 /\ pools'[p] = fresh /\ tx' = tx
        /\ \A q \in Patterns \ {p} : pools'[q] = pools[q]
        /\ \A q \in Patterns : pools[q] \in Nat
    BY <1>1 DEF CreateModelPool, CatalogTypeOK
  <2>2. \A q \in Patterns : pools'[q] < fresh'
    BY <2>1 DEF PoolsApart
  <2>3. \A q, o \in Patterns : pools'[q] = pools'[o] /\ pools'[q] # None => q = o
    BY <2>1 DEF PoolsApart
  <2>4. \A v \in Upserters : \A s \in tx'[v].held :
           /\ s.pool # None /\ s.pool < fresh'
           /\ \A q \in Patterns : pools'[q] = s.pool => q = s.pattern
    BY <1>0, <2>1 DEF PoolsApart
  <2> QED BY <2>1, <2>2, <2>3, <2>4 DEF PoolsApart
<1>2. CASE UNCHANGED <<pools, fresh, tx>>
  BY <1>2 DEF PoolsApart
<1> QED
  BY <1>1, <1>2 DEF Edit, CreateCredential, DeleteCredential, UpdateCredentialHealthState,
                    ActivateCredentialsBulk

LEMMA PoolsApartStep == CatalogTypeOK /\ LockOrder /\ PoolsApart /\ [Next]_vars => PoolsApart'
<1> SUFFICES ASSUME CatalogTypeOK, LockOrder, PoolsApart, [Next]_vars PROVE PoolsApart'
  OBVIOUS
<1>1. CASE UNCHANGED vars
  BY <1>1 DEF vars, PoolsApart
<1>2. CASE Edit
  BY <1>2, PoolsApartEdit
<1>3. ASSUME NEW w \in Writers, StepOf(w) PROVE PoolsApart'
  <2>1. CASE w \in Upserters /\ Upsert(w)
    BY <2>1, PoolsApartUpsert
  <2>2. CASE w \in Upserters /\ Commit(w)
    BY <2>2, PoolsApartCommit
  <2>3. ASSUME NEW known, NEW items, Begin(w, items, known), pools' = pools, fresh' = fresh
        PROVE  PoolsApart'
    <3>1. \A v \in Upserters : tx'[v].held \subseteq tx[v].held
      BY <2>3 DEF Begin, Idle, CatalogTypeOK, Upserters, Writers
    <3> QED BY <2>3, <3>1, PoolsApartKept
  <2>4. CASE w \in Sweepers /\ SweepCommit(w)
    <3>1. fresh' = fresh /\ \A p \in Patterns : pools'[p] = pools[p] \/ pools'[p] = None
      BY <2>4 DEF SweepCommit
    <3>2. \A v \in Upserters : tx'[v].held \subseteq tx[v].held
      BY <2>4, LocksKept
    <3> QED BY <3>1, <3>2, PoolsApartKept
  <2>5. CASE \/ /\ w \in Scanners
                /\ \/ ScanStart(w)
                   \/ \E g \in scan[w].endpoints :
                          \/ \E listed \in SUBSET Offers[g] : ScanListed(w, g, listed)
                          \/ ScanFailed(w, g)
                   \/ ScanCut(w)
                   \/ NothingFound(w)
                   \/ BatchRead(w)
             \/ w \in Sweepers /\ SweepTake(w)
             \/ Abort(w)
    <3>1. fresh' = fresh /\ pools' = pools
      BY <2>5 DEF ScanStart, ScanListed, ScanFailed, ScanCut, NothingFound, BatchRead,
                  SweepTake, Abort
    <3>2. \A v \in Upserters : tx'[v].held \subseteq tx[v].held
      BY <2>5, LocksKept
    <3> QED BY SMTT(30), <3>1, <3>2, PoolsApartKept
  <2>6. CASE \/ w \in Scanners /\ BatchBegin(w)
             \/ \E a \in Accounts : \E listed \in SUBSET Offers[Endpoint[a]] :
                    RegisterBegin(w, a, listed)
             \/ \E chosen \in SUBSET PoolRows : SweepBegin(w, chosen)
    BY <2>3, <2>6 DEF BatchBegin, RegisterBegin, SweepBegin
  <2> QED
    BY <1>3, <2>1, <2>2, <2>4, <2>5, <2>6 DEF StepOf
<1> QED BY <1>1, <1>2, <1>3, Steps

LEMMA OnlyMissingInit == Init => OnlyMissing
BY DEF Init, OnlyMissing, Idle, Upserters, Writers

\* A step that ends or leaves a transaction, and binds nothing new.
LEMMA OnlyMissingKept ==
    ASSUME OnlyMissing,
           \A v \in Upserters :
               \/ tx'[v].added = {}
               \/ /\ tx'[v].added = tx[v].added /\ tx'[v].held = tx[v].held
                  /\ tx'[v].phase = "copy" => tx[v].phase = "copy",
           \A c \in rows' : c.by # Hand =>
               \E d \in rows : d.by = c.by /\ d.pool = c.pool /\ d.account = c.account
    PROVE  OnlyMissing'
<1> SUFFICES ASSUME NEW v \in Upserters
             PROVE  /\ \A b \in tx'[v].added : \E r \in tx'[v].held : r.pool = b.pool
                    /\ v \in Scanners /\ tx'[v].phase = "copy" =>
                           \A c \in rows' : c.by # Hand =>
                               [pool |-> c.pool, account |-> c.account] \notin tx'[v].added
  BY DEF OnlyMissing
<1>1. CASE tx'[v].added = {}
  BY <1>1
<1>2. CASE /\ tx'[v].added = tx[v].added /\ tx'[v].held = tx[v].held
           /\ tx'[v].phase = "copy" => tx[v].phase = "copy"
  BY <1>2 DEF OnlyMissing
<1> QED BY <1>1, <1>2

LEMMA OnlyMissingUpsert ==
    ASSUME OnlyMissing, CatalogTypeOK, NEW w \in Upserters, Upsert(w)
    PROVE  OnlyMissing'
<1> DEFINE r == Upserted(tx[w].next)
           bound == BoundAtOnce(w, r)
<1>0. w \in Writers /\ tx[w] \in Transaction
  BY DEF Writers, Upserters, CatalogTypeOK
<1>1. \A b \in bound : b.pool = r.pool
  BY SMTT(30) DEF BoundAtOnce
<1>2. PICK n : tx' = [tx EXCEPT ![w].todo = @ \ {tx[w].next}, ![w].next = n,
                            ![w].held = @ \cup {r},
                            ![w].known = @ \cup bound,
                            ![w].added = @ \cup bound]
  BY DEF Upsert
<1>3. tx[w].phase = "lock" /\ rows' = rows
  BY DEF Upsert
<1> HIDE DEF r, bound
<1>4. /\ tx'[w].added = tx[w].added \cup bound /\ tx'[w].held = tx[w].held \cup {r}
      /\ tx'[w].phase = "lock"
      /\ \A v \in Upserters \ {w} : tx'[v] = tx[v]
  BY <1>0, <1>2, <1>3 DEF CatalogTypeOK, Transaction, Upserters, Writers
<1> QED BY <1>1, <1>3, <1>4 DEF OnlyMissing

\* The bindings of the pools the batch holds are those it has read.
LEMMA OnlyMissingRead ==
    ASSUME OnlyMissing, CatalogTypeOK, NEW w \in Scanners, BatchRead(w)
    PROVE  OnlyMissing'
<1> DEFINE known == Bindings({ r \in rows : \E h \in tx[w].held : h.pool = r.pool })
           added == Wanted(w) \ known
<1>0. w \in Writers /\ tx[w] \in Transaction
  BY DEF Writers, CatalogTypeOK
<1>1. tx' = [tx EXCEPT ![w].phase = "copy", ![w].known = known, ![w].added = added]
  BY DEF BatchRead
<1>2. rows' = rows
  BY DEF BatchRead
<1>3. \A b \in added : \E r \in tx[w].held : r.pool = b.pool
  BY DEF Wanted
<1>4. \A d \in rows : (\E h \in tx[w].held : h.pool = d.pool) =>
          [pool |-> d.pool, account |-> d.account] \in known
  BY DEF Bindings
<1>5. \A d \in rows : [pool |-> d.pool, account |-> d.account] \notin added
  BY <1>3, <1>4
<1> HIDE DEF known, added
<1>6. /\ tx'[w].added = added /\ tx'[w].held = tx[w].held
      /\ \A v \in Upserters \ {w} : tx'[v] = tx[v]
  BY <1>0, <1>1 DEF CatalogTypeOK, Transaction, Upserters, Writers
<1> QED BY <1>2, <1>3, <1>5, <1>6 DEF OnlyMissing

\* What another commits is in pools of its own.
LEMMA OnlyMissingCommit ==
    ASSUME OnlyMissing, PoolsApart, CatalogTypeOK, NEW w \in Upserters, Commit(w)
    PROVE  OnlyMissing'
<1>1. tx'[w].added = {} /\ \A v \in Upserters \ {w} : tx'[v] = tx[v]
  BY DEF Commit, Ended, Idle, CatalogTypeOK, Upserters, Writers
<1>2. rows' = rows \cup { Row(b, w) : b \in tx[w].added }
  BY DEF Commit
<1>3. ASSUME NEW v \in Upserters, v # w, NEW b \in tx[w].added, tx[v].phase = "copy"
      PROVE  [pool |-> b.pool, account |-> b.account] \notin tx[v].added
  <2>1. PICK r \in tx[w].held : r.pool = b.pool
    BY DEF OnlyMissing
  <2>2. \A c \in tx[v].added : \E s \in tx[v].held : s.pool = c.pool
    BY <1>3 DEF OnlyMissing
  <2>3. \A s \in tx[v].held : s.pool # r.pool
    BY <1>3 DEF PoolsApart
  <2> QED BY <2>1, <2>2, <2>3
<1>4. ASSUME NEW v \in Upserters, v \in Scanners, tx'[v].phase = "copy",
             NEW c \in rows', c.by # Hand
      PROVE  [pool |-> c.pool, account |-> c.account] \notin tx'[v].added
  <2>1. CASE v = w
    BY <1>1, <2>1
  <2>2. CASE v # w /\ c \in rows
    BY <1>1, <1>4, <2>2 DEF OnlyMissing
  <2>3. ASSUME v # w, NEW b \in tx[w].added, c = Row(b, w)
        PROVE  [pool |-> c.pool, account |-> c.account] \notin tx'[v].added
    BY <1>1, <1>3, <1>4, <2>3 DEF Row
  <2> QED BY <1>2, <1>4, <2>1, <2>2, <2>3
<1>5. ASSUME NEW v \in Upserters
      PROVE  \A b \in tx'[v].added : \E r \in tx'[v].held : r.pool = b.pool
  BY <1>1 DEF OnlyMissing
<1> QED BY <1>4, <1>5 DEF OnlyMissing

LEMMA OnlyMissingEdit == ASSUME OnlyMissing, CatalogTypeOK, Edit PROVE OnlyMissing'
<1>0. tx' = tx
  BY EditKeepsTx
<1>1. \A c \in rows' : c.by # Hand =>
          \E d \in rows : d.by = c.by /\ d.pool = c.pool /\ d.account = c.account
  <2>1. ASSUME NEW p \in Patterns, CreateModelPool(p) PROVE rows' = rows
    BY <2>1 DEF CreateModelPool
  <2>2. ASSUME NEW p, NEW a, CreateCredential(p, a)
        PROVE  \A c \in rows' : c \in rows \/ c.by = Hand
    BY <2>2 DEF CreateCredential, Row
  <2>3. ASSUME NEW r, DeleteCredential(r) PROVE rows' \subseteq rows
    BY <2>3 DEF DeleteCredential
  <2>4. ASSUME NEW r \in rows, NEW healthy, UpdateCredentialHealthState(r, healthy)
        PROVE  \A c \in rows' :
                   \E d \in rows : d.by = c.by /\ d.pool = c.pool /\ d.account = c.account
    BY <2>4 DEF UpdateCredentialHealthState, CatalogTypeOK
  <2>5. ASSUME NEW chosen, ActivateCredentialsBulk(chosen)
        PROVE  \A c \in rows' :
                   \E d \in rows : d.by = c.by /\ d.pool = c.pool /\ d.account = c.account
    BY <2>5 DEF ActivateCredentialsBulk, CatalogTypeOK
  <2> QED BY <2>1, <2>2, <2>3, <2>4, <2>5 DEF Edit
<1> QED BY <1>0, <1>1, OnlyMissingKept

LEMMA OnlyMissingStep ==
    CatalogTypeOK /\ PoolsApart /\ OnlyMissing /\ [Next]_vars => OnlyMissing'
<1> SUFFICES ASSUME CatalogTypeOK, PoolsApart, OnlyMissing, [Next]_vars PROVE OnlyMissing'
  OBVIOUS
<1>1. CASE UNCHANGED vars
  BY <1>1 DEF vars, OnlyMissing
<1>2. CASE Edit
  BY <1>2, OnlyMissingEdit
<1>3. ASSUME NEW w \in Writers, StepOf(w) PROVE OnlyMissing'
  <2>0. /\ tx[w] \in Transaction /\ \A v \in Upserters : v \in Writers
        /\ \A v \in Writers \ {w} : tx'[v] = tx[v]
    BY <1>3, StepIsOwn DEF CatalogTypeOK, Upserters, Writers
  <2>1. CASE w \in Upserters /\ Upsert(w)
    BY <2>1, OnlyMissingUpsert
  <2>2. CASE w \in Upserters /\ Commit(w)
    BY <2>2, OnlyMissingCommit
  <2>3. CASE w \in Scanners /\ BatchRead(w)
    BY <2>3, OnlyMissingRead
  <2>4. ASSUME rows' \subseteq rows, w \in Upserters =>
                   \/ tx'[w].added = {}
                   \/ /\ tx'[w].added = tx[w].added /\ tx'[w].held = tx[w].held
                      /\ tx'[w].phase = "copy" => tx[w].phase = "copy"
        PROVE  OnlyMissing'
    <3>1. \A v \in Upserters :
               \/ tx'[v].added = {}
               \/ /\ tx'[v].added = tx[v].added /\ tx'[v].held = tx[v].held
                  /\ tx'[v].phase = "copy" => tx[v].phase = "copy"
      BY <2>0, <2>4
    <3>2. \A c \in rows' : c.by # Hand =>
              \E d \in rows : d.by = c.by /\ d.pool = c.pool /\ d.account = c.account
      BY <2>4
    <3> QED BY <3>1, <3>2, OnlyMissingKept
  <2>5. ASSUME NEW known, NEW items, Begin(w, items, known) PROVE tx'[w].added = {}
    BY <2>5 DEF Begin, Idle, CatalogTypeOK
  <2>6. ASSUME NEW phase, Ended(w, phase) PROVE tx'[w].added = {}
    BY <2>6 DEF Ended, Idle, CatalogTypeOK
  <2>7. ASSUME NEW g, NEW listed,
               ScanStart(w) \/ ScanListed(w, g, listed) \/ ScanFailed(w, g) \/ ScanCut(w)
                 \/ NothingFound(w)
        PROVE  /\ rows' = rows
               /\ tx'[w].added = tx[w].added /\ tx'[w].held = tx[w].held
               /\ tx'[w].phase = "copy" => tx[w].phase = "copy"
    BY <2>0, <2>7
       DEF ScanStart, ScanListed, ScanFailed, ScanCut, NothingFound, CatalogTypeOK, Transaction
  <2>8. w \in Sweepers => w \notin Upserters
    BY SMTT(30), CatalogAssumption DEF Upserters
  <2> QED
    BY <1>3, <2>1, <2>2, <2>3, <2>4, <2>5, <2>6, <2>7, <2>8
       DEF StepOf, BatchBegin, RegisterBegin, SweepBegin, SweepTake, SweepCommit, Abort
<1> QED BY <1>1, <1>2, <1>3, Steps

\* A batch that has copied in its bindings ends by its commit.
LEMMA CopiedIsCommitted ==
    ASSUME CatalogTypeOK, [Next]_vars, NEW w \in Scanners,
           tx[w].phase = "copy", tx'[w].phase = "done"
    PROVE  Commit(w)
<1>0. w \in Writers /\ tx[w] \in Transaction
  BY DEF Writers, CatalogTypeOK
<1>1. tx'[w] # tx[w]
  OBVIOUS
<1>2. ~UNCHANGED vars /\ ~Edit
  BY <1>1, EditKeepsTx DEF vars
<1>3. PICK v \in Writers : StepOf(v)
  BY <1>2, Steps
<1>4. v = w
  BY <1>0, <1>1, <1>3, StepIsOwn
<1>5. ~Abort(w)
  BY <1>0 DEF Abort, Ended, Idle, CatalogTypeOK
<1>6. w \notin Sweepers
  BY CatalogAssumption
<1>7. w \notin Registrars
  BY CatalogAssumption
<1>8. \A known, items : ~Begin(w, items, known)
  BY <1>0 DEF Begin, Idle, CatalogTypeOK
<1>9. ~BatchRead(w)
  BY DEF BatchRead
<1> QED
  BY <1>3, <1>4, <1>5, <1>6, <1>7, <1>8, <1>9
     DEF StepOf, ScanStart, Called, ScanListed, ScanFailed, ScanCut, BatchBegin, Upsert,
         NothingFound

LEMMA CommitBindsOnce ==
    ASSUME CatalogTypeOK, OnlyMissing, NEW w \in Scanners, tx[w].phase = "copy", Commit(w),
           NEW c \in rows' \ rows, NEW d \in rows, d.pool = c.pool, d.account = c.account
    PROVE  d.by = Hand
<1>1. PICK b \in tx[w].added : c = Row(b, w)
  BY DEF Commit
<1>2. b = [pool |-> b.pool, account |-> b.account]
  BY DEF CatalogTypeOK, Transaction, Binding, Writers
<1>3. b = [pool |-> d.pool, account |-> d.account]
  BY <1>1, <1>2 DEF Row
<1> QED BY <1>3 DEF OnlyMissing, Upserters

(* However many batches, registrations and deletions run with it, on any   *)
(* node, a batch binds no key to a pool that a batch or a registration has *)
(* bound it to.                                                            *)
THEOREM BoundOnce == Spec => BatchBindsOnce
<1> DEFINE IInv == CatalogTypeOK /\ LockOrder /\ PoolsApart /\ OnlyMissing
<1>1. Init => IInv
  BY CatalogInit, LockOrderInit, PoolsApartInit, OnlyMissingInit
<1>2. IInv /\ [Next]_vars => IInv'
  BY CatalogTypes, LockOrderStep, PoolsApartStep, OnlyMissingStep
<1>3. IInv /\ [Next]_vars =>
        [\A w \in Scanners : tx[w].phase = "copy" /\ tx'[w].phase = "done" =>
             \A c \in rows' \ rows : \A d \in rows :
                 d.pool = c.pool /\ d.account = c.account => d.by = Hand]_vars
  BY CopiedIsCommitted, CommitBindsOnce
<1> QED BY <1>1, <1>2, <1>3, PTL DEF Spec, BatchBindsOnce
-----------------------------------------------------------------------------
(* ModelRouting: what a name can look like on its way.                     *)

Stems(a) == Accepted(a) \cup { Trim(Space(a), n) : n \in Accepted(a) }

Spaced(a) == { Under(Space(a), x) : x \in Stems(a) }

(* The patterns an account can serve: re-discovery may put a namespace in  *)
(* front that nothing takes off, registration does not; those of 1min.ai   *)
(* stand in its manifest.                                                  *)
Servable(a) ==
    Stems(a) \cup (IF Removed(a) \/ (a \in Rescanned /\ Space(a) # "") THEN Spaced(a) ELSE {})
             \cup (IF a.provider = "1minai" THEN OneMinAIPatterns ELSE {})

BindInv == \A b \in bindings : b.account \in ProviderAccounts /\ b.pattern \in Servable(b.account)

\* A name with a path, whatever its segments are.
Named(n) == n = Name(n.path, n.tag) /\ n.path # <<>> /\ \E S : n.path \in Seq(S)

LEMMA NameIsNamed == ASSUME NEW n, IsName(n) PROVE Named(n)
BY DEF IsName, Named, Name

LEMMA Prefixed ==
    ASSUME NEW S, NEW p \in Seq(S), NEW ns
    PROVE  LET q == <<ns>> \o p
           IN  /\ \E T : q \in Seq(T)
               /\ q # <<>> /\ q[1] = ns /\ Tail(q) = p /\ Len(q) = Len(p) + 1
               /\ p # <<>> => Last(q) = Last(p)
<1> DEFINE T == S \cup {ns}
<1>1. p \in Seq(T) /\ <<ns>> \in Seq(T)
  OBVIOUS
<1> HIDE DEF T
<1> DEFINE q == <<ns>> \o p
<1>2. q \in Seq(T) /\ Len(q) = Len(p) + 1 /\ q # <<>> /\ q[1] = ns
  BY <1>1
<1>3. \A i \in 1..Len(p) : q[i + 1] = p[i]
  BY <1>1
<1>4. Tail(q) = p
  BY <1>1, <1>2, <1>3
<1>5. p # <<>> => Last(q) = Last(p)
  BY <1>1, <1>2, <1>3 DEF Last
<1> QED BY <1>2, <1>4, <1>5

LEMMA Shortened ==
    ASSUME NEW S, NEW p \in Seq(S), Len(p) > 1
    PROVE  Tail(p) \in Seq(S) /\ Tail(p) # <<>> /\ Last(Tail(p)) = Last(p)
<1> DEFINE q == Tail(p)
<1>1. q \in Seq(S) /\ Len(q) = Len(p) - 1 /\ Len(p) \in Nat
  OBVIOUS
<1>2. \A i \in 1..Len(q) : q[i] = p[i + 1]
  OBVIOUS
<1> HIDE DEF q
<1>3. Len(q) \in 1..Len(q) /\ Len(q) + 1 = Len(p)
  BY <1>1
<1>4. q[Len(q)] = p[Len(p)]
  BY <1>2, <1>3
<1>5. q # <<>>
  BY <1>1, <1>3
<1> QED BY <1>1, <1>4, <1>5 DEF Last, q

LEMMA Renamed ==
    ASSUME NEW n, Named(n), NEW q
    PROVE  /\ [n EXCEPT !.path = q] = Name(q, n.tag)
           /\ [n EXCEPT !.tag = q] = Name(n.path, q)
BY DEF Named, Name

LEMMA UnderNamed ==
    ASSUME NEW n, Named(n), NEW ns
    PROVE  /\ Named(Under(ns, n)) /\ Core(Under(ns, n)) = Core(n)
           /\ Trim(ns, Under(ns, n)) = n
           /\ Len(Under(ns, n).path) > 1 /\ Under(ns, n).path[1] = ns
           /\ Under(ns, n) # n
<1>1. PICK S : n.path \in Seq(S)
  BY DEF Named
<1> DEFINE q == <<ns>> \o n.path
<1>2. /\ \E T : q \in Seq(T)
      /\ q # <<>> /\ q[1] = ns /\ Tail(q) = n.path /\ Len(q) = Len(n.path) + 1
      /\ n.path # <<>> => Last(q) = Last(n.path)
  BY <1>1, Prefixed
<1>3. n.path # <<>> /\ Len(n.path) \in Nat \ {0}
  BY <1>1 DEF Named
<1> HIDE DEF q
<1>4. Under(ns, n) = Name(q, n.tag)
  BY Renamed DEF Under, q
<1>5. Name(q, n.tag).path = q /\ Name(q, n.tag).tag = n.tag
  BY DEF Name
<1>6. Named(Under(ns, n))
  BY <1>2, <1>4, <1>5 DEF Named
<1>7. Len(q) > 1 /\ q # n.path
  BY <1>2, <1>3
<1>8. IsUnder(ns, Under(ns, n))
  BY <1>2, <1>4, <1>5, <1>7 DEF IsUnder
<1>9. Trim(ns, Under(ns, n)) = n
  <2>1. Trim(ns, Under(ns, n)) = [Under(ns, n) EXCEPT !.path = Tail(q)]
    BY <1>4, <1>5, <1>8 DEF Trim
  <2>2. [Under(ns, n) EXCEPT !.path = n.path] = Name(n.path, n.tag)
    BY ZenonT(40), <1>4, <1>5, <1>6, Renamed
  <2> QED BY <2>1, <2>2, <1>2 DEF Named
<1> QED BY <1>2, <1>3, <1>4, <1>5, <1>6, <1>7, <1>9 DEF Core

LEMMA TrimNamed ==
    ASSUME NEW n, Named(n), NEW ns
    PROVE  Named(Trim(ns, n)) /\ Core(Trim(ns, n)) = Core(n)
<1>1. CASE ~ IsUnder(ns, n)
  BY <1>1 DEF Trim
<1>2. CASE IsUnder(ns, n)
  <2>1. PICK S : n.path \in Seq(S)
    BY DEF Named
  <2>2. Trim(ns, n) = Name(Tail(n.path), n.tag)
    BY <1>2, Renamed DEF Trim
  <2>3. Tail(n.path) \in Seq(S) /\ Tail(n.path) # <<>> /\ Last(Tail(n.path)) = Last(n.path)
    BY <1>2, <2>1, Shortened DEF IsUnder
  <2>4. Trim(ns, n).path = Tail(n.path) /\ Trim(ns, n).tag = n.tag
    BY <2>2 DEF Name
  <2>5. Named(Trim(ns, n))
    BY <2>2, <2>3, <2>4 DEF Named
  <2> QED BY <2>3, <2>4, <2>5 DEF Core
<1> QED BY <1>1, <1>2

LEMMA UntaggedNamed == ASSUME NEW n, Named(n) PROVE Named(Untagged(n))
BY Renamed DEF Untagged, Named, Name

MayPrefix(a) == Removed(a) \/ (a \in Rescanned /\ Space(a) # "")

LEMMA BothServed ==
    ASSUME NEW a, MayPrefix(a), NEW names, names \subseteq Stems(a)
    PROVE  Both(Space(a), names) \subseteq Servable(a)
BY DEF Both, Servable, MayPrefix, Spaced

LEMMA SplitServed ==
    ASSUME NEW a, MayPrefix(a), NEW names, names \subseteq Accepted(a)
    PROVE  Split(Space(a), names) \subseteq Servable(a)
BY DEF Split, Servable, MayPrefix, Spaced, Stems

LEMMA PrefixedServed ==
    ASSUME NEW a, MayPrefix(a), NEW names, names \subseteq Stems(a)
    PROVE  { Under(Space(a), n) : n \in names } \subseteq Servable(a)
BY DEF Servable, MayPrefix, Spaced

LEMMA PlainServed ==
    ASSUME NEW a, NEW names, names \subseteq Stems(a) PROVE names \subseteq Servable(a)
BY DEF Servable

LEMMA OwnSpaces ==
    ASSUME NEW a
    PROVE  /\ a.provider \in OwnSpace => Space(a) = a.provider
           /\ a.provider \in OwnSpace \ {"openrouter"} => Removed(a)
           /\ a.provider = "1minai" => Space(a) = "1min" /\ Removed(a)
BY DEF Space, OwnSpace, Removed, BodyNamespaces

LEMMA NamesAccepted ==
    ASSUME NEW a, a.provider \in {"nvidia", "sarvam", "puter", "zenmux"}
                  \/ a.provider \notin OwnSpace \cup {"1minai"}
    PROVE  Names(a) \cup Aliases(a) = Accepted(a)
BY DEF Accepted, OwnSpace

LEMMA FreeAccepted ==
    ASSUME NEW a \in ProviderAccounts, a.provider = "openrouter", NEW answer
    PROVE  /\ ListOpenRouter(a, answer) \subseteq Accepted(a)
           /\ { Untagged(n) : n \in ListOpenRouter(a, answer) } \subseteq Accepted(a)
<1> SUFFICES ASSUME NEW e \in Entries(a), IsFree(e)
             PROVE  e.name \in Accepted(a) /\ Untagged(e.name) \in Accepted(a)
  BY DEF ListOpenRouter
<1>1. Accepted(a) = { n \in Names(a) \cup { Untagged(x) : x \in Names(a) } :
                          \E f \in a.listing : IsFree(f) /\ f.name.path = n.path }
  BY DEF Accepted
<1>2. e \in a.listing /\ e.name \in Names(a)
  BY DEF Entries, Names
<1>3. Untagged(e.name).path = e.name.path
  <2>1. Named(e.name)
    BY <1>2, NameAssumption, NameIsNamed
  <2> QED BY <2>1, Renamed DEF Untagged, Name
<1> QED BY <1>1, <1>2, <1>3

LEMMA RouterAccepted ==
    ASSUME NEW a, a.provider = "agentrouter", NEW answer
    PROVE  /\ ListAgentRouter(a, answer) \subseteq Stems(a)
           /\ Space(a) = "agentrouter" /\ MayPrefix(a)
<1>1. Accepted(a) = Names(a) \cup Defaults
  BY DEF Accepted
<1>2. Space(a) = "agentrouter" /\ Removed(a)
  BY OwnSpaces DEF OwnSpace
<1> QED BY <1>1, <1>2 DEF ListAgentRouter, Stems, MayPrefix

LEMMA RegisteredServed ==
    ASSUME NEW a \in ProviderAccounts, NEW answer PROVE Registered(a, answer) \subseteq Servable(a)
<1>0. Accepted(a) \subseteq Stems(a)
  BY DEF Stems
<1>a. Listing(a, answer) \subseteq Names(a)
  BY DEF Listing
<1>1. CASE a.provider = "nvidia"
  <2>1. Space(a) = "nvidia" /\ MayPrefix(a) /\ Names(a) \subseteq Accepted(a)
    BY <1>1, OwnSpaces, NamesAccepted DEF OwnSpace, MayPrefix
  <2>2. Registered(a, answer) = Split("nvidia", Listing(a, answer))
    BY <1>1 DEF Registered, RegisterNvidia
  <2> QED BY <1>a, <2>1, <2>2, SplitServed
<1>2. CASE a.provider = "ollama"
  <2>1. Space(a) = "ollama" /\ MayPrefix(a) /\ Names(a) \subseteq Accepted(a)
    BY <1>2, OwnSpaces DEF OwnSpace, MayPrefix, Accepted
  <2>2. Registered(a, answer) = Both("ollama", Listing(a, answer))
    BY <1>2 DEF Registered, RegisterOllama, ListOllama
  <2> QED BY <1>0, <1>a, <2>1, <2>2, BothServed
<1>3. CASE a.provider = "openrouter"
  <2>1. Registered(a, answer) \subseteq Accepted(a)
    BY <1>3, FreeAccepted DEF Registered, RegisterOpenRouter
  <2> QED BY <1>0, <2>1, PlainServed
<1>4. CASE a.provider = "1minai"
  BY <1>4 DEF Registered, RegisterOneMinAI, Servable
<1>5. CASE a.provider = "sarvam"
  <2>1. Space(a) = "sarvam" /\ MayPrefix(a) /\ Names(a) \subseteq Accepted(a)
    BY <1>5, OwnSpaces, NamesAccepted DEF OwnSpace, MayPrefix
  <2>2. Registered(a, answer) \subseteq Both("sarvam", Names(a))
    BY <1>5 DEF Registered, RegisterSarvam
  <2> QED BY <1>0, <2>1, <2>2, BothServed
<1>6. CASE a.provider = "puter"
  <2>1. Space(a) = "puter" /\ MayPrefix(a) /\ Names(a) \subseteq Accepted(a)
    BY <1>6, OwnSpaces, NamesAccepted DEF OwnSpace, MayPrefix
  <2>2. Registered(a, answer) = { Under("puter", n) : n \in Listing(a, answer) }
    BY <1>6 DEF Registered, RegisterPuter, ListPuter
  <2> QED BY <1>0, <1>a, <2>1, <2>2, PrefixedServed
<1>7. CASE a.provider = "cloudflare"
  <2>1. Space(a) = "cloudflare" /\ MayPrefix(a) /\ Names(a) \cup Docs \subseteq Accepted(a)
    BY <1>7, OwnSpaces DEF OwnSpace, MayPrefix, Accepted
  <2>2. /\ Registered(a, answer) = Both("cloudflare", Listing(a, answer) \cup ListDocs(answer))
        /\ ListDocs(answer) \subseteq Docs
    BY <1>7 DEF Registered, RegisterCloudflare, ListCloudflare, ListDocs
  <2> QED BY <1>0, <1>a, <2>1, <2>2, BothServed
<1>8. CASE a.provider = "zenmux"
  <2>1. Space(a) = "zenmux" /\ MayPrefix(a) /\ Names(a) \subseteq Accepted(a)
    BY <1>8, OwnSpaces, NamesAccepted DEF OwnSpace, MayPrefix
  <2>2. Registered(a, answer) = Both("zenmux", Listing(a, answer))
    BY <1>8 DEF Registered, RegisterZenMux
  <2> QED BY <1>0, <1>a, <2>1, <2>2, BothServed
<1>9. CASE a.provider = "gemini"
  <2>1. Space(a) = "gemini" /\ MayPrefix(a) /\ ListGemini(a, answer) \subseteq Accepted(a)
    BY <1>9, OwnSpaces DEF OwnSpace, MayPrefix, Accepted, ListGemini
  <2>2. Registered(a, answer) = Both("gemini", ListGemini(a, answer))
    BY <1>9 DEF Registered, RegisterGemini
  <2> QED BY <1>0, <2>1, <2>2, BothServed
<1>10. CASE a.provider = "agentrouter"
  <2>1. Registered(a, answer) \subseteq Both("agentrouter", ListAgentRouter(a, answer))
    BY <1>10 DEF Registered, RegisterAgentRouter, Both
  <2> QED BY <1>10, <2>1, RouterAccepted, BothServed
<1>11. CASE a.provider \notin OwnSpace \cup {"1minai"}
  <2>1. Names(a) \subseteq Accepted(a)
    BY <1>11, NamesAccepted
  <2>2. Registered(a, answer) = RegisterCustom(a, answer)
    BY <1>11 DEF Registered, OwnSpace
  <2>3. CASE a.prefix = ""
    BY <1>0, <1>a, <2>1, <2>2, <2>3, PlainServed DEF RegisterCustom
  <2>4. CASE a.prefix # ""
    <3>1. Space(a) = a.prefix /\ MayPrefix(a)
      BY <1>11, <2>4 DEF Space, MayPrefix, Removed
    <3> QED BY <1>a, <2>1, <2>2, <2>4, <3>1, SplitServed DEF RegisterCustom
  <2> QED BY <2>3, <2>4
<1> QED BY <1>1, <1>2, <1>3, <1>4, <1>5, <1>6, <1>7, <1>8, <1>9, <1>10, <1>11 DEF OwnSpace

LEMMA FetchedServed ==
    ASSUME NEW a \in Rescanned, NEW answer PROVE Fetched(a, answer) \subseteq Servable(a)
<1>0. a \in ProviderAccounts /\ Accepted(a) \subseteq Stems(a)
  BY NameAssumption DEF Stems
<1>a. Listing(a, answer) \subseteq Names(a)
  BY DEF Listing
<1>1. CASE a.provider = "nvidia"
  BY <1>0, <1>1, RegisteredServed DEF Fetched, Registered, FetchNvidia
<1>2. CASE a.provider = "ollama"
  <2>1. /\ Space(a) = "ollama" /\ MayPrefix(a)
        /\ Names(a) \cup { Untagged(n) : n \in Names(a) } \subseteq Accepted(a)
    BY <1>2, OwnSpaces DEF OwnSpace, MayPrefix, Accepted
  <2> DEFINE names == Listing(a, answer) \cup { Untagged(n) : n \in Listing(a, answer) }
  <2>2. Fetched(a, answer) = Both("ollama", names)
    BY <1>2 DEF Fetched, FetchOllama
  <2>3. names \subseteq Stems(a)
    BY <1>0, <1>a, <2>1
  <2> HIDE DEF names
  <2> QED BY <2>1, <2>2, <2>3, BothServed
<1>3. CASE a.provider = "openrouter"
  <2>1. Space(a) = "openrouter" /\ MayPrefix(a)
    BY <1>3, OwnSpaces DEF OwnSpace, MayPrefix
  <2>2. Fetched(a, answer) = Both("openrouter", RegisterOpenRouter(a, answer))
    BY <1>3 DEF Fetched, FetchOpenRouter
  <2>3. RegisterOpenRouter(a, answer) \subseteq Stems(a)
    BY <1>0, <1>3, FreeAccepted DEF RegisterOpenRouter
  <2> QED BY <2>1, <2>2, <2>3, BothServed
<1>4. CASE a.provider = "1minai"
  BY <1>4 DEF Fetched, FetchOneMinAI, Servable
<1>5. CASE a.provider = "sarvam"
  <2>1. Space(a) = "sarvam" /\ MayPrefix(a) /\ Names(a) \subseteq Accepted(a)
    BY <1>5, OwnSpaces, NamesAccepted DEF OwnSpace, MayPrefix
  <2>2. Fetched(a, answer) = Both("sarvam", Names(a))
    BY <1>5 DEF Fetched, FetchSarvam
  <2> QED BY <1>0, <2>1, <2>2, BothServed
<1>6. CASE a.provider = "puter"
  <2>1. Space(a) = "puter" /\ MayPrefix(a) /\ Names(a) \cup Aliases(a) \subseteq Accepted(a)
    BY <1>6, OwnSpaces, NamesAccepted DEF OwnSpace, MayPrefix
  <2> DEFINE names == ListPuter(a, answer) \cup (IF Answered(answer) THEN Aliases(a) ELSE {})
  <2>2. Fetched(a, answer) = { Under("puter", n) : n \in names }
    BY <1>6 DEF Fetched, FetchPuter
  <2>3. names \subseteq Stems(a)
    BY <1>0, <1>a, <2>1 DEF ListPuter
  <2> HIDE DEF names
  <2> QED BY <2>1, <2>2, <2>3, PrefixedServed
<1>7. CASE a.provider = "cloudflare"
  <2>1. Space(a) = "cloudflare" /\ MayPrefix(a) /\ Names(a) \subseteq Accepted(a)
    BY <1>7, OwnSpaces DEF OwnSpace, MayPrefix, Accepted
  <2>2. Fetched(a, answer) = Both("cloudflare", Listing(a, answer))
    BY <1>7 DEF Fetched, FetchCloudflare, ListCloudflare
  <2> QED BY <1>0, <1>a, <2>1, <2>2, BothServed
<1>8. CASE a.provider = "zenmux"
  BY <1>0, <1>8, RegisteredServed DEF Fetched, Registered, FetchZenMux
<1>9. CASE a.provider = "gemini"
  BY <1>0, <1>9, RegisteredServed DEF Fetched, Registered, FetchGemini
<1>10. CASE a.provider = "agentrouter"
  <2>1. Fetched(a, answer) = Both("agentrouter", ListAgentRouter(a, answer))
    BY <1>10 DEF Fetched, FetchAgentRouter
  <2> QED BY <1>10, <2>1, RouterAccepted, BothServed
<1>11. CASE a.provider \notin OwnSpace \cup {"1minai"}
  <2>1. Names(a) \subseteq Accepted(a)
    BY <1>11, NamesAccepted
  <2>2. Fetched(a, answer) = FetchCustom(a, answer)
    BY <1>11 DEF Fetched, OwnSpace
  <2>3. FetchCustom(a, answer) =
            IF Space(a) = "" THEN Listing(a, answer) ELSE Split(Space(a), Listing(a, answer))
    BY <1>11 DEF FetchCustom, Space
  <2>4. CASE Space(a) = ""
    BY <1>0, <1>a, <2>1, <2>2, <2>3, <2>4, PlainServed
  <2>5. CASE Space(a) # ""
    BY <1>a, <2>1, <2>2, <2>3, <2>5, SplitServed DEF MayPrefix
  <2> QED BY <2>4, <2>5
<1> QED BY <1>1, <1>2, <1>3, <1>4, <1>5, <1>6, <1>7, <1>8, <1>9, <1>10, <1>11 DEF OwnSpace

LEMMA ListingsKept ==
    ASSUME published' = published, NEW a, NEW answer
    PROVE  /\ Accepted(a)' = Accepted(a)
           /\ Names(a)' = Names(a)
           /\ Fetched(a, answer)' = Fetched(a, answer)
<1>1. Entries(a)' = Entries(a)
  BY DEF Entries
<1>2. Names(a)' = Names(a)
  BY <1>1 DEF Names
<1>3. Aliases(a)' = Aliases(a)
  BY <1>1 DEF Aliases
<1>4. \A kinds : OfKind(a, kinds)' = OfKind(a, kinds)
  BY <1>1 DEF OfKind
<1>5. Accepted(a)' = Accepted(a)
  BY <1>2, <1>3, <1>4 DEF Accepted, OneMinAIModels
<1>6. Listing(a, answer)' = Listing(a, answer)
  BY <1>2 DEF Listing
<1>7. ListOpenRouter(a, answer)' = ListOpenRouter(a, answer)
  BY <1>1 DEF ListOpenRouter
<1>8. ListGemini(a, answer)' = ListGemini(a, answer)
  BY <1>4 DEF ListGemini
<1>9. ListAgentRouter(a, answer)' = ListAgentRouter(a, answer)
  BY <1>2 DEF ListAgentRouter
<1>10. /\ FetchNvidia(a, answer)' = FetchNvidia(a, answer)
       /\ FetchOllama(a, answer)' = FetchOllama(a, answer)
       /\ FetchOpenRouter(a, answer)' = FetchOpenRouter(a, answer)
  BY <1>6, <1>7 DEF FetchNvidia, RegisterNvidia, FetchOllama, FetchOpenRouter, RegisterOpenRouter
<1>11. FetchOneMinAI(a)' = FetchOneMinAI(a) /\ FetchSarvam(a)' = FetchSarvam(a)
  BY <1>2 DEF FetchOneMinAI, OneMinAIPatterns, OneMinAIModels, FetchSarvam
<1>12. /\ FetchCloudflare(a, answer)' = FetchCloudflare(a, answer)
       /\ FetchPuter(a, answer)' = FetchPuter(a, answer)
  BY <1>3, <1>6 DEF FetchCloudflare, ListCloudflare, FetchPuter, ListPuter
<1>13. /\ FetchAgentRouter(a, answer)' = FetchAgentRouter(a, answer)
       /\ FetchZenMux(a, answer)' = FetchZenMux(a, answer)
       /\ FetchGemini(a, answer)' = FetchGemini(a, answer)
  BY <1>6, <1>8, <1>9 DEF FetchAgentRouter, FetchZenMux, RegisterZenMux, FetchGemini, RegisterGemini
<1>14. FetchCustom(a, answer)' = FetchCustom(a, answer)
  BY <1>6 DEF FetchCustom
<1>15. Fetched(a, answer)' = Fetched(a, answer)
  BY <1>10, <1>11, <1>12, <1>13, <1>14 DEF Fetched
<1> QED BY <1>2, <1>5, <1>15

\* Providers list more with time: what could be served still can.
LEMMA ServedLater ==
    ASSUME NEW a, published' = published \/ published' = TRUE
    PROVE  Servable(a) \subseteq Servable(a)'
<1>1. Entries(a) \subseteq Entries(a)'
  BY DEF Entries
<1>2. Names(a) \subseteq Names(a)'
  BY <1>1 DEF Names
<1>3. Aliases(a) \subseteq Aliases(a)'
  BY <1>1 DEF Aliases
<1>4. \A kinds : OfKind(a, kinds) \subseteq OfKind(a, kinds)'
  BY <1>1 DEF OfKind
<1>5. Accepted(a) \subseteq Accepted(a)'
  <2>1. CASE a.provider = "gemini"
    BY <2>1, <1>4 DEF Accepted
  <2>2. CASE a.provider = "openrouter"
    BY <2>2, <1>2 DEF Accepted
  <2>3. CASE a.provider = "ollama"
    BY <2>3, <1>2 DEF Accepted
  <2>4. CASE a.provider \in {"cloudflare", "agentrouter"}
    BY <2>4, <1>2 DEF Accepted
  <2>5. CASE a.provider \notin {"gemini", "openrouter", "ollama", "cloudflare", "agentrouter"}
    BY <2>5, <1>2, <1>3 DEF Accepted
  <2> QED BY <2>1, <2>2, <2>3, <2>4, <2>5
<1>6. Stems(a) \subseteq Stems(a)'
  BY <1>5 DEF Stems
<1>7. Spaced(a) \subseteq Spaced(a)'
  BY <1>6 DEF Spaced
<1> QED BY <1>6, <1>7 DEF Servable

\* The steps of a request leave the catalogue alone.
LEMMA StepsOfNames ==
    ASSUME [RoutingNext]_routingVars
    PROVE  \/ \E a \in ProviderAccounts, answer \in Answers : Register(a, answer)
           \/ \E a \in Rescanned, answer \in Answers : ReDiscover(a, answer)
           \/ \E a \in ProviderAccounts : DeleteAccount(a)
           \/ Publish
           \/ UNCHANGED <<bindings, published, refreshed>>
BY DEF RoutingNext, routingVars, Receive, Forward, SwitchPool, Rotate, Close

LEMMA BoundToServe == BindInv /\ [RoutingNext]_routingVars => BindInv'
<1> SUFFICES ASSUME BindInv, [RoutingNext]_routingVars PROVE BindInv'
  OBVIOUS
<1>1. ASSUME NEW a \in ProviderAccounts, NEW answer \in Answers, Register(a, answer)
      PROVE  BindInv'
  <2>1. published' = published /\ bindings' = bindings \cup Bind(a, Registered(a, answer))
    BY <1>1 DEF Register
  <2>2. Registered(a, answer) \subseteq Servable(a)'
    BY <2>1, RegisteredServed, ServedLater
  <2>3. \A b \in bindings : b.pattern \in Servable(b.account)'
    BY <2>1, ServedLater DEF BindInv
  <2> QED BY <2>1, <2>2, <2>3 DEF BindInv, Bind
<1>2. ASSUME NEW a \in Rescanned, NEW answer \in Answers, ReDiscover(a, answer)
      PROVE  BindInv'
  <2>1. published' = published /\ bindings' = bindings \cup Bind(a, Fetched(a, answer))
    BY <1>2 DEF ReDiscover
  <2>2. Fetched(a, answer) \subseteq Servable(a)' /\ a \in ProviderAccounts
    BY <2>1, FetchedServed, ServedLater, NameAssumption
  <2>3. \A b \in bindings : b.pattern \in Servable(b.account)'
    BY <2>1, ServedLater DEF BindInv
  <2> QED BY <2>1, <2>2, <2>3 DEF BindInv, Bind
<1>3. ASSUME bindings' \subseteq bindings, published' = published \/ published' = TRUE
      PROVE  BindInv'
  <2>1. \A b \in bindings : b.pattern \in Servable(b.account)'
    BY <1>3, ServedLater DEF BindInv
  <2> QED BY <1>3, <2>1 DEF BindInv
<1> QED BY <1>1, <1>2, <1>3, StepsOfNames DEF DeleteAccount, Publish

-----------------------------------------------------------------------------
(* ModelRouting: the re-discovery gives what the registration gives.       *)

CoverInv == \A a \in refreshed : \A n \in Fetched(a, "ok") : [pattern |-> n, account |-> a] \in bindings

LEMMA AnsweredAlike ==
    ASSUME NEW a, NEW answer \in Answers, Answered(answer)
    PROVE  Fetched(a, answer) = Fetched(a, "ok")
<1>1. Listing(a, answer) = Listing(a, "ok") /\ ListAgentRouter(a, answer) = ListAgentRouter(a, "ok")
  BY DEF Listing, ListAgentRouter, Answered
<1>2. /\ ListOpenRouter(a, answer) = ListOpenRouter(a, "ok")
      /\ ListGemini(a, answer) = ListGemini(a, "ok")
  BY DEF ListOpenRouter, ListGemini, Answered
<1>3. /\ FetchNvidia(a, answer) = FetchNvidia(a, "ok")
      /\ FetchOllama(a, answer) = FetchOllama(a, "ok")
      /\ FetchOpenRouter(a, answer) = FetchOpenRouter(a, "ok")
      /\ FetchCloudflare(a, answer) = FetchCloudflare(a, "ok")
  BY <1>1, <1>2 DEF FetchNvidia, RegisterNvidia, FetchOllama, FetchOpenRouter, RegisterOpenRouter,
     FetchCloudflare, ListCloudflare
<1>4. FetchPuter(a, answer) = FetchPuter(a, "ok")
  BY <1>1 DEF FetchPuter, ListPuter, Answered
<1>5. /\ FetchAgentRouter(a, answer) = FetchAgentRouter(a, "ok")
      /\ FetchZenMux(a, answer) = FetchZenMux(a, "ok")
      /\ FetchGemini(a, answer) = FetchGemini(a, "ok")
      /\ FetchCustom(a, answer) = FetchCustom(a, "ok")
  BY <1>1, <1>2 DEF FetchAgentRouter, FetchZenMux, RegisterZenMux, FetchGemini, RegisterGemini,
     FetchCustom
<1> QED BY <1>3, <1>4, <1>5 DEF Fetched

LEMMA FetchedCovers ==
    ASSUME NEW a
    PROVE  \A n \in Registered(a, "ok") :
               n \in Fetched(a, "ok")
               \/ (a.provider = "cloudflare" /\ n \in Both("cloudflare", Docs))
<1>1. CASE a.provider \in {"nvidia", "zenmux", "gemini"}
  BY <1>1 DEF Registered, Fetched, FetchNvidia, FetchZenMux, FetchGemini
<1>2. CASE a.provider = "ollama"
  BY <1>2 DEF Registered, Fetched, RegisterOllama, FetchOllama, ListOllama, Both
<1>3. CASE a.provider = "openrouter"
  BY <1>3 DEF Registered, Fetched, FetchOpenRouter, Both
<1>4. CASE a.provider = "1minai"
  BY <1>4 DEF Registered, Fetched, RegisterOneMinAI, FetchOneMinAI
<1>5. CASE a.provider = "sarvam"
  BY <1>5 DEF Registered, Fetched, RegisterSarvam, FetchSarvam
<1>6. CASE a.provider = "puter"
  BY <1>6 DEF Registered, Fetched, RegisterPuter, FetchPuter
<1>7. CASE a.provider = "cloudflare"
  BY <1>7 DEF Registered, Fetched, RegisterCloudflare, FetchCloudflare, ListCloudflare, ListDocs, Both
<1>8. CASE a.provider = "agentrouter"
  BY <1>8 DEF Registered, Fetched, RegisterAgentRouter, FetchAgentRouter, Both
<1>9. CASE a.provider \notin OwnSpace \cup {"1minai"}
  <2>1. Registered(a, "ok") = RegisterCustom(a, "ok") /\ Fetched(a, "ok") = FetchCustom(a, "ok")
    BY <1>9 DEF Registered, Fetched, OwnSpace
  <2>2. RegisterCustom(a, "ok") \subseteq FetchCustom(a, "ok")
    <3>1. \A ns, names : names \subseteq Split(ns, names)
      BY DEF Split
    <3>2. CASE a.prefix = ""
      BY <3>1, <3>2 DEF RegisterCustom, FetchCustom
    <3>3. CASE a.prefix # ""
      BY <3>3 DEF RegisterCustom, FetchCustom
    <3> QED BY <3>2, <3>3
  <2> QED BY <2>1, <2>2
<1> QED BY <1>1, <1>2, <1>3, <1>4, <1>5, <1>6, <1>7, <1>8, <1>9 DEF OwnSpace

LEMMA CoverStep == CoverInv /\ [RoutingNext]_routingVars => CoverInv'
<1> SUFFICES ASSUME CoverInv, [RoutingNext]_routingVars PROVE CoverInv'
  OBVIOUS
<1>1. ASSUME published' = published, refreshed' = refreshed, bindings \subseteq bindings'
      PROVE  CoverInv'
  BY <1>1, ListingsKept DEF CoverInv
<1>2. ASSUME NEW a \in ProviderAccounts, NEW answer \in Answers, Register(a, answer)
      PROVE  CoverInv'
  BY <1>1, <1>2 DEF Register
<1>3. ASSUME NEW a \in Rescanned, NEW answer \in Answers, ReDiscover(a, answer)
      PROVE  CoverInv'
  <2>1. published' = published /\ bindings' = bindings \cup Bind(a, Fetched(a, answer))
    BY <1>3 DEF ReDiscover
  <2>2. \A x \in refreshed : \A n \in Fetched(x, "ok")' : [pattern |-> n, account |-> x] \in bindings'
    BY <2>1, ListingsKept DEF CoverInv
  <2>3. CASE ~ Answered(answer)
    BY <1>3, <2>2, <2>3 DEF ReDiscover, CoverInv
  <2>4. CASE Answered(answer)
    <3>1. Fetched(a, "ok")' = Fetched(a, answer)
      BY <2>1, <2>4, AnsweredAlike, ListingsKept
    <3>2. refreshed' = refreshed \cup {a}
      BY <1>3, <2>4 DEF ReDiscover
    <3>3. \A n \in Fetched(a, "ok")' : [pattern |-> n, account |-> a] \in bindings'
      BY <2>1, <3>1 DEF Bind
    <3> QED BY <2>2, <3>2, <3>3 DEF CoverInv
  <2> QED BY <2>3, <2>4
<1>4. ASSUME NEW a \in ProviderAccounts, DeleteAccount(a) PROVE CoverInv'
  <2>1. /\ published' = published /\ refreshed' = refreshed \ {a}
        /\ bindings' = { b \in bindings : b.account # a }
    BY <1>4 DEF DeleteAccount
  <2>2. \A x \in refreshed' : \A n \in Fetched(x, "ok")' : [pattern |-> n, account |-> x] \in bindings
    BY <2>1, ListingsKept DEF CoverInv
  <2> QED BY <2>1, <2>2 DEF CoverInv
<1>5. CASE Publish
  BY <1>5 DEF Publish, CoverInv
<1> QED BY <1>1, <1>2, <1>3, <1>4, <1>5, StepsOfNames

(* Whatever accounts are added, deleted, scanned or refused meanwhile, an  *)
(* account whose re-discovery was answered serves what registering it      *)
(* would give it, but for the public catalogue of Cloudflare.              *)
THEOREM ScanIsComplete == RoutingSpec => []ScanCoversRegistration
<1>1. RoutingInit => CoverInv
  BY DEF RoutingInit, CoverInv
<1>2. CoverInv => ScanCoversRegistration
  BY FetchedCovers DEF CoverInv, ScanCoversRegistration
<1> QED BY <1>1, <1>2, CoverStep, PTL DEF RoutingSpec
-----------------------------------------------------------------------------
(* ModelRouting: the names of a request.                                   *)

RequestFields ==
    {"stage", "asked", "pool", "body", "model", "small", "exact", "tried", "switches", "by", "sent"}

\* An inline completion asks for the small model.
Meant == IF req.small THEN Under("puter", Downgrade) ELSE req.asked

\* The first pool's names are those of the request, a later one's its own.
NamesInv ==
    /\ Named(req.asked) /\ Named(req.body) /\ Named(req.model) /\ req.switches \in Nat
    /\ req.small => IsUnder("puter", req.asked)
    /\ req.switches = 0 => /\ req.exact => req.pool = req.asked
                           /\ req.body = TrimAny(BodyNamespaces, Meant)
                           /\ req.model = TrimAny(ModelNamespaces, Meant)
    /\ req.switches # 0 /\ req.exact => /\ Core(req.pool) = Core(req.asked)
                                        /\ Core(req.body) = Core(req.asked)
                                        /\ Core(req.model) = Core(req.asked)

SentInv ==
    Sent => \E a \in ProviderAccounts, run \in BOOLEAN :
                /\ req.by = {a} /\ [pattern |-> req.pool, account |-> a] \in bindings
                /\ Translates(a, req) /\ req.sent = Upstream(a, req, run)

RequestInv == req = NoRequest \/ (DOMAIN req = RequestFields /\ NamesInv /\ SentInv)

ListedNames(a) == { e.name : e \in a.listing }

Nicknames(a) == UNION { e.aliases : e \in a.listing }

Manifest(a) ==
    CASE a.provider = "cloudflare" -> Docs [] a.provider = "agentrouter" -> Defaults
      [] a.provider = "1minai" -> OneMinAIPatterns [] OTHER -> {}

\* Every name an account may ever answer to.
Mine(a) ==
    ListedNames(a) \cup { Untagged(n) : n \in ListedNames(a) } \cup Nicknames(a) \cup Manifest(a)

\* No account but Puter's has a name under "puter".
PuterApart ==
    \A a \in ProviderAccounts : a.provider # "puter" =>
        /\ Space(a) # "puter"
        /\ \A n \in Mine(a) : ~ IsUnder("puter", n) /\ ~ IsUnder("puter", Trim(Space(a), n))

\* The manifest of 1min.ai.
LEMMA ManifestNamed == \A n \in OneMinAIPatterns : Named(n)
BY NameAssumption, NameIsNamed DEF OneMinAIPatterns, OneMinAIModels

LEMMA MineNamed ==
    ASSUME NEW a \in ProviderAccounts, NEW n \in Mine(a) PROVE Named(n)
<1>1. \A m \in ListedNames(a) \cup Nicknames(a) : Named(m)
  BY NameAssumption, NameIsNamed DEF ListedNames, Nicknames
<1>2. \A m \in ListedNames(a) : Named(Untagged(m))
  BY <1>1, UntaggedNamed
<1>3. \A m \in Manifest(a) : Named(m)
  BY ManifestNamed, NameAssumption, NameIsNamed DEF Manifest
<1> QED BY <1>1, <1>2, <1>3 DEF Mine

LEMMA AcceptedMine == ASSUME NEW a PROVE Accepted(a) \subseteq Mine(a)
<1>1. Names(a) \subseteq ListedNames(a) /\ Aliases(a) \subseteq Nicknames(a)
  BY DEF Names, Aliases, Entries, ListedNames, Nicknames
<1>2. \A kinds : OfKind(a, kinds) \subseteq ListedNames(a)
  BY DEF OfKind, Entries, ListedNames
<1>3. CASE a.provider \in {"gemini", "ollama"}
  BY <1>1, <1>2, <1>3 DEF Accepted, Mine
<1>4. CASE a.provider = "openrouter"
  BY <1>1, <1>4 DEF Accepted, Mine
<1>5. CASE a.provider = "cloudflare"
  BY <1>1, <1>5 DEF Accepted, Mine, Manifest
<1>6. CASE a.provider = "agentrouter"
  BY <1>1, <1>6 DEF Accepted, Mine, Manifest
<1>7. CASE a.provider = "1minai"
  BY <1>7 DEF Accepted, Mine, Manifest, OneMinAIPatterns
<1>8. CASE a.provider \notin {"gemini", "openrouter", "ollama", "cloudflare", "agentrouter", "1minai"}
  BY <1>1, <1>8 DEF Accepted, Mine
<1> QED BY <1>3, <1>4, <1>5, <1>6, <1>7, <1>8

LEMMA ServableNamed ==
    ASSUME NEW a \in ProviderAccounts
    PROVE  /\ \A n \in Stems(a) : Named(n)
           /\ \A n \in Servable(a) : Named(n)
<1>1. \A n \in Accepted(a) : Named(n)
  BY MineNamed, AcceptedMine
<1>2. \A n \in Stems(a) : Named(n)
  BY <1>1, TrimNamed DEF Stems
<1>3. \A n \in Spaced(a) : Named(n)
  BY <1>2, UnderNamed DEF Spaced
<1> QED BY <1>2, <1>3, ManifestNamed DEF Servable

LEMMA PooledNamed == ASSUME BindInv, NEW p \in Pooled PROVE Named(p)
BY ServableNamed DEF BindInv, Pooled

LEMMA TrimAnyNamed ==
    ASSUME NEW n, Named(n), NEW namespaces
    PROVE  Named(TrimAny(namespaces, n)) /\ Core(TrimAny(namespaces, n)) = Core(n)
BY TrimNamed DEF TrimAny

LEMMA FormatNamed ==
    ASSUME NEW n, Named(n) PROVE Named(Format(n)) /\ Core(Format(n)) = Core(n)
<1>1. CASE ~ (Len(n.path) > 1 /\ (n.path[1] \in Known \/ n.path[1] \notin Vendors))
  BY <1>1 DEF Format
<1>2. CASE Len(n.path) > 1 /\ (n.path[1] \in Known \/ n.path[1] \notin Vendors)
  <2>1. IsUnder(n.path[1], n)
    BY <1>2 DEF IsUnder
  <2>2. Format(n) = Trim(n.path[1], n)
    BY <1>2, <2>1 DEF Format, Trim
  <2> QED BY <2>2, TrimNamed
<1> QED BY <1>1, <1>2

LEMMA StepReceiveName ==
    ASSUME BindInv, NEW n \in Pooled \cup Unlisted, NEW small \in BOOLEAN, Receive(n, small)
    PROVE  RequestInv'
<1>1. PICK pool : req' = Routed(n, pool, small)
  BY DEF Receive
<1> DEFINE o == Optimized(n, small)
<1>2. Named(n) /\ Named(Downgrade)
  BY PooledNamed, NameAssumption, NameIsNamed
<1>3. o = (IF small /\ IsUnder("puter", n) THEN Under("puter", Downgrade) ELSE n)
  BY DEF Optimized
<1>4. Named(o)
  BY <1>2, <1>3, UnderNamed
<1> HIDE DEF o
<1>5. /\ req'.asked = n /\ req'.pool = pool /\ req'.body = TrimAny(BodyNamespaces, o)
      /\ req'.model = TrimAny(ModelNamespaces, o) /\ (req'.small <=> o # n)
      /\ (req'.exact <=> pool = n) /\ req'.switches = 0 /\ req'.stage = "routed"
      /\ DOMAIN req' = RequestFields
  BY <1>1 DEF Routed, RequestFields, o
<1>6. Meant' = o
  BY <1>3, <1>5 DEF Meant
<1>7. Named(req'.body) /\ Named(req'.model)
  BY <1>4, <1>5, TrimAnyNamed
<1>8. req'.small => IsUnder("puter", n)
  BY <1>3, <1>5
<1>9. NamesInv'
  BY <1>2, <1>5, <1>6, <1>7, <1>8 DEF NamesInv
<1>10. SentInv'
  BY <1>5 DEF SentInv, Sent
<1> QED BY <1>5, <1>9, <1>10 DEF RequestInv

LEMMA StepForwardName ==
    ASSUME RequestInv, NEW a \in ProviderAccounts, NEW run \in BOOLEAN, Forward(a, run)
    PROVE  RequestInv'
<1>1. /\ req.stage = "routed" /\ [pattern |-> req.pool, account |-> a] \in bindings
      /\ Translates(a, req) /\ UNCHANGED <<bindings, published>>
      /\ req' = [req EXCEPT !.stage = "sent", !.by = {a}, !.sent = Upstream(a, req, run)]
  BY DEF Forward
<1>2. DOMAIN req = RequestFields /\ NamesInv
  BY <1>1 DEF RequestInv, NoRequest
<1>3. /\ DOMAIN req' = RequestFields
      /\ req'.asked = req.asked /\ req'.pool = req.pool /\ req'.body = req.body
      /\ req'.model = req.model /\ req'.small = req.small /\ req'.exact = req.exact
      /\ req'.switches = req.switches
      /\ req'.by = {a} /\ req'.sent = Upstream(a, req, run)
  BY <1>1, <1>2 DEF RequestFields
<1>4. NamesInv'
  BY <1>2, <1>3 DEF NamesInv, Meant
<1>5. Upstream(a, req', run) = Upstream(a, req, run)
  BY <1>3 DEF Upstream, UpstreamOneMinAI
<1>6. OneMinAIPatterns' = OneMinAIPatterns
  BY DEF OneMinAIPatterns, OneMinAIModels
<1>7. Translates(a, req)'
  BY <1>1, <1>3, <1>6 DEF Translates
<1>8. SentInv'
  BY <1>1, <1>3, <1>5, <1>7 DEF SentInv
<1> QED BY <1>3, <1>4, <1>8 DEF RequestInv

LEMMA StepSwitchName ==
    ASSUME BindInv, RequestInv, NEW p \in Pooled, SwitchPool(p) PROVE RequestInv'
<1>1. /\ req.stage \in {"routed", "sent"} /\ SameModel(req, p)
      /\ req' = [req EXCEPT !.stage = "routed", !.by = {}, !.pool = p, !.tried = @ \cup {p},
                            !.body = Format(p), !.model = Trim("cloudflare", p),
                            !.switches = @ + 1]
  BY DEF SwitchPool
<1>2. DOMAIN req = RequestFields /\ NamesInv
  BY <1>1 DEF RequestInv, NoRequest
<1>3. /\ DOMAIN req' = RequestFields /\ req'.stage = "routed"
      /\ req'.asked = req.asked /\ req'.small = req.small /\ req'.exact = req.exact
      /\ req'.pool = p /\ req'.body = Format(p) /\ req'.model = Trim("cloudflare", p)
      /\ req'.switches = req.switches + 1
  BY <1>1, <1>2 DEF RequestFields
<1>4. req'.switches \in Nat /\ req'.switches # 0
  BY <1>2, <1>3 DEF NamesInv
<1>5. Named(p)
  BY PooledNamed
<1>6. /\ Named(req'.body) /\ Core(req'.body) = Core(p)
      /\ Named(req'.model) /\ Core(req'.model) = Core(p)
  BY <1>3, <1>5, FormatNamed, TrimNamed
<1>7. req.exact => Core(p) = Core(req.asked)
  BY <1>1, <1>2 DEF SameModel, NamesInv
<1>8. NamesInv'
  BY <1>2, <1>3, <1>4, <1>6, <1>7 DEF NamesInv
<1>9. SentInv'
  BY <1>3 DEF SentInv, Sent
<1> QED BY <1>3, <1>8, <1>9 DEF RequestInv

LEMMA StepRotateName == ASSUME RequestInv, Rotate PROVE RequestInv'
<1>1. req.stage = "sent" /\ req' = [req EXCEPT !.stage = "routed", !.by = {}]
  BY DEF Rotate
<1>2. DOMAIN req = RequestFields /\ NamesInv
  BY <1>1 DEF RequestInv, NoRequest
<1>3. /\ DOMAIN req' = RequestFields /\ req'.stage = "routed"
      /\ req'.asked = req.asked /\ req'.pool = req.pool /\ req'.body = req.body
      /\ req'.model = req.model /\ req'.small = req.small /\ req'.exact = req.exact
      /\ req'.switches = req.switches
  BY <1>1, <1>2 DEF RequestFields
<1>4. NamesInv' /\ SentInv'
  BY <1>2, <1>3 DEF NamesInv, Meant, SentInv, Sent
<1> QED BY <1>3, <1>4 DEF RequestInv

LEMMA RequestStep == BindInv /\ RequestInv /\ [RoutingNext]_routingVars => RequestInv'
<1> SUFFICES ASSUME BindInv, RequestInv, [RoutingNext]_routingVars PROVE RequestInv'
  OBVIOUS
<1>1. ASSUME req = NoRequest, req' = req PROVE RequestInv'
  BY <1>1 DEF RequestInv
<1>2. ASSUME NEW a \in ProviderAccounts, NEW answer \in Answers, Register(a, answer)
      PROVE  RequestInv'
  BY <1>1, <1>2 DEF Register
<1>3. ASSUME NEW a \in Rescanned, NEW answer \in Answers, ReDiscover(a, answer)
      PROVE  RequestInv'
  BY <1>1, <1>3 DEF ReDiscover
<1>4. ASSUME NEW a \in ProviderAccounts, DeleteAccount(a) PROVE RequestInv'
  BY <1>1, <1>4 DEF DeleteAccount
<1>5. CASE Publish
  BY <1>1, <1>5 DEF Publish
<1>6. CASE Close
  BY <1>6 DEF Close, RequestInv
<1>7. CASE UNCHANGED routingVars
  <2>1. UNCHANGED <<bindings, published, req>>
    BY <1>7 DEF routingVars
  <2>2. OneMinAIPatterns' = OneMinAIPatterns
    BY DEF OneMinAIPatterns, OneMinAIModels
  <2>3. NamesInv => NamesInv'
    BY <2>1 DEF NamesInv, Meant
  <2>4. SentInv => SentInv'
    BY <2>1, <2>2 DEF SentInv, Sent, Translates
  <2> QED BY <2>1, <2>3, <2>4 DEF RequestInv
<1> QED BY <1>2, <1>3, <1>4, <1>5, <1>6, <1>7, StepReceiveName, StepForwardName, StepSwitchName,
        StepRotateName DEF RoutingNext

LEMMA UpstreamCore ==
    ASSUME NEW a, a.provider # "1minai", NEW run, NEW r, Named(r.model), Named(r.body)
    PROVE  Core(Upstream(a, r, run)) \in {Core(r.model), Core(r.body)}
<1> DEFINE model == IF a.prefix = "" THEN r.model ELSE Trim(a.prefix, r.model)
           body == IF r.body = r.model THEN model ELSE r.body
           cores == {Core(r.model), Core(r.body)}
<1>1. Named(model) /\ Core(model) = Core(r.model)
  BY TrimNamed
<1>2. Named(body) /\ Core(body) \in cores
  BY <1>1
<1> HIDE DEF body, model
<1>3. \A ns : /\ Core(Trim(ns, model)) = Core(r.model) /\ Core(Trim(ns, body)) = Core(body)
              /\ Core(Trim(ns, r.model)) = Core(r.model)
  BY <1>1, <1>2, TrimNamed
<1>4. Upstream(a, r, run) \in {r.model, Trim("cloudflare", model),
          Trim("cloudflare", body), Trim("agentrouter", body), Trim("jiekou", body), body}
  BY DEF Upstream, UpstreamCloudflare, model, body
<1> QED BY <1>1, <1>2, <1>3, <1>4

\* What an inline completion becomes: Puter's small model, under its own name.
LEMMA SmallModel ==
    ASSUME NamesInv, req.switches = 0, req.small, NEW a, a.provider = "puter", NEW run
    PROVE  Upstream(a, req, run) = Downgrade
<1> DEFINE u == Under("puter", Downgrade)
<1>1. Named(Downgrade)
  BY NameAssumption, NameIsNamed
<1>2. u.path[1] = "puter" /\ Trim("puter", u) = Downgrade /\ u # Downgrade
  BY <1>1, UnderNamed
<1>3. Meant = u
  BY DEF Meant
<1> HIDE DEF u
<1>4. req.body = TrimAny(BodyNamespaces, u) /\ req.model = TrimAny(ModelNamespaces, u)
  BY <1>3 DEF NamesInv
<1>5. req.body = Downgrade /\ req.model = u
  BY <1>2, <1>4 DEF TrimAny, BodyNamespaces, ModelNamespaces
<1>6. req.body # req.model
  BY <1>2, <1>5
<1> QED BY <1>5, <1>6 DEF Upstream

LEMMA OnlyPuterIsUnderPuter ==
    ASSUME NEW a \in ProviderAccounts, Space(a) # "puter",
           \A n \in Stems(a) : ~ IsUnder("puter", n),
           a.provider = "1minai" => \A n \in OneMinAIPatterns : ~ IsUnder("puter", n),
           NEW n \in Servable(a)
    PROVE  ~ IsUnder("puter", n)
<1>1. CASE n \in Stems(a)
  BY <1>1
<1>2. CASE n \in Spaced(a)
  <2>1. PICK x \in Stems(a) : n = Under(Space(a), x)
    BY <1>2 DEF Spaced
  <2>2. n.path[1] = Space(a)
    BY <2>1, ServableNamed, UnderNamed
  <2> QED BY <2>2 DEF IsUnder
<1>3. CASE a.provider = "1minai" /\ n \in OneMinAIPatterns
  BY <1>3
<1> QED BY <1>1, <1>2, <1>3 DEF Servable

LEMMA RequestKeepsModel ==
    ASSUME PuterApart, BindInv, RequestInv PROVE SwitchKeepsModel
<1> SUFFICES ASSUME Sent, req.exact
             PROVE  \/ Core(req.sent) = Core(req.asked)
                    \/ \E p \in DOMAIN OneMinAI :
                           /\ Core(p) = Core(req.asked) /\ req.sent = OneMinAI[p]
                           /\ \A a \in req.by : a.provider = "1minai"
                    \/ req.small /\ req.switches = 0 /\ req.sent = Downgrade
  BY DEF SwitchKeepsModel
<1>1. NamesInv /\ SentInv
  BY DEF RequestInv, Sent, NoRequest
<1>2. PICK a \in ProviderAccounts, run \in BOOLEAN :
          /\ req.by = {a} /\ [pattern |-> req.pool, account |-> a] \in bindings
          /\ req.sent = Upstream(a, req, run)
  BY <1>1 DEF SentInv
<1>3. ASSUME Core(req.model) = Core(req.asked), Core(req.body) = Core(req.asked)
      PROVE  \/ Core(req.sent) = Core(req.asked)
             \/ \E p \in DOMAIN OneMinAI :
                    /\ Core(p) = Core(req.asked) /\ req.sent = OneMinAI[p]
                    /\ \A b \in req.by : b.provider = "1minai"
  <2>1. CASE a.provider # "1minai"
    BY <1>1, <1>2, <1>3, <2>1, UpstreamCore DEF NamesInv
  <2>2. CASE a.provider = "1minai"
    <3>1. req.sent = UpstreamOneMinAI(req)
      BY <1>2, <2>2 DEF Upstream
    <3>2. CASE req.model \in DOMAIN OneMinAI
      BY <1>2, <1>3, <2>2, <3>1, <3>2 DEF UpstreamOneMinAI
    <3>3. CASE req.model \notin DOMAIN OneMinAI
      BY <1>3, <3>1, <3>3 DEF UpstreamOneMinAI
    <3> QED BY <3>2, <3>3
  <2> QED BY <2>1, <2>2
<1>4. CASE req.switches # 0
  BY <1>1, <1>3, <1>4 DEF NamesInv
<1>5. CASE req.switches = 0 /\ ~ req.small
  <2>1. /\ Named(req.asked) /\ req.body = TrimAny(BodyNamespaces, req.asked)
        /\ req.model = TrimAny(ModelNamespaces, req.asked)
    BY <1>1, <1>5 DEF NamesInv, Meant
  <2> QED BY <1>3, <2>1, TrimAnyNamed
<1>6. CASE req.switches = 0 /\ req.small
  <2>1. req.pool \in Servable(a) /\ IsUnder("puter", req.pool)
    BY <1>1, <1>2, <1>6 DEF NamesInv, BindInv
  <2>2. ASSUME a.provider # "puter" PROVE FALSE
    <3>1. /\ Space(a) # "puter"
          /\ \A n \in Mine(a) : ~ IsUnder("puter", n) /\ ~ IsUnder("puter", Trim(Space(a), n))
      BY <2>2 DEF PuterApart
    <3>2. \A n \in Stems(a) : ~ IsUnder("puter", n)
      BY <3>1, AcceptedMine DEF Stems
    <3>3. a.provider = "1minai" => \A n \in OneMinAIPatterns : ~ IsUnder("puter", n)
      BY <3>1 DEF Mine, Manifest
    <3> QED BY <2>1, <3>1, <3>2, <3>3, OnlyPuterIsUnderPuter
  <2> QED BY <1>1, <1>2, <1>6, <2>2, SmallModel
<1> QED BY <1>4, <1>5, <1>6 DEF NamesInv

LEMMA NamesInit == RoutingInit => BindInv /\ RequestInv
BY DEF RoutingInit, BindInv, RequestInv

LEMMA NamesStep == BindInv /\ RequestInv /\ [RoutingNext]_routingVars => (BindInv /\ RequestInv)'
BY BoundToServe, RequestStep

(* However often a request moves to another pool, and whichever key of it  *)
(* is asked, it asks for the model the client asked for, or for the small  *)
(* one Puter completes with: handler.go:1014 and what discovery registers  *)
(* go together, as long as only Puter's names stand under "puter".         *)
THEOREM ModelKeptAcrossPools == PuterApart => (RoutingSpec => []SwitchKeepsModel)
<1> SUFFICES ASSUME PuterApart PROVE RoutingSpec => []SwitchKeepsModel
  OBVIOUS
<1>1. BindInv /\ RequestInv => SwitchKeepsModel
  BY RequestKeepsModel
<1> QED BY <1>1, NamesInit, NamesStep, PTL DEF RoutingSpec

LEMMA ClearStays ==
    ASSUME NEW a, NEW n, Clear(a, n)
    PROVE  /\ \A ns \in BodyNamespaces \cup {Space(a), a.prefix} : Trim(ns, n) = n
           /\ TrimAny(BodyNamespaces, n) = n /\ TrimAny(ModelNamespaces, n) = n
BY DEF Clear, Trim, TrimAny, BodyNamespaces, ModelNamespaces

\* With a name that is clear the translators have nothing left to take off.
LEMMA UpstreamClear ==
    ASSUME NEW a, a.provider # "1minai", NEW run, NEW r, NEW x, Clear(a, x),
           a.provider = "gemini" => r.model = x,
           \/ r.body = x /\ r.model = x
           \/ r.body = x /\ r.body # r.model /\ a.provider # "cloudflare"
           \/ r.body = r.model /\ a.prefix # "" /\ Trim(a.prefix, r.model) = x
    PROVE  Upstream(a, r, run) = x
<1> DEFINE model == IF a.prefix = "" THEN r.model ELSE Trim(a.prefix, r.model)
           body == IF r.body = r.model THEN model ELSE r.body
<1>1. Trim(a.prefix, x) = x
  <2>1. a.prefix \in BodyNamespaces \cup {Space(a), a.prefix}
    OBVIOUS
  <2>2. \A ns \in BodyNamespaces \cup {Space(a), a.prefix} : Trim(ns, x) = x
    BY ClearStays
  <2> QED BY <2>1, <2>2
<1>2. body = x /\ (a.provider = "cloudflare" => model = x)
  BY <1>1
<1>3. Trim("cloudflare", x) = x /\ Trim("agentrouter", x) = x /\ Trim("jiekou", x) = x
  BY ZenonT(40), ClearStays DEF BodyNamespaces
<1> HIDE DEF model, body
<1>4. Upstream(a, r, run) =
          CASE a.provider = "gemini" -> r.model
            [] a.provider = "1minai" -> UpstreamOneMinAI(r)
            [] a.provider = "cloudflare" -> UpstreamCloudflare(model, body, run)
            [] a.provider = "agentrouter" -> Trim("agentrouter", body)
            [] a.provider = "jiekou" -> Trim("jiekou", body)
            [] OTHER -> body
  BY DEF Upstream, model, body
<1>5. CASE a.provider = "gemini"
  BY <1>4, <1>5
<1>6. CASE a.provider = "cloudflare"
  BY <1>2, <1>3, <1>4, <1>6 DEF UpstreamCloudflare
<1>7. CASE a.provider \notin {"gemini", "cloudflare"}
  BY <1>2, <1>3, <1>4, <1>7
<1> QED BY <1>5, <1>6, <1>7

\* A name under the space of the account is freed of it.
LEMMA UpstreamSpaced ==
    ASSUME NEW a, a.provider # "1minai", Removed(a), NEW run, NEW r,
           NEW x, Named(x), Clear(a, x),
           r.body = TrimAny(BodyNamespaces, Under(Space(a), x)),
           r.model = TrimAny(ModelNamespaces, Under(Space(a), x))
    PROVE  Upstream(a, r, run) = x
<1> DEFINE u == Under(Space(a), x)
<1>1. u.path[1] = Space(a) /\ Trim(Space(a), u) = x /\ u # x
  BY UnderNamed
<1> HIDE DEF u
<1>2. /\ r.body = IF Space(a) \in BodyNamespaces THEN x ELSE u
      /\ r.model = IF Space(a) \in ModelNamespaces THEN x ELSE u
  BY <1>1 DEF TrimAny, u
<1>3. ModelNamespaces \subseteq BodyNamespaces
  BY DEF ModelNamespaces, BodyNamespaces
<1>4. a.provider \in {"gemini", "cloudflare"} => Space(a) \in ModelNamespaces
  BY DEF Space, OwnSpace, ModelNamespaces
<1>5. CASE Space(a) \in ModelNamespaces
  BY <1>2, <1>3, <1>5, UpstreamClear
<1>6. CASE Space(a) \in BodyNamespaces \ ModelNamespaces
  BY <1>1, <1>2, <1>4, <1>6, UpstreamClear
<1>7. CASE Space(a) \notin BodyNamespaces
  <2>1. a.prefix # "" /\ Space(a) = a.prefix
    BY <1>7 DEF Removed
  <2> QED BY <1>1, <1>2, <1>3, <1>4, <1>7, <2>1, UpstreamClear
<1> QED BY <1>5, <1>6, <1>7

\* A request of the small model means the small model; 1min.ai has its manifest.
LEMMA SmallCore ==
    ASSUME NamesInv, req.switches = 0, req.small, NEW a, a.provider # "1minai", NEW run
    PROVE  Core(Upstream(a, req, run)) = Core(Downgrade)
<1> DEFINE u == Under("puter", Downgrade)
<1>1. Named(u) /\ Core(u) = Core(Downgrade)
  BY NameAssumption, NameIsNamed, UnderNamed
<1>2. Meant = u
  BY DEF Meant
<1> HIDE DEF u
<1>3. req.body = TrimAny(BodyNamespaces, u) /\ req.model = TrimAny(ModelNamespaces, u)
  BY <1>2 DEF NamesInv
<1>4. Core(req.body) = Core(Downgrade) /\ Core(req.model) = Core(Downgrade)
  BY <1>1, <1>3, TrimAnyNamed
<1> QED BY <1>4, UpstreamCore DEF NamesInv

\* A name under a space nothing takes off goes to the provider as it is.
LEMMA UpstreamKept ==
    ASSUME NEW a, ~ Removed(a), Space(a) # "", NEW run, NEW r, NEW x, Named(x),
           r.body = TrimAny(BodyNamespaces, Under(Space(a), x)),
           r.model = TrimAny(ModelNamespaces, Under(Space(a), x))
    PROVE  Upstream(a, r, run) = Under(Space(a), x)
<1> DEFINE u == Under(Space(a), x)
<1>1. u.path[1] = Space(a)
  BY UnderNamed
<1> HIDE DEF u
<1>2. Space(a) \notin BodyNamespaces \cup ModelNamespaces
  BY DEF Removed, BodyNamespaces, ModelNamespaces
<1>3. r.body = u /\ r.model = u
  BY <1>1, <1>2 DEF TrimAny, u
<1>4. a.provider \notin {"gemini", "1minai", "cloudflare", "agentrouter", "jiekou"}
  BY <1>2 DEF Removed, Space, OwnSpace, BodyNamespaces
<1>5. Upstream(a, r, run) = IF a.prefix = "" THEN u ELSE Trim(a.prefix, u)
  BY <1>3, <1>4 DEF Upstream
<1>6. a.prefix # "" => ~ IsUnder(a.prefix, u)
  BY <1>1 DEF Removed, IsUnder
<1>7. CASE a.prefix = ""
  BY <1>5, <1>7 DEF u
<1>8. CASE a.prefix # ""
  <2>1. Trim(a.prefix, u) = u
    BY <1>6, <1>8 DEF Trim
  <2> QED BY <1>5, <1>8, <2>1 DEF u
<1> QED BY <1>7, <1>8

LEMMA RequestIsListed ==
    ASSUME BindInv, RequestInv PROVE DirectSendsListed
<1> SUFFICES ASSUME Sent, req.switches = 0, req.exact, NEW a \in req.by
             PROVE  \/ req.sent \in Accepted(a)
                    \/ req.small /\ Core(req.sent) = Core(Downgrade)
                    \/ \E n \in Accepted(a) :
                           /\ Core(req.sent) = Core(n)
                           /\ Clear(a, n) => ~ Removed(a) /\ req.sent = Under(Space(a), n)
  BY DEF DirectSendsListed
<1>1. NamesInv /\ SentInv
  BY DEF RequestInv, Sent, NoRequest
<1>2. PICK run \in BOOLEAN :
          /\ a \in ProviderAccounts /\ [pattern |-> req.pool, account |-> a] \in bindings
          /\ Translates(a, req) /\ req.sent = Upstream(a, req, run)
  BY <1>1 DEF SentInv
<1>3. req.asked \in Servable(a)
  BY <1>1, <1>2 DEF NamesInv, BindInv
<1>4. CASE a.provider = "1minai"
  <2>1. req.sent = UpstreamOneMinAI(req)
    BY <1>2, <1>4 DEF Upstream
  <2>2. UpstreamOneMinAI(req) \in OneMinAIModels
    BY <1>2, <1>4 DEF UpstreamOneMinAI, Translates, OneMinAIPatterns, OneMinAIModels
  <2> QED BY <1>4, <2>1, <2>2 DEF Accepted
<1>5. CASE a.provider # "1minai" /\ req.small
  BY <1>1, <1>2, <1>5, SmallCore
<1>6. CASE a.provider # "1minai" /\ ~ req.small
  <2>1. /\ req.body = TrimAny(BodyNamespaces, req.asked)
        /\ req.model = TrimAny(ModelNamespaces, req.asked)
    BY <1>1, <1>6 DEF NamesInv, Meant
  <2>2. Core(req.sent) = Core(req.asked)
    <3>1. Core(req.body) = Core(req.asked) /\ Core(req.model) = Core(req.asked)
      BY <1>1, <2>1, TrimAnyNamed DEF NamesInv
    <3> QED BY <1>1, <1>2, <1>6, <3>1, UpstreamCore DEF NamesInv
  <2>3. ASSUME NEW n \in Accepted(a), ~ Clear(a, n), Core(req.asked) = Core(n)
        PROVE  \E m \in Accepted(a) :
                   /\ Core(req.sent) = Core(m)
                   /\ Clear(a, m) => ~ Removed(a) /\ req.sent = Under(Space(a), m)
    BY <2>2, <2>3
  <2>4. \A n \in Accepted(a) : Named(n)
    BY <1>2, MineNamed, AcceptedMine
  <2>5. ASSUME NEW x \in Stems(a)
        PROVE  \/ x \in Accepted(a) /\ Clear(a, x)
               \/ \E n \in Accepted(a) : ~ Clear(a, n) /\ Core(x) = Core(n)
    <3>1. CASE x \in Accepted(a)
      BY <3>1
    <3>2. CASE x \notin Accepted(a)
      <4>1. PICK n \in Accepted(a) : x = Trim(Space(a), n)
        BY <2>5, <3>2 DEF Stems
      <4>2. Core(x) = Core(n)
        BY <2>4, <4>1, TrimNamed
      <4>3. ~ Clear(a, n)
        BY <3>2, <4>1 DEF Clear, Trim
      <4> QED BY <4>2, <4>3
    <3> QED BY <3>1, <3>2
  <2>6. CASE req.asked \in Stems(a)
    <3>1. CASE req.asked \in Accepted(a) /\ Clear(a, req.asked)
      <4>1. req.body = req.asked /\ req.model = req.asked
        BY <2>1, <3>1, ClearStays
      <4>2. Upstream(a, req, run) = req.asked
        BY <1>6, <3>1, <4>1, UpstreamClear
      <4> QED BY <1>2, <3>1, <4>2
    <3> QED BY <2>3, <2>5, <2>6, <3>1
  <2>7. CASE req.asked \in Spaced(a) /\ MayPrefix(a)
    <3>1. PICK x \in Stems(a) : req.asked = Under(Space(a), x)
      BY <2>7 DEF Spaced
    <3>2. Named(x) /\ Core(req.asked) = Core(x)
      BY <1>2, <3>1, ServableNamed, UnderNamed
    <3>3. CASE x \in Accepted(a) /\ Clear(a, x) /\ Removed(a)
      <4>1. Upstream(a, req, run) = x
        BY <1>6, <2>1, <3>1, <3>2, <3>3, UpstreamSpaced
      <4> QED BY <1>2, <3>3, <4>1
    <3>4. CASE x \in Accepted(a) /\ ~ Removed(a)
      <4>1. Space(a) # ""
        BY <2>7, <3>4 DEF MayPrefix
      <4>2. Upstream(a, req, run) = Under(Space(a), x)
        BY <2>1, <3>1, <3>2, <3>4, <4>1, UpstreamKept
      <4>3. Core(req.sent) = Core(x) /\ req.sent = Under(Space(a), x)
        BY <1>2, <2>2, <3>2, <4>2
      <4> QED BY <3>4, <4>3
    <3>5. CASE ~ (x \in Accepted(a) /\ Clear(a, x))
      <4>1. PICK n \in Accepted(a) : ~ Clear(a, n) /\ Core(x) = Core(n)
        BY <2>5, <3>5
      <4> QED BY <2>3, <3>2, <4>1
    <3> QED BY <3>3, <3>4, <3>5
  <2> QED BY <1>3, <1>6, <2>6, <2>7 DEF Servable, MayPrefix
<1> QED BY <1>4, <1>5, <1>6

(* As long as a request stays with the pool it was routed to, each         *)
(* provider is asked for a model it lists, whatever discovery has put      *)
(* before the name, for any listings: unless the listed name itself begins *)
(* with a namespace the proxy takes off, or re-discovery's prefix is one   *)
(* it leaves on, and even then for a model of that name                    *)
(* (handler.go:438, 1193; provider_fetch.go:175).                          *)
THEOREM AskedIsListed == RoutingSpec => []DirectSendsListed
<1>1. BindInv /\ RequestInv => DirectSendsListed
  BY RequestIsListed
<1> QED BY <1>1, NamesInit, NamesStep, PTL DEF RoutingSpec
=============================================================================
