------------------------------- MODULE Catalog -------------------------------
(***************************************************************************)
(* The catalogue in PostgreSQL: model_pools, one per pattern, and the      *)
(* credentials bound to them, written by registrations of an account, by   *)
(* the batch insert of a re-discovery, by purges and bulk deletions, and   *)
(* by single statements of administrators and health checks, all at once   *)
(* and on any node.                                                        *)
(*                                                                         *)
(* PostgreSQL is taken at READ COMMITTED: a transaction holds the rows of  *)
(* model_pools it upserted or deletes until it ends, another that needs    *)
(* one of them waits, and the deadlock detector aborts one transaction of  *)
(* a cycle.  A pattern is its place in the alphabetical order; its name    *)
(* does not change (UpdateModelPool may rename it; that is left out).      *)
(***************************************************************************)
EXTENDS Naturals, FiniteSets

CONSTANTS
    Patterns,     \* model patterns, by their place in the alphabet
    Accounts,     \* keys of providers, in plain text
    Endpoint,     \* account -> its (provider, base URL, prefix)
    Offers,       \* endpoint -> the patterns its listing may yield
    Registrars,   \* DiscoverAndRegister* calls
    Scanners,     \* RunReDiscovery calls
    Sweepers,     \* deletions of pools, by ID or in bulk, and purges
    Purgers,      \* those of them that purge
    Initial,      \* bindings at first: [pattern, account]
    FirstID,      \* the next ID of model_pools at first
    MaxCalls,     \* bound: writers that run at all
    MaxEdits      \* bound: single statements of administrators

Writers == Registrars \cup Scanners \cup Sweepers

None == 0

ASSUME CatalogAssumption ==
    /\ Patterns \subseteq Nat \ {None}
    /\ IsFiniteSet(Accounts)
    /\ \A S \in SUBSET Patterns : S # {} => \E m \in S : \A p \in S : p <= m
    /\ Registrars \cap Scanners = {} /\ Purgers \subseteq Sweepers
    /\ Sweepers \cap (Registrars \cup Scanners) = {}
    /\ Offers \in [{ Endpoint[a] : a \in Accounts } -> SUBSET Patterns]
    /\ Initial \subseteq [pattern : Patterns, account : Accounts]
    /\ FirstID \in Nat /\ \A p \in Patterns : p < FirstID
    /\ MaxCalls \in Nat /\ MaxEdits \in Nat

VARIABLES
    pools,    \* pattern -> ID of its row of model_pools, or None
    rows,     \* committed credentials: [pool, account, by, healthy]
    fresh,    \* the next ID of the sequence
    tx,       \* writer -> its transaction and what it has in memory
    scan,     \* scanner -> the counters of its report
    edits     \* single statements made

vars == <<pools, rows, fresh, tx, scan, edits>>

Hand == "hand"      \* who bound a row: a writer, or an administrator

Idle == [phase |-> "idle",      \* idle, scan, lock, copy, done or failed
         items |-> {},          \* what it is to bind or to delete: see Item
         next  |-> None,        \* the pattern it asks for now
         todo  |-> {},          \* those it has still to lock
         held  |-> {},          \* rows of model_pools it has locked: [pattern, pool]
         known |-> {},          \* bindings it has read: [pool, account]
         added |-> {}]          \* bindings it has inserted: [pool, account]

NoScan == [endpoints |-> {}, accounts |-> {}, ok |-> 0, failed |-> 0, cut |-> FALSE]

\* A sweeper asks for the row it has chosen, the others for any of the pattern.
Waits(w, v) ==
    /\ v # w
    /\ \E r \in tx[v].held :
           r.pattern = tx[w].next /\ (w \in Sweepers => r \in tx[w].items)

Deadlocked(S) == S # {} /\ \A w \in S : \E v \in S : Waits(w, v)

HeldByNone(p) == \A v \in Writers : \A r \in tx[v].held : r.pattern # p

\* A writer runs once.
Called(w) ==
    /\ tx[w].phase = "idle"
    /\ Cardinality({ v \in Writers : tx[v].phase # "idle" }) < MaxCalls

Bindings(R) == { [pool |-> r.pool, account |-> r.account] : r \in R }

Row(b, w) == [pool |-> b.pool, account |-> b.account, by |-> w, healthy |-> TRUE]

Init ==
    /\ pools = [p \in Patterns |-> IF \E b \in Initial : b.pattern = p THEN p ELSE None]
    /\ rows = { Row([pool |-> b.pattern, account |-> b.account], Hand) : b \in Initial }
    /\ fresh = FirstID
    /\ tx = [w \in Writers |-> Idle]
    /\ scan = [w \in Scanners |-> NoScan]
    /\ edits = 0
-----------------------------------------------------------------------------
(* RunReDiscovery asks every endpoint once and counts for each account.    *)

BoundAccounts == { r.account : r \in rows }

\* queryDistinctAccounts; without an account there is nothing to scan.
ScanStart(w) ==
    /\ Called(w)
    /\ tx' = [tx EXCEPT ![w].phase = IF rows = {} THEN "done" ELSE "scan"]
    /\ scan' = [scan EXCEPT ![w].accounts = BoundAccounts,
                            ![w].endpoints = { Endpoint[a] : a \in BoundAccounts }]
    /\ UNCHANGED <<pools, rows, fresh, edits>>

Sharing(w, g) == { a \in scan[w].accounts : Endpoint[a] = g }

\* What one key was told the endpoint lists, be it nothing, every key that
\* shares it gets.
ScanListed(w, g, listed) ==
    /\ tx[w].phase = "scan"
    /\ g \in scan[w].endpoints
    /\ tx' = [tx EXCEPT ![w].items = @ \cup [pattern : listed, account : Sharing(w, g)]]
    /\ scan' = [scan EXCEPT ![w].endpoints = @ \ {g},
                            ![w].ok = @ + Cardinality(Sharing(w, g))]
    /\ UNCHANGED <<pools, rows, fresh, edits>>

\* Mutant of ScanFailed: one failure for an endpoint, however many accounts.
ScanFailedOnce(w, g) ==
    /\ tx[w].phase = "scan"
    /\ g \in scan[w].endpoints
    /\ scan' = [scan EXCEPT ![w].endpoints = @ \ {g}, ![w].failed = @ + 1]
    /\ UNCHANGED <<pools, rows, fresh, tx, edits>>

\* Every key of the endpoint was tried and failed.
ScanFailed(w, g) ==
    /\ tx[w].phase = "scan"
    /\ g \in scan[w].endpoints
    /\ scan' = [scan EXCEPT ![w].endpoints = @ \ {g},
                            ![w].failed = @ + Cardinality(Sharing(w, g))]
    /\ UNCHANGED <<pools, rows, fresh, tx, edits>>

\* The run's time is over: endpoints not begun are left out.
ScanCut(w) ==
    /\ tx[w].phase = "scan"
    /\ scan[w].endpoints # {}
    /\ scan' = [scan EXCEPT ![w].endpoints = {}, ![w].cut = TRUE]
    /\ UNCHANGED <<pools, rows, fresh, tx, edits>>
-----------------------------------------------------------------------------
(* Transactions that upsert pools and bind keys to them.                   *)

\* Mutant of NextOf: the batch takes the patterns as its map yields them.
NextUnsorted(w, todo) == IF todo = {} THEN {None} ELSE todo

\* The batch sorts its patterns; the others take them as they come.
NextOf(w, todo) ==
    IF todo = {} THEN {None}
    ELSE IF w \in Scanners THEN { p \in todo : \A q \in todo : p <= q } ELSE todo

Begin(w, items, known) ==
    LET todo == { i.pattern : i \in items } IN
    \E n \in NextOf(w, todo) :
        tx' = [tx EXCEPT ![w] = [Idle EXCEPT !.phase = "lock", !.items = items, !.next = n,
                                             !.todo = todo, !.known = known]]

\* Every endpoint has been heard: the batch begins.
BatchBegin(w) ==
    /\ tx[w].phase = "scan"
    /\ scan[w].endpoints = {}
    /\ tx[w].items # {}
    /\ Begin(w, tx[w].items, {})
    /\ UNCHANGED <<pools, rows, fresh, scan, edits>>

\* No endpoint listed anything.
NothingFound(w) ==
    /\ tx[w].phase = "scan"
    /\ scan[w].endpoints = {}
    /\ tx[w].items = {}
    /\ tx' = [tx EXCEPT ![w].phase = "done"]
    /\ UNCHANGED <<pools, rows, fresh, scan, edits>>

\* A registration: the provider has listed, the bindings of the account are
\* read, and only then the transaction begins.
RegisterBegin(w, a, listed) ==
    /\ Called(w)
    /\ listed # {}
    /\ Begin(w, [pattern : listed, account : {a}],
             Bindings({ r \in rows : r.account = a }))
    /\ UNCHANGED <<pools, rows, fresh, scan, edits>>

\* The row of model_pools an upsert of the pattern returns.
Upserted(p) == [pattern |-> p, pool |-> IF pools[p] = None THEN fresh ELSE pools[p]]

\* A registration binds a pool as soon as it has its ID.
BoundAtOnce(w, r) ==
    IF w \in Registrars
      THEN { b \in [pool : {r.pool}, account : { i.account : i \in tx[w].items }] :
                 b \notin tx[w].known }
      ELSE {}

\* INSERT ... ON CONFLICT DO UPDATE takes the row once no other holds it.
Upsert(w) ==
    LET p == tx[w].next
        r == Upserted(p) IN
    /\ tx[w].phase = "lock"
    /\ p # None
    /\ \A v \in Writers : ~Waits(w, v)
    /\ fresh' = IF pools[p] = None THEN fresh + 1 ELSE fresh
    /\ \E n \in NextOf(w, tx[w].todo \ {p}) :
           tx' = [tx EXCEPT ![w].todo = @ \ {p}, ![w].next = n,
                            ![w].held = @ \cup {r},
                            ![w].known = @ \cup BoundAtOnce(w, r),
                            ![w].added = @ \cup BoundAtOnce(w, r)]
    /\ UNCHANGED <<pools, rows, scan, edits>>

\* Bindings the batch is to have in the pools it holds.
Wanted(w) ==
    UNION { { [pool |-> r.pool, account |-> i.account] :
                 i \in { j \in tx[w].items : j.pattern = r.pattern } } : r \in tx[w].held }

\* Mutant of BatchRead: what is bound already is not asked for.
BatchReadNothing(w) ==
    /\ tx[w].phase = "lock"
    /\ tx[w].next = None
    /\ tx' = [tx EXCEPT ![w].phase = "copy", ![w].added = Wanted(w)]
    /\ UNCHANGED <<pools, rows, fresh, scan, edits>>

\* The batch reads the bindings of its pools, all locked, and copies in the
\* missing ones.
BatchRead(w) ==
    LET known == Bindings({ r \in rows : \E h \in tx[w].held : h.pool = r.pool }) IN
    /\ tx[w].phase = "lock"
    /\ tx[w].next = None
    /\ tx' = [tx EXCEPT ![w].phase = "copy", ![w].known = known,
                        ![w].added = Wanted(w) \ known]
    /\ UNCHANGED <<pools, rows, fresh, scan, edits>>

\* The end of a transaction releases its rows.
Ended(w, phase) ==
    tx' = [tx EXCEPT ![w] = [Idle EXCEPT !.phase = phase]]

Ready(w) == tx[w].phase = IF w \in Scanners THEN "copy" ELSE "lock"

Commit(w) ==
    /\ Ready(w)
    /\ tx[w].next = None
    /\ pools' = [p \in Patterns |->
                    IF \E r \in tx[w].held : r.pattern = p
                      THEN (CHOOSE r \in tx[w].held : r.pattern = p).pool ELSE pools[p]]
    /\ rows' = rows \cup { Row(b, w) : b \in tx[w].added }
    /\ Ended(w, "done")
    /\ UNCHANGED <<fresh, scan, edits>>
-----------------------------------------------------------------------------
(* Deletions of pools.                                                     *)

PoolRows == { r \in [pattern : Patterns, pool : { pools[p] : p \in Patterns }] :
                 r.pool = pools[r.pattern] /\ r.pool # None }

\* Pools without a healthy credential.
ZeroHealth ==
    { r \in PoolRows : \A c \in rows : c.pool = r.pool => ~c.healthy }

\* The statement has chosen its rows, by ID or as dead, and takes them in the
\* order of its plan.  A purge does not look at their health again.
SweepBegin(w, chosen) ==
    /\ Called(w)
    /\ chosen # {}
    /\ Begin(w, chosen, {})
    /\ UNCHANGED <<pools, rows, fresh, scan, edits>>

\* A row deleted by another statement meanwhile is passed over.
SweepTake(w) ==
    LET r == [pattern |-> tx[w].next, pool |-> pools[tx[w].next]] IN
    /\ tx[w].phase = "lock"
    /\ tx[w].next # None
    /\ \A v \in Writers : ~Waits(w, v)
    /\ \E n \in NextOf(w, tx[w].todo \ {r.pattern}) :
           tx' = [tx EXCEPT ![w].todo = @ \ {r.pattern}, ![w].next = n,
                            ![w].held = IF r \in tx[w].items THEN @ \cup {r} ELSE @]
    /\ UNCHANGED <<pools, rows, fresh, scan, edits>>

\* Credentials go with their pool, those bound after the choice included.
SweepCommit(w) ==
    /\ tx[w].phase = "lock"
    /\ tx[w].next = None
    /\ pools' = [p \in Patterns |->
                    IF \E r \in tx[w].held : r.pattern = p THEN None ELSE pools[p]]
    /\ rows' = { c \in rows : \A r \in tx[w].held : c.pool # r.pool }
    /\ Ended(w, "done")
    /\ UNCHANGED <<fresh, scan, edits>>
-----------------------------------------------------------------------------
(* Transactions that fail.                                                 *)

InTransaction(w) == tx[w].phase \in {"lock", "copy"}

\* The deferred Rollback, after an error of any statement.
Abort(w) ==
    /\ InTransaction(w)
    /\ Ended(w, "failed")
    /\ UNCHANGED <<pools, rows, fresh, scan, edits>>

\* The deadlock detector breaks a cycle.
BreakCycle(w) ==
    /\ \E S \in SUBSET Writers : w \in S /\ Deadlocked(S)
    /\ Abort(w)
-----------------------------------------------------------------------------
(* Single statements.                                                      *)

Edited == edits < MaxEdits /\ edits' = edits + 1

\* An INSERT of a pattern waits for another's and fails when it is there.
CreateModelPool(p) ==
    /\ Edited
    /\ pools[p] = None
    /\ HeldByNone(p)
    /\ pools' = [pools EXCEPT ![p] = fresh]
    /\ fresh' = fresh + 1
    /\ UNCHANGED <<rows, tx, scan>>

\* The foreign key waits for a deletion only: an upsert lets it pass.
CreateCredential(p, a) ==
    /\ Edited
    /\ pools[p] # None
    /\ \A w \in Sweepers : \A r \in tx[w].held : r.pattern # p
    /\ rows' = rows \cup {Row([pool |-> pools[p], account |-> a], Hand)}
    /\ UNCHANGED <<pools, fresh, tx, scan>>

DeleteCredential(r) ==
    /\ Edited
    /\ rows' = rows \ {r}
    /\ UNCHANGED <<pools, fresh, tx, scan>>

\* A probe or an administrator sets the health of a credential.
UpdateCredentialHealthState(r, healthy) ==
    /\ Edited
    /\ rows' = (rows \ {r}) \cup {[r EXCEPT !.healthy = healthy]}
    /\ UNCHANGED <<pools, fresh, tx, scan>>

\* Every credential of the chosen pools becomes healthy.
ActivateCredentialsBulk(chosen) ==
    /\ Edited
    /\ rows' = { IF c.pool \in chosen THEN [c EXCEPT !.healthy = TRUE] ELSE c : c \in rows }
    /\ UNCHANGED <<pools, fresh, tx, scan>>
-----------------------------------------------------------------------------
Scanning(w) ==
    \/ ScanStart(w)
    \/ \E g \in scan[w].endpoints :
           \/ \E listed \in SUBSET Offers[g] : ScanListed(w, g, listed)
           \/ ScanFailed(w, g)
    \/ ScanCut(w)
    \/ BatchBegin(w)
    \/ NothingFound(w)
    \/ Upsert(w)
    \/ BatchRead(w)
    \/ Commit(w)
    \/ Abort(w)

Registering(w) ==
    \/ \E a \in Accounts : \E listed \in SUBSET Offers[Endpoint[a]] : RegisterBegin(w, a, listed)
    \/ Upsert(w)
    \/ Commit(w)
    \/ Abort(w)

Sweeping(w) ==
    \/ w \notin Purgers /\ \E chosen \in SUBSET PoolRows : SweepBegin(w, chosen)
    \/ w \in Purgers /\ SweepBegin(w, ZeroHealth)
    \/ SweepTake(w)
    \/ SweepCommit(w)
    \/ Abort(w)

Edit ==
    \/ \E p \in Patterns :
           \/ CreateModelPool(p)
           \/ \E a \in Accounts : CreateCredential(p, a)
    \/ \E r \in rows :
           \/ DeleteCredential(r)
           \/ \E healthy \in BOOLEAN : UpdateCredentialHealthState(r, healthy)
    \/ \E chosen \in SUBSET { r.pool : r \in PoolRows } : ActivateCredentialsBulk(chosen)

Next ==
    \/ \E w \in Scanners : Scanning(w)
    \/ \E w \in Registrars : Registering(w)
    \/ \E w \in Sweepers : Sweeping(w)
    \/ \E w \in Writers : BreakCycle(w)
    \/ Edit

Spec == Init /\ [][Next]_vars
-----------------------------------------------------------------------------
Phases == {"idle", "scan", "lock", "copy", "done", "failed"}

\* Re-discoveries running at once, on a schedule, from the panel and on other
\* nodes, do not deadlock one another, because each sorts its patterns before
\* it upserts them (batch_insert.go:66).
BatchesNeverDeadlock == \A S \in SUBSET Scanners : ~Deadlocked(S)

\* A batch never binds a key a second time to a pool: the bindings that
\* registrations and other batches committed while it waited for the pool are
\* read after it has the pool.  Only a credential created by hand may slip in.
BatchBindsOnce ==
    [][\A w \in Scanners : tx[w].phase = "copy" /\ tx'[w].phase = "done" =>
           \A c \in rows' \ rows : \A d \in rows :
               d.pool = c.pool /\ d.account = c.account => d.by = Hand]_vars

\* The report of a scan that was not cut short accounts for every account it
\* set out with, however keys share endpoints.
ScanAccounted ==
    \A w \in Scanners :
        scan[w].endpoints = {} /\ ~scan[w].cut =>
            scan[w].ok + scan[w].failed = Cardinality(scan[w].accounts)

\* "Deletes all pools with 0% healthy credentials" (api/admin/pools.go:716):
\* a purge takes no healthy credential away.
PurgeSparesHealthy ==
    [][\A w \in Purgers : tx[w].phase = "lock" /\ tx'[w].phase = "done" =>
           \A c \in rows \ rows' : ~c.healthy]_vars
=============================================================================
