----------------------------- MODULE RoutingSync -----------------------------
(***************************************************************************)
(* How a change of the configuration in PostgreSQL reaches the routing     *)
(* tables of every gateway node: internal/credentials/sync.go, the Redis   *)
(* sync channel of internal/cache/redis_cache_manager.go, and how          *)
(* cmd/server/main.go and the admin handlers drive them.                   *)
(*                                                                         *)
(* Three goroutines of a node reload its tables, each for its own reason   *)
(* and none excluding the others: the debouncer of LISTEN/NOTIFY, an admin *)
(* handler after its own change, and the subscriber of the sync channel.   *)
(* The first two publish to the channel when they have reloaded, and every *)
(* node, the publisher included, reloads on what is published.  A node     *)
(* that runs without Redis (main.go:94-100) neither publishes nor hears    *)
(* what is published, and has no third loader.                             *)
(*                                                                         *)
(* A configuration is a version per model pattern and per tenant: the      *)
(* number of the change that wrote it, 0 when there is none to route or    *)
(* to admit.                                                               *)
(***************************************************************************)
EXTENDS Naturals, Sequences, FiniteSets

CONSTANTS
    Nodes,        \* gateway processes
    Admins,       \* the nodes that serve requests of the admin API
    Patterns,     \* model patterns a pool can have
    Tenants,
    ChanCap,      \* capacity of reloadChan, 100 in the code
    SubCap,       \* messages a subscription's channel holds, 100 in go-redis
    MaxRows,      \* bound: rows one change writes
    MaxChanges,   \* bound: committed changes
    MaxFaults     \* bound: lost connections, failed loads and publishes

ASSUME SyncAssumption ==
    /\ Admins \subseteq Nodes
    /\ MaxRows \in Nat \ {0}
    /\ ChanCap \in Nat \ {0}
    /\ SubCap \in Nat \ {0}
    /\ MaxChanges \in Nat
    /\ MaxFaults \in Nat

VARIABLES
    pools,        \* PostgreSQL: the version of each pattern's pool
    tenants,      \* PostgreSQL: the version of each active tenant
    changes,      \* number of changes committed
    listening,    \* nodes whose LISTEN connection is up
    inbox,        \* notifications on their way to each node
    reloadChan,   \* notifications queued for the debouncer
    pending,      \* pendingPools, pendingTenants
    timer,        \* nodes whose quiet window is running
    wired,        \* nodes that have Redis, from their start on
    subscribed,   \* nodes subscribed to the sync channel
    publishing,   \* PublishSync goroutines that have not reached Redis
    renews,       \* "renew" messages waiting in each node's subscription
    place,        \* where each loader of each node is in LoadInitialState
    snap,         \* what it has read of the pools
    cached,       \* Ristretto L1: the pool a request for a pattern gets
    table,        \* sm.pools: the pools cooldowns of other nodes are set in
    admitted,     \* Ristretto L1: the tenants
    cacher,       \* history: the loader that wrote L1 and not yet sm.pools, the
                  \* last to write L1, if any
    joined,       \* history: nodes whose L1 and sm.pools hold one load's pools
    overlapped,   \* history: nodes whose last load of the pools began while
                  \* another load ran, or had another begin while it ran
    missed,       \* history: nodes that lost news nothing queued stands for
    faults

dbVars == <<pools, tenants, changes>>
notifyVars == <<listening, inbox, reloadChan, pending, timer>>
redisVars == <<wired, subscribed, publishing, renews>>
loadVars == <<place, snap, overlapped>>
tableVars == <<cached, table, admitted, cacher, joined>>
syncVars == <<dbVars, notifyVars, redisVars, loadVars, tableVars, missed, faults>>

Loaders == {"debouncer", "admin", "subscriber"}

Places == {"idle", "changed", "cache", "store", "tenants", "tenantsOnly"}

Empty == [m \in Patterns |-> 0]

(* Every node has loaded the tables and listens; another one may just have *)
(* reloaded.  The gap at startup between the load and the LISTEN           *)
(* (main.go:139-157) is that of a connection lost.                         *)
SyncInit ==
    /\ pools = [m \in Patterns |-> 1]
    /\ tenants = [t \in Tenants |-> 1]
    /\ changes = 1
    /\ listening = Nodes
    /\ inbox = [n \in Nodes |-> <<>>]
    /\ reloadChan = [n \in Nodes |-> <<>>]
    /\ pending = [n \in Nodes |-> {}]
    /\ timer = {}
    /\ wired \in SUBSET Nodes
    /\ subscribed = wired
    /\ publishing \in IF wired = {} THEN {0} ELSE 0..1
    /\ renews = [n \in Nodes |-> 0]
    /\ place = [n \in Nodes |-> [x \in Loaders |-> "idle"]]
    /\ snap = [n \in Nodes |-> [x \in Loaders |-> Empty]]
    /\ cached = [n \in Nodes |-> pools]
    /\ table = [n \in Nodes |-> pools]
    /\ admitted = [n \in Nodes |-> tenants]
    /\ cacher = [n \in Nodes |-> "none"]
    /\ joined = Nodes
    /\ overlapped = {}
    /\ missed = {}
    /\ faults = 0

Goto(n, x, label) == place' = [place EXCEPT ![n][x] = label]

Fault == faults < MaxFaults /\ faults' = faults + 1
-----------------------------------------------------------------------------
(* The triggers of a committed change notify the nodes that listen, once   *)
(* for each row written; for the others it is lost.                        *)
Notify(kind, rows) ==
    /\ inbox' = [n \in Nodes |->
                    IF n \in listening THEN inbox[n] \o [k \in 1..rows |-> kind]
                    ELSE inbox[n]]
    /\ missed' = missed \cup (Nodes \ listening)
    /\ UNCHANGED <<listening, reloadChan, pending, timer>>

(* An admin handler writes or deletes a pool or a credential, and then     *)
(* calls ReloadSync.                                                       *)
ChangePools(n) ==
    /\ changes < MaxChanges
    /\ place[n]["admin"] = "idle"
    /\ \E m \in Patterns, v \in {0, changes + 1} : pools' = [pools EXCEPT ![m] = v]
    /\ changes' = changes + 1
    /\ \E rows \in 1..MaxRows : Notify("pools", rows)
    /\ Goto(n, "admin", "changed")
    /\ UNCHANGED <<tenants, redisVars, snap, overlapped, tableVars, faults>>

\* A job (health check, discovery) writes, and leaves the rest to NOTIFY.
JobChange ==
    /\ changes < MaxChanges
    /\ \E m \in Patterns, v \in {0, changes + 1} : pools' = [pools EXCEPT ![m] = v]
    /\ changes' = changes + 1
    /\ \E rows \in 1..MaxRows : Notify("pools", rows)
    /\ UNCHANGED <<tenants, redisVars, loadVars, tableVars, faults>>

\* The tenant handlers, which leave the rest to the trigger.
ChangeTenant ==
    /\ changes < MaxChanges
    /\ \E t \in Tenants, v \in {0, changes + 1} : tenants' = [tenants EXCEPT ![t] = v]
    /\ changes' = changes + 1
    /\ Notify("tenants", 1)
    /\ UNCHANGED <<pools, redisVars, loadVars, tableVars, faults>>
-----------------------------------------------------------------------------
Listen(n) ==
    /\ n \notin listening
    /\ listening' = listening \cup {n}
    /\ UNCHANGED <<dbVars, inbox, reloadChan, pending, timer, redisVars,
                   loadVars, tableVars, missed, faults>>

\* The LISTEN connection breaks, with what was on its way.
Disconnect(n) ==
    /\ Fault
    /\ n \in listening
    /\ listening' = listening \ {n}
    /\ inbox' = [inbox EXCEPT ![n] = <<>>]
    /\ missed' = IF inbox[n] = <<>> THEN missed ELSE missed \cup {n}
    /\ UNCHANGED <<dbVars, reloadChan, pending, timer, redisVars, loadVars,
                   tableVars>>

\* A reload of the pools reloads the tenants too.
Covered(n, kind) ==
    \E k \in 1..Len(reloadChan[n]) : reloadChan[n][k] \in {kind, "pools"}

\* WaitForNotification returns: queued, or skipped when the buffer is full.
Receive(n) ==
    /\ inbox[n] # <<>>
    /\ inbox' = [inbox EXCEPT ![n] = Tail(@)]
    /\ \/ /\ Len(reloadChan[n]) < ChanCap
          /\ reloadChan' = [reloadChan EXCEPT ![n] = Append(@, Head(inbox[n]))]
          /\ UNCHANGED missed
       \/ /\ Len(reloadChan[n]) = ChanCap
          /\ missed' = IF Covered(n, Head(inbox[n])) THEN missed ELSE missed \cup {n}
          /\ UNCHANGED reloadChan
    /\ UNCHANGED <<dbVars, listening, pending, timer, redisVars, loadVars,
                   tableVars, faults>>

\* Mutant of Debounce: the last notification stands for those before it.
DebounceLatest(n) ==
    /\ place[n]["debouncer"] = "idle"
    /\ reloadChan[n] # <<>>
    /\ reloadChan' = [reloadChan EXCEPT ![n] = Tail(@)]
    /\ pending' = [pending EXCEPT ![n] = {Head(reloadChan[n])}]
    /\ timer' = timer \cup {n}
    /\ UNCHANGED <<dbVars, listening, inbox, redisVars, loadVars, tableVars,
                   missed, faults>>

\* The debouncer takes a notification and starts the quiet window anew.
Debounce(n) ==
    /\ place[n]["debouncer"] = "idle"
    /\ reloadChan[n] # <<>>
    /\ reloadChan' = [reloadChan EXCEPT ![n] = Tail(@)]
    /\ pending' = [pending EXCEPT ![n] = @ \cup {Head(reloadChan[n])}]
    /\ timer' = timer \cup {n}
    /\ UNCHANGED <<dbVars, listening, inbox, redisVars, loadVars, tableVars,
                   missed, faults>>

\* The loaders of n that are in LoadInitialState or loadTenants.
Loading(n) == {x \in Loaders : place[n][x] \notin {"idle", "changed"}}

\* LoadAllPoolsWithCredentials, the first thing a load does.
ReadPools(n, x) ==
    /\ snap' = [snap EXCEPT ![n][x] = pools]
    /\ overlapped' = IF Loading(n) = {} THEN overlapped \ {n} ELSE overlapped \cup {n}
    /\ Goto(n, x, "cache")

\* The window ends: reload what is pending.
Fire(n) ==
    /\ place[n]["debouncer"] = "idle"
    /\ n \in timer
    /\ timer' = timer \ {n}
    /\ IF "pools" \in pending[n]
       THEN ReadPools(n, "debouncer")
       ELSE /\ Goto(n, "debouncer", "tenantsOnly")
            /\ overlapped' = IF Loading(n) = {} THEN overlapped ELSE overlapped \cup {n}
            /\ UNCHANGED snap
    /\ UNCHANGED <<dbVars, listening, inbox, reloadChan, pending, redisVars,
                   tableVars, missed, faults>>

Subscribe(n) ==
    /\ n \in wired \ subscribed
    /\ subscribed' = subscribed \cup {n}
    /\ UNCHANGED <<dbVars, notifyVars, wired, publishing, renews, loadVars, tableVars,
                   missed, faults>>

\* The subscription breaks, with the messages in its channel.
Unsubscribe(n) ==
    /\ Fault
    /\ n \in subscribed
    /\ subscribed' = subscribed \ {n}
    /\ renews' = [renews EXCEPT ![n] = 0]
    /\ missed' = IF renews[n] = 0 THEN missed ELSE missed \cup {n}
    /\ UNCHANGED <<dbVars, notifyVars, wired, publishing, loadVars, tableVars>>

(* A "renew" reaches every node that is subscribed.  One that finds the    *)
(* channel full is dropped, with others waiting.                           *)
Publish ==
    /\ publishing > 0
    /\ publishing' = publishing - 1
    /\ renews' = [n \in Nodes |->
                    IF n \in subscribed /\ renews[n] < SubCap
                    THEN renews[n] + 1 ELSE renews[n]]
    /\ missed' = missed \cup (wired \ subscribed)
    /\ UNCHANGED <<dbVars, notifyVars, wired, subscribed, loadVars, tableVars, faults>>

\* The publish fails, and only a log line tells.
LosePublish ==
    /\ Fault
    /\ publishing > 0
    /\ publishing' = publishing - 1
    /\ missed' = missed \cup wired
    /\ UNCHANGED <<dbVars, notifyVars, wired, subscribed, renews, loadVars, tableVars>>

Renew(n) ==
    /\ place[n]["subscriber"] = "idle"
    /\ renews[n] > 0
    /\ renews' = [renews EXCEPT ![n] = @ - 1]
    /\ ReadPools(n, "subscriber")
    /\ UNCHANGED <<dbVars, notifyVars, wired, subscribed, publishing, tableVars,
                   missed, faults>>
-----------------------------------------------------------------------------
ReloadSync(n) ==
    /\ place[n]["admin"] = "changed"
    /\ ReadPools(n, "admin")
    /\ UNCHANGED <<dbVars, notifyVars, redisVars, tableVars, missed, faults>>

\* cache.Set for every pool read: what was not read stays.
CachePools(n, x) ==
    /\ place[n][x] = "cache"
    /\ cached' = [cached EXCEPT ![n] =
                    [m \in Patterns |-> IF snap[n][x][m] = 0 THEN @[m] ELSE snap[n][x][m]]]
    /\ cacher' = [cacher EXCEPT ![n] = x]
    /\ joined' = joined \ {n}
    /\ Goto(n, x, "store")
    /\ UNCHANGED <<dbVars, notifyVars, redisVars, snap, overlapped, table,
                   admitted, missed, faults>>

\* sm.pools.Store.
StorePools(n, x) ==
    /\ place[n][x] = "store"
    /\ table' = [table EXCEPT ![n] = snap[n][x]]
    /\ joined' = IF cacher[n] = x THEN joined \cup {n} ELSE joined \ {n}
    /\ cacher' = [cacher EXCEPT ![n] = IF @ = x THEN "none" ELSE @]
    /\ snap' = [snap EXCEPT ![n][x] = Empty]
    /\ Goto(n, x, "tenants")
    /\ UNCHANGED <<dbVars, notifyVars, redisVars, overlapped, cached, admitted,
                   missed, faults>>

(* The load is over.  The debouncer clears the flag it stood for, whether  *)
(* it failed or not, and goes on to the tenants if those are pending too.  *)
Over(n, x) ==
    IF x = "debouncer" /\ place[n][x] # "tenantsOnly" /\ "tenants" \in pending[n]
    THEN /\ Goto(n, x, "tenantsOnly")
         /\ pending' = [pending EXCEPT ![n] = {"tenants"}]
    ELSE /\ Goto(n, x, "idle")
         /\ pending' = IF x = "debouncer" THEN [pending EXCEPT ![n] = {}] ELSE pending

\* The tenants of the database replace those cached; suspended ones stay.
Admit(n) ==
    admitted' = [admitted EXCEPT ![n] =
                    [t \in Tenants |-> IF tenants[t] = 0 THEN @[t] ELSE tenants[t]]]

\* Mutants of LoadTenants: no reload is published; every reload is.
LoadTenantsUnpublished(n, x) ==
    /\ place[n][x] \in {"tenants", "tenantsOnly"}
    /\ Admit(n)
    /\ Over(n, x)
    /\ UNCHANGED <<dbVars, listening, inbox, reloadChan, timer, redisVars, snap,
                   overlapped, cached, table, cacher, joined, missed, faults>>

LoadTenantsRepublished(n, x) ==
    /\ place[n][x] \in {"tenants", "tenantsOnly"}
    /\ Admit(n)
    /\ publishing' = IF n \notin wired \/ place[n][x] = "tenantsOnly"
                     THEN publishing ELSE publishing + 1
    /\ Over(n, x)
    /\ UNCHANGED <<dbVars, listening, inbox, reloadChan, timer, wired, subscribed,
                   renews, snap, overlapped, cached, table, cacher, joined, missed,
                   faults>>

(* loadTenants: the active ones, alone or at the end of LoadInitialState.  *)
(* reloadPools and ReloadSync then start a goroutine that publishes, where *)
(* there is Redis (sync.go:366, 383; redis_cache_manager.go:179-182).      *)
LoadTenants(n, x) ==
    /\ place[n][x] \in {"tenants", "tenantsOnly"}
    /\ Admit(n)
    /\ publishing' = IF n \notin wired \/ x = "subscriber" \/ place[n][x] = "tenantsOnly"
                     THEN publishing ELSE publishing + 1
    /\ Over(n, x)
    /\ UNCHANGED <<dbVars, listening, inbox, reloadChan, timer, wired, subscribed,
                   renews, snap, overlapped, cached, table, cacher, joined, missed,
                   faults>>

(* PostgreSQL fails the query of the pools or of the tenants: the load     *)
(* ends there and is not tried again.                                      *)
FailLoad(n, x) ==
    /\ Fault
    /\ place[n][x] \in {"cache", "tenants", "tenantsOnly"}
    /\ snap' = [snap EXCEPT ![n][x] = Empty]
    /\ Over(n, x)
    /\ missed' = missed \cup {n}
    /\ UNCHANGED <<dbVars, listening, inbox, reloadChan, timer, redisVars,
                   overlapped, tableVars>>

Load(n, x) == CachePools(n, x) \/ StorePools(n, x) \/ LoadTenants(n, x)

Work(n) ==
    Listen(n) \/ Receive(n) \/ Debounce(n) \/ Fire(n) \/ Subscribe(n) \/ Renew(n)
    \/ ReloadSync(n)

SyncNext ==
    \/ JobChange \/ ChangeTenant \/ Publish \/ LosePublish
    \/ \E n \in Admins : ChangePools(n)
    \/ \E n \in Nodes : Work(n) \/ Disconnect(n) \/ Unsubscribe(n)
    \/ \E n \in Nodes, x \in Loaders : Load(n, x) \/ FailLoad(n, x)

SyncSpec == SyncInit /\ [][SyncNext]_syncVars

\* Goroutines run, and lost connections are made again (every 5 s, 1 to 30 s).
SyncFairSpec ==
    /\ SyncSpec
    /\ WF_syncVars(Publish)
    /\ \A n \in Nodes :
        /\ WF_syncVars(Listen(n)) /\ WF_syncVars(Receive(n)) /\ WF_syncVars(Debounce(n))
        /\ WF_syncVars(Fire(n)) /\ WF_syncVars(Subscribe(n)) /\ WF_syncVars(Renew(n))
        /\ WF_syncVars(ReloadSync(n))
    /\ \A n \in Nodes, x \in Loaders : WF_syncVars(Load(n, x))
-----------------------------------------------------------------------------
\* Nothing is under way that would change the tables of n.
Quiet(n) ==
    /\ inbox[n] = <<>> /\ reloadChan[n] = <<>> /\ n \notin timer
    /\ \A x \in Loaders : place[n][x] = "idle"
    /\ publishing = 0 /\ renews[n] = 0

(* The nodes whose tables can be relied on: those that lost no news and,   *)
(* where there is no Redis, whose last load did not run beside another.    *)
Followed == Nodes \ (missed \cup (overlapped \ wired))

(* When a node is quiet and lost no news, it routes every pool and admits  *)
(* every active tenant as PostgreSQL has them: no load that read an older  *)
(* configuration has the last word, because the loads that could end late  *)
(* publish and so reload their own node again (sync.go:359-388), and a     *)
(* notification skipped for a full buffer was pending (sync.go:299-303).   *)
(* Without Redis nothing follows a late load, and the same is true only    *)
(* of a node whose last load had no other beside it.                       *)
ConvergedWhenQuiet ==
    \A n \in Followed : Quiet(n) =>
        /\ table[n] = pools
        /\ \A m \in Patterns : pools[m] # 0 => cached[n][m] = pools[m]
        /\ \A t \in Tenants : tenants[t] # 0 => admitted[n][t] = tenants[t]

(* For the same nodes, when quiet, the pool objects that requests get from *)
(* L1 are those in which the node sets the cooldowns of other nodes,       *)
(* though LoadInitialState writes the two one after the other and three    *)
(* loads may interleave (sync.go:119, 158; broadcaster.go:193).            *)
OnePoolObject == \A n \in Followed : Quiet(n) => n \in joined

(* What a node without Redis cannot promise: that it converges although    *)
(* an admin's load and the debouncer's ran side by side.                   *)
ConvergedAlone == \A n \in Nodes \ missed : Quiet(n) => table[n] = pools

(* Every change is worked off: a node reloads on what it publishes itself, *)
(* and yet the reloads do not feed on each other, since what the channel   *)
(* causes is not published again (main.go:146-153).                        *)
Settles == <>[](\A n \in Nodes : Quiet(n))

(* A purged pattern is removed from the proxy API at once (pools.go:712).  *)
PurgedIsGone ==
    \A n \in Nodes \ missed : Quiet(n) =>
        \A m \in Patterns : pools[m] = 0 => cached[n][m] = 0
=============================================================================
