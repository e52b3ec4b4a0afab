----------------------------- MODULE LineCache -----------------------------
(***************************************************************************)
(* CachingLineStore (internal/marketdata/cachestore): a cache with expiry  *)
(* in front of the line store.  SaveLines writes the backing store and     *)
(* then deletes cache keys; a read that misses reads the backing store and *)
(* then fills the cache.  Backing store (Postgres) and cache (Valkey) are  *)
(* two servers: each call on one of them is one step, and readers run in   *)
(* goroutines of the HTTP and gRPC servers beside the one poller.          *)
(*                                                                         *)
(* A line is its version: ver[m] is the version of the lines of market m   *)
(* in the backing store, zero before the first.  A saved batch holds one   *)
(* closing line for each side of the market.                               *)
(***************************************************************************)
EXTENDS Integers, FiniteSets

CONSTANTS Market, Side,
          Reader,       \* goroutines serving Lines, ClosingLine and Markets
          TTL,          \* life of a cache entry
          MaxFill,      \* longest time between reading the store and filling
          MaxVer,       \* bound: versions saved
          MaxNow        \* bound: last instant of the clock

ASSUME CacheConstants ==
    /\ TTL \in Nat /\ MaxFill \in Nat /\ MaxVer \in Nat /\ MaxNow \in Nat
    /\ IsFiniteSet(Market)

VARIABLES now,
          ver,          \* backing store: market -> version of its lines
          cache,        \* key -> [val, expires]
          saving,       \* the market whose keys SaveLines has yet to delete
          reading,      \* reader -> the value it will fill the cache with
          retired       \* past values: [key, val, at], at the end of its time

cacheVars == <<now, ver, cache, saving, reading, retired>>

linesKey(m) == <<"lines", m>>
closingKey(m, s) == <<"closing", m, s>>
marketsKey == <<"markets">>
CacheKey ==
    {linesKey(m) : m \in Market} \union {marketsKey}
        \union {closingKey(m, s) : m \in Market, s \in Side}

\* What the backing store answers for a key: the version of a market's lines,
\* or how many markets have lines.
Current(k, v) ==
    IF k = marketsKey THEN Cardinality({m \in Market : v[m] > 0}) ELSE v[k[2]]

None == [busy |-> FALSE]
Fill(k, val) == [busy |-> TRUE, key |-> k, val |-> val, at |-> now]

CacheInit ==
    /\ now = 0
    /\ ver = [m \in Market |-> 0]
    /\ cache = [k \in {} |-> 0]
    /\ saving = {}
    /\ reading = [r \in Reader |-> None]
    /\ retired = {}

-----------------------------------------------------------------------------
(* SaveLines *)

\* The backing store takes the batch: newer lines, or the same ones again, an
\* upsert that changes nothing.
BackingSaves(m, v) ==
    /\ saving = {}
    /\ v \in {ver[m], ver[m] + 1} \intersect 1 .. MaxVer
    /\ ver' = [ver EXCEPT ![m] = v]
    /\ retired' = retired \union
        {[key |-> k, val |-> Current(k, ver), at |-> now] :
            k \in {k \in CacheKey : Current(k, ver) # Current(k, ver')}}
    /\ saving' = {m}
    /\ UNCHANGED <<now, cache, reading>>

\* Lines 51-60: one line per market decides the keys, so of the market's
\* closing keys only that of the batch's first side is among them.
Without(c, keys) == [k \in DOMAIN c \ keys |-> c[k]]
Affected(m, first) == {linesKey(m), closingKey(m, first), marketsKey}

CacheDeletes(m, first) ==
    /\ saving = {m}
    /\ cache' = Without(cache, Affected(m, first))
    /\ saving' = {}
    /\ UNCHANGED <<now, ver, reading, retired>>

\* The cache cannot be reached, or the process dies: the batch stays saved.
CacheDeleteFails ==
    /\ saving # {}
    /\ saving' = {}
    /\ UNCHANGED <<now, ver, cache, reading, retired>>

-----------------------------------------------------------------------------
(* Lines, ClosingLine, Markets *)

\* A miss, or a Get that fails: read the backing store.  (A hit returns the
\* entry and changes nothing.  A missing closing line is not cached.)
ReadBacking(r) ==
    /\ ~reading[r].busy
    /\ \E k \in CacheKey :
        /\ k[1] = "closing" => Current(k, ver) > 0
        /\ reading' = [reading EXCEPT ![r] = Fill(k, Current(k, ver))]
    /\ UNCHANGED <<now, ver, cache, saving, retired>>

ExpiresNever == MaxNow + 1
Expiry == now + TTL

FillCache(r) ==
    /\ reading[r].busy
    /\ cache' = [k \in DOMAIN cache \union {reading[r].key} |->
                    IF k = reading[r].key
                    THEN [val |-> reading[r].val, expires |-> Expiry]
                    ELSE cache[k]]
    /\ reading' = [reading EXCEPT ![r] = None]
    /\ UNCHANGED <<now, ver, saving, retired>>

\* Set fails, or the process dies: the cache is as it was.
FillFails(r) ==
    /\ reading[r].busy
    /\ reading' = [reading EXCEPT ![r] = None]
    /\ UNCHANGED <<now, ver, cache, saving, retired>>

\* Time passes; the cache drops entries whose time is over.
Tick ==
    /\ now < MaxNow
    /\ \A r \in Reader : reading[r].busy => now - reading[r].at < MaxFill
    /\ now' = now + 1
    /\ cache' = Without(cache, {k \in DOMAIN cache : cache[k].expires <= now})
    /\ UNCHANGED <<ver, saving, reading, retired>>

CacheNext ==
    \/ \E m \in Market, v \in 1 .. MaxVer : BackingSaves(m, v)
    \/ \E m \in Market, first \in Side : CacheDeletes(m, first)
    \/ CacheDeleteFails
    \/ \E r \in Reader : ReadBacking(r) \/ FillCache(r) \/ FillFails(r)
    \/ Tick

CacheSpec == CacheInit /\ [][CacheNext]_cacheVars

-----------------------------------------------------------------------------
(* Properties *)

\* Whatever is lost, delayed or raced, a cached value was current at most
\* TTL + MaxFill ago (store.go:39-43).
BoundedStaleness ==
    \A k \in DOMAIN cache :
        \/ cache[k].val = Current(k, ver)
        \/ \E r \in retired :
            /\ r.key = k /\ r.val = cache[k].val
            /\ now - r.at <= TTL + MaxFill
=============================================================================
