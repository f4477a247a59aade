------------------------------ MODULE TvCache ------------------------------
(***************************************************************************)
(* TvSnapshotCacheService (src/core-gateway/tv-cache.service.ts) behind the *)
(* two snapshot routes of the TV screens.  getOrLoad awaits its loader, a   *)
(* request to the queue core, so the loads of several screens overlap: each *)
(* stretch of the function between two awaits is one step.                  *)
(*                                                                         *)
(* A snapshot is abstracted to the instant at which the core took it: what  *)
(* a screen shows is as old as that.  A key stands for the route, the query *)
(* and the language, which the answer of the core depends on and no more.   *)
(* A screen asks again only when its last request has ended.                *)
(***************************************************************************)
EXTENDS Store

CONSTANTS
  Screens, Keys,
  TtlMs,   \* Number(EQUEUE_TV_CACHE_TTL_MS ?? 2000)
  NaN,     \* the TtlMs that Number() makes of a malformed setting
  MaxTime  \* bound: the last instant of the clock

ASSUME TvAssumption ==
  /\ TtlMs \in Int \cup {NaN} /\ NaN \notin Int
  /\ MaxTime \in Nat

VARIABLES
  cache,    \* by key: a snapshot and the instant until which it is served
  request,  \* of each screen: its phase, its key, when it was asked, and the
            \* snapshot it got from the core
  shown,    \* of each screen and key: the snapshot shown last, or Undefined
  now

tvVars == <<cache, request, shown, now>>

Phase == {"idle", "loading", "loaded"}
Snapshot == 0..MaxTime
CacheEntry == [data: Snapshot, expiresAt: Int \cup {NaN}]

TvInit ==
  /\ cache = [k \in {} |-> Null]
  /\ request = [c \in Screens |->
       [phase |-> "idle", key |-> Undefined, asked |-> 0, data |-> Undefined]]
  /\ shown = [c \in Screens |-> [k \in Keys |-> Undefined]]
  /\ now = 0

----------------------------------------------------------------------------
\* if (this.ttlMs <= 0) return loader(); a comparison with NaN is false
Bypassed == TtlMs # NaN /\ TtlMs <= 0

\* mutant: an entry is still served at the instant it expires
FreshAtExpiry(k) ==
  k \in DOMAIN cache /\ cache[k].expiresAt # NaN /\ cache[k].expiresAt >= now

\* cached && cached.expiresAt > now
Fresh(k) ==
  k \in DOMAIN cache /\ cache[k].expiresAt # NaN /\ cache[k].expiresAt > now

ExpiresAt(start) == IF TtlMs = NaN THEN NaN ELSE start + TtlMs

Show(c, k, data) == shown' = [shown EXCEPT ![c][k] = data]

----------------------------------------------------------------------------
\* a fresh entry is answered with at once
Hit(c, k) ==
  /\ request[c].phase = "idle"
  /\ ~Bypassed /\ Fresh(k)
  /\ Show(c, k, cache[k].data)
  /\ UNCHANGED <<cache, request, now>>

\* otherwise the loader is called, whether or not it was called for k already
Miss(c, k) ==
  /\ request[c].phase = "idle"
  /\ Bypassed \/ ~Fresh(k)
  /\ request' = [request EXCEPT ![c] =
       [phase |-> "loading", key |-> k, asked |-> now, data |-> Undefined]]
  /\ UNCHANGED <<cache, shown, now>>

\* the core takes the snapshot, some time after it was asked
CoreTakesSnapshot(c) ==
  /\ request[c].phase = "loading"
  /\ request' = [request EXCEPT ![c].phase = "loaded", ![c].data = now]
  /\ UNCHANGED <<cache, shown, now>>

\* mutant: the time to live starts when the answer arrives
StoreFromArrival(c) ==
  cache' = IF Bypassed THEN cache
           ELSE With(cache, request[c].key,
                     [data |-> request[c].data, expiresAt |-> ExpiresAt(now)])

\* the time to live starts when the snapshot was asked for
StoreSnapshot(c) ==
  cache' = IF Bypassed THEN cache
           ELSE With(cache, request[c].key,
                     [data |-> request[c].data, expiresAt |-> ExpiresAt(request[c].asked)])

\* the answer of the core arrives, some time after the snapshot was taken
LoadReturns(c) ==
  /\ request[c].phase = "loaded"
  /\ StoreSnapshot(c)
  /\ Show(c, request[c].key, request[c].data)
  /\ request' = [request EXCEPT ![c].phase = "idle"]
  /\ UNCHANGED now

\* mutant: what a failed load left behind is cached as its answer
LoadFailsStored(c) ==
  /\ request[c].phase # "idle"
  /\ StoreSnapshot(c)
  /\ request' = [request EXCEPT ![c].phase = "idle"]
  /\ UNCHANGED <<shown, now>>

\* the loader throws: the core failed, or its answer did not come in time
LoadFails(c) ==
  /\ request[c].phase # "idle"
  /\ request' = [request EXCEPT ![c].phase = "idle"]
  /\ UNCHANGED <<cache, shown, now>>

Tick ==
  /\ now < MaxTime
  /\ now' = now + 1
  /\ UNCHANGED <<cache, request, shown>>

TvNext ==
  \/ \E c \in Screens :
       \/ \E k \in Keys : Hit(c, k) \/ Miss(c, k)
       \/ CoreTakesSnapshot(c) \/ LoadReturns(c) \/ LoadFails(c)
  \/ Tick

TvSpec == TvInit /\ [][TvNext]_tvVars

----------------------------------------------------------------------------
(* What the cache promises *)

\* Entries and requests are well formed; a request has a snapshot once the core
\* took one.
TvTypeOK ==
  /\ now \in Snapshot
  /\ DOMAIN cache \subseteq Keys /\ cache \in [DOMAIN cache -> CacheEntry]
  /\ request \in [Screens -> [phase: Phase, key: Keys \cup {Undefined},
                             asked: Snapshot, data: Snapshot \cup {Undefined}]]
  /\ \A c \in Screens : /\ request[c].phase # "idle" => request[c].key \in Keys
                        /\ request[c].phase = "loaded" => request[c].data \in Snapshot
  /\ shown \in [Screens -> [Keys -> Snapshot \cup {Undefined}]]

\* Nest caches the TV snapshot for EQUEUE_TV_CACHE_TTL_MS
\* (docs/SYSTEM_USAGE_GUIDE.md:498, in Russian): what the cache would answer with was taken by the core less than the time to
\* live ago, however long loads take and in whatever order they return.
ServedWithinTtl ==
  \A k \in DOMAIN cache : ~Bypassed /\ Fresh(k) => cache[k].data > now - TtlMs

\* how far a screen may fall back: by nothing when nothing is served from the cache
Lag == IF TtlMs = NaN \/ Bypassed THEN 1 ELSE TtlMs

\* An older load may overwrite the entry of a newer one, so a screen may be
\* shown an older snapshot than before; but never one older by the time to live.
ScreenLag ==
  [][\A c \in Screens, k \in Keys :
       shown[c][k] # Undefined => shown'[c][k] > shown[c][k] - Lag]_tvVars

=============================================================================
