--------------------------- MODULE TvCacheProofs ---------------------------
(***************************************************************************)
(* What a screen is shown was taken by the core less than the time to live  *)
(* ago, and falls back by less than that, for every number of screens and   *)
(* keys and every setting of the time to live.                              *)
(*                                                                         *)
(* The argument: a load is stored with the time to live counted from the    *)
(* moment it was asked for, and the core takes the snapshot no sooner; so   *)
(* no entry expires later than its snapshot plus the time to live (entries  *)
(* in time), whatever loads overlap.  A screen waits for its load, so what  *)
(* it was shown before is no newer than the load it waits for (requests in  *)
(* order).                                                                  *)
(***************************************************************************)
EXTENDS TvCache, TLAPS

\* no entry is served for longer than the time to live of its snapshot
EntryInTime(entry) ==
  /\ entry.data <= now
  /\ TtlMs # NaN => entry.expiresAt \in Int /\ entry.expiresAt <= entry.data + TtlMs
  /\ TtlMs = NaN => entry.expiresAt = NaN

EntriesInTime == \A k \in DOMAIN cache : EntryInTime(cache[k])

\* asked, then taken by the core, then now; nothing shown meanwhile is newer
RequestsInOrder ==
  \A c \in Screens :
    /\ request[c].asked <= now
    /\ request[c].phase = "loaded" => /\ request[c].asked <= request[c].data
                                      /\ request[c].data <= now
    /\ \A k \in Keys : shown[c][k] # Undefined =>
         /\ shown[c][k] <= now
         /\ request[c].phase # "idle" => shown[c][k] <= request[c].asked

TvInv == TvTypeOK /\ EntriesInTime /\ RequestsInOrder

----------------------------------------------------------------------------
LEMMA UndefinedIsNoSnapshot == Undefined \notin Snapshot /\ Undefined \notin Int
  BY AbsentValues, TvAssumption DEF Snapshot

\* The entry a load stores is one that the cache may hold.
LEMMA StoredEntry ==
  ASSUME NEW asked \in Snapshot, NEW data \in Snapshot
  PROVE  [data |-> data, expiresAt |-> ExpiresAt(asked)] \in CacheEntry
  BY TvAssumption DEF CacheEntry, ExpiresAt, Snapshot

\* and it is in time if the core took the snapshot after it was asked
LEMMA StoredInTime ==
  ASSUME NEW asked \in Snapshot, NEW data \in Snapshot,
         asked <= data, data <= now
  PROVE  EntryInTime([data |-> data, expiresAt |-> ExpiresAt(asked)])
  BY TvAssumption DEF EntryInTime, ExpiresAt, Snapshot

LEMMA TvInitInv == TvInit => TvInv
<1> SUFFICES ASSUME TvInit PROVE TvInv
  OBVIOUS
<1>1. TvTypeOK
  BY TvAssumption DEF TvInit, TvTypeOK, Snapshot, Phase
<1>2. EntriesInTime
  BY DEF TvInit, EntriesInTime
<1>3. RequestsInOrder
  BY DEF TvInit, RequestsInOrder
<1> QED
  BY <1>1, <1>2, <1>3 DEF TvInv

LEMMA TvStepInv == TvInv /\ [TvNext]_tvVars => TvInv'
<1> SUFFICES ASSUME TvInv, [TvNext]_tvVars PROVE TvInv'
  OBVIOUS
<1> USE UndefinedIsNoSnapshot
<1>1. ASSUME NEW c \in Screens, NEW k \in Keys, Hit(c, k)
      PROVE  TvInv'
  <2>1. k \in DOMAIN cache /\ cache[k] \in CacheEntry /\ cache[k].data \in Snapshot
    BY <1>1 DEF TvInv, TvTypeOK, Hit, Fresh, CacheEntry
  <2>2. TvTypeOK'
    BY <1>1, <2>1 DEF TvInv, TvTypeOK, Hit, Show
  <2>3. EntriesInTime'
    BY <1>1 DEF TvInv, Hit, EntriesInTime, EntryInTime
  <2>4. RequestsInOrder'
    BY <1>1, <2>1 DEF TvInv, TvTypeOK, Hit, Show, EntriesInTime, EntryInTime, RequestsInOrder
  <2> QED
    BY <2>2, <2>3, <2>4 DEF TvInv
<1>2. ASSUME NEW c \in Screens, NEW k \in Keys, Miss(c, k)
      PROVE  TvInv'
  <2>1. TvTypeOK'
    BY <1>2 DEF TvInv, TvTypeOK, Miss, Phase
  <2>2. EntriesInTime'
    BY <1>2 DEF TvInv, Miss, EntriesInTime, EntryInTime
  <2>3. RequestsInOrder'
    BY <1>2 DEF TvInv, TvTypeOK, Snapshot, Miss, RequestsInOrder
  <2> QED
    BY <2>1, <2>2, <2>3 DEF TvInv
<1>3. ASSUME NEW c \in Screens, CoreTakesSnapshot(c)
      PROVE  TvInv'
  <2>1. TvTypeOK'
    BY <1>3 DEF TvInv, TvTypeOK, CoreTakesSnapshot, Phase
  <2>2. EntriesInTime'
    BY <1>3 DEF TvInv, CoreTakesSnapshot, EntriesInTime, EntryInTime
  <2>3. RequestsInOrder'
    BY <1>3 DEF TvInv, TvTypeOK, Snapshot, CoreTakesSnapshot, RequestsInOrder
  <2> QED
    BY <2>1, <2>2, <2>3 DEF TvInv
<1>4. ASSUME NEW c \in Screens, LoadReturns(c)
      PROVE  TvInv'
  <2> DEFINE k == request[c].key
             entry == [data |-> request[c].data, expiresAt |-> ExpiresAt(request[c].asked)]
  <2>1. /\ k \in Keys
        /\ request[c].asked \in Snapshot /\ request[c].data \in Snapshot
        /\ request[c].asked <= request[c].data /\ request[c].data <= now
    BY <1>4 DEF TvInv, TvTypeOK, LoadReturns, RequestsInOrder
  <2>2. entry \in CacheEntry /\ EntryInTime(entry)
    BY <2>1, StoredEntry, StoredInTime
  <2>3. cache' = cache \/ cache' = With(cache, k, entry)
    BY <1>4 DEF LoadReturns, StoreSnapshot
  <2> HIDE DEF entry
  <2>4. DOMAIN cache' \subseteq Keys /\ cache' \in [DOMAIN cache' -> CacheEntry]
    BY <2>1, <2>2, <2>3 DEF TvInv, TvTypeOK, With
  <2>5. \A x \in DOMAIN cache' :
          cache'[x] = entry \/ (x \in DOMAIN cache /\ cache'[x] = cache[x])
    BY <2>3 DEF With
  <2>6. TvTypeOK'
    BY <1>4, <2>1, <2>4 DEF TvInv, TvTypeOK, LoadReturns, Show, Phase
  <2>7. EntriesInTime'
    BY <1>4, <2>2, <2>5 DEF TvInv, LoadReturns, EntriesInTime, EntryInTime
  <2>8. RequestsInOrder'
    BY <1>4, <2>1 DEF TvInv, TvTypeOK, Snapshot, LoadReturns, Show, RequestsInOrder
  <2> QED
    BY <2>6, <2>7, <2>8 DEF TvInv
<1>5. ASSUME NEW c \in Screens, LoadFails(c)
      PROVE  TvInv'
  <2>1. TvTypeOK'
    BY <1>5 DEF TvInv, TvTypeOK, LoadFails, Phase
  <2>2. EntriesInTime'
    BY <1>5 DEF TvInv, LoadFails, EntriesInTime, EntryInTime
  <2>3. RequestsInOrder'
    BY <1>5 DEF TvInv, TvTypeOK, LoadFails, RequestsInOrder
  <2> QED
    BY <2>1, <2>2, <2>3 DEF TvInv
<1>6. CASE Tick
  <2>1. TvTypeOK'
    BY <1>6, TvAssumption DEF TvInv, TvTypeOK, Tick, Snapshot
  <2>2. EntriesInTime'
    BY <1>6 DEF TvInv, TvTypeOK, CacheEntry, Snapshot, Tick, EntriesInTime, EntryInTime
  <2>3. RequestsInOrder'
    BY <1>6 DEF TvInv, TvTypeOK, Snapshot, Tick, RequestsInOrder
  <2> QED
    BY <2>1, <2>2, <2>3 DEF TvInv
<1>7. CASE UNCHANGED tvVars
  BY <1>7 DEF tvVars, TvInv, TvTypeOK, EntriesInTime, EntryInTime, RequestsInOrder
<1> QED
  BY <1>1, <1>2, <1>3, <1>4, <1>5, <1>6, <1>7 DEF TvNext

\* Entries and requests are well formed, in time and in order, in every state.
LEMMA TvInvariant == TvSpec => []TvInv
  BY TvInitInv, TvStepInv, PTL DEF TvSpec

\* Entries of the cache and requests of the screens are well formed, and a load
\* that the core answered carries a snapshot.
THEOREM TvTypeCorrect == TvSpec => []TvTypeOK
<1>1. TvInv => TvTypeOK
  BY DEF TvInv
<1> QED
  BY <1>1, TvInvariant, PTL

\* getOrLoad answers from the cache only with a snapshot that the core took less
\* than the time to live ago, however its loads overlap.
THEOREM ServedInTime == TvSpec => []ServedWithinTtl
<1>1. TvInv => ServedWithinTtl
  <2> SUFFICES ASSUME TvInv, NEW k \in DOMAIN cache, ~Bypassed, Fresh(k)
               PROVE  cache[k].data > now - TtlMs
    BY DEF ServedWithinTtl
  <2>1. EntryInTime(cache[k]) /\ cache[k] \in CacheEntry /\ now \in Int
    BY DEF TvInv, TvTypeOK, EntriesInTime, Snapshot
  <2>2. TtlMs # NaN /\ TtlMs \in Int
    BY <2>1, TvAssumption DEF Fresh, EntryInTime
  <2> QED
    BY <2>1, <2>2 DEF Fresh, EntryInTime, CacheEntry, Snapshot
<1> QED
  BY <1>1, TvInvariant, PTL

\* A screen never falls back to a snapshot older by the time to live than the
\* one it showed before; with no cache it does not fall back at all.
THEOREM ScreenLagBounded == TvSpec => ScreenLag
<1> DEFINE A == \A c \in Screens, k \in Keys :
                  shown[c][k] # Undefined => shown'[c][k] > shown[c][k] - Lag
<1>1. TvInv /\ [TvNext]_tvVars => [A]_tvVars
  <2> SUFFICES ASSUME TvInv, TvNext, NEW c \in Screens, NEW k \in Keys,
                      shown[c][k] # Undefined
               PROVE  shown'[c][k] > shown[c][k] - Lag
    OBVIOUS
  <2>1. /\ shown \in [Screens -> [Keys -> Snapshot \cup {Undefined}]]
        /\ shown[c][k] \in Int /\ now \in Int
    BY DEF TvInv, TvTypeOK, Snapshot
  <2>2. Lag \in Int /\ Lag > 0
    BY TvAssumption DEF Lag, Bypassed
  <2>3. CASE UNCHANGED shown
    BY <2>1, <2>2, <2>3
  <2>4. ASSUME NEW d \in Screens, NEW l \in Keys, Hit(d, l)
        PROVE  shown'[c][k] > shown[c][k] - Lag
    <3>1. CASE c = d /\ k = l
      <4>1. shown'[c][k] = cache[k].data
        BY <2>1, <2>4, <3>1 DEF Hit, Show
      <4>2. EntryInTime(cache[k]) /\ cache[k] \in CacheEntry
        BY <2>4, <3>1 DEF Hit, Fresh, TvInv, TvTypeOK, EntriesInTime
      <4>3. TtlMs # NaN /\ TtlMs \in Int /\ Lag = TtlMs
        BY <2>4, <3>1, <4>2, TvAssumption DEF Hit, Fresh, EntryInTime, Lag
      <4>4. cache[k].data > now - TtlMs
        BY <2>1, <2>4, <3>1, <4>2, <4>3 DEF Hit, Fresh, EntryInTime, CacheEntry, Snapshot
      <4>5. shown[c][k] <= now
        BY DEF TvInv, RequestsInOrder
      <4> QED
        BY <2>1, <4>1, <4>2, <4>3, <4>4, <4>5 DEF CacheEntry, Snapshot
    <3>2. CASE ~(c = d /\ k = l)
      <4>1. shown'[c][k] = shown[c][k]
        BY <2>1, <2>4, <3>2 DEF Hit, Show
      <4> QED
        BY <2>1, <2>2, <4>1
    <3> QED
      BY <3>1, <3>2
  <2>5. ASSUME NEW d \in Screens, LoadReturns(d)
        PROVE  shown'[c][k] > shown[c][k] - Lag
    <3>1. CASE c = d /\ k = request[d].key
      <4>1. shown'[c][k] = request[c].data
        BY <2>1, <2>5, <3>1 DEF LoadReturns, Show
      <4>2. /\ shown[c][k] <= request[c].asked
            /\ request[c].asked <= request[c].data
            /\ request[c].asked \in Int /\ request[c].data \in Int
        BY <2>5, <3>1 DEF LoadReturns, TvInv, TvTypeOK, RequestsInOrder, Snapshot
      <4> QED
        BY <2>1, <2>2, <4>1, <4>2
    <3>2. CASE ~(c = d /\ k = request[d].key)
      <4>1. shown'[c][k] = shown[c][k]
        BY <2>1, <2>5, <3>2 DEF LoadReturns, Show
      <4> QED
        BY <2>1, <2>2, <4>1
    <3> QED
      BY <3>1, <3>2
  <2> QED
    BY <2>3, <2>4, <2>5
       DEF TvNext, Miss, CoreTakesSnapshot, LoadFails, Tick
<1> QED
  BY <1>1, TvInvariant, PTL DEF TvSpec, ScreenLag

=============================================================================
