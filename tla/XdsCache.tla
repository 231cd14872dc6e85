------------------------------ MODULE XdsCache ------------------------------
(***************************************************************************)
(* lruCache (pilot/pkg/model/xds_cache.go), the cache of generated xDS     *)
(* resources, with the generators that share it (EdsGenerator.Generate,    *)
(* pilot/pkg/xds/eds.go) and the invalidation at the start of AdsPushAll   *)
(* (pilot/pkg/xds/ads.go).  Every method of the cache holds its mutex, so  *)
(* each of them is one action.                                             *)
(*                                                                         *)
(* A cached value is what it was generated from: the versions of the       *)
(* configurations its key depends on.  Entries that are not Cacheable do   *)
(* not touch the cache and are left out.                                   *)
(***************************************************************************)
EXTENDS Naturals, FiniteSets

CONSTANTS Keys,              \* cache keys
          CacheConfigs,      \* configuration keys
          Kinds,
          KindOf,            \* the kind of each configuration key
          DependentConfigs,  \* per cache key
          DependentTypes,    \* per cache key
          Size,              \* XDSCacheMaxSize
          Generators,        \* the goroutines that generate resources
          None,              \* nil value
          MaxConfigChanges,        \* bound: configuration changes in a behaviour
          MaxToken           \* bound: tokens handed out in a behaviour

ASSUME CacheAssumption ==
  /\ KindOf \in [CacheConfigs -> Kinds]
  /\ DependentConfigs \in [Keys -> SUBSET CacheConfigs]
  /\ DependentTypes \in [Keys -> SUBSET Kinds]
  /\ Size \in Nat \ {0}
  /\ MaxConfigChanges \in Nat
  /\ MaxToken \in Nat

VARIABLES store,        \* key -> [value, token]; token 0: not in the LRU
          recency,      \* the LRU list: the pairs of its keys, not the more recent one first
          configIndex,
          typesIndex,
          nextToken,
          versions,     \* the current push context: a version per configuration
          toClear,      \* changed configurations AdsPushAll has not cleared yet
          gen           \* per generator: what it is doing

lruVars  == <<store, recency, configIndex, typesIndex, nextToken>>
xdsCacheVars       == <<store, recency, configIndex, typesIndex, nextToken, versions, toClear, gen>>

Snapshots == [CacheConfigs -> 0..MaxConfigChanges]

DependsOn(k, c) == c \in DependentConfigs[k] \/ KindOf[c] \in DependentTypes[k]

(***************************************************************************)
(* What a generator makes of key k from the push context s.                *)
(***************************************************************************)
Generate(k, s) == [c \in {d \in CacheConfigs : DependsOn(k, d)} |-> s[c]]

Values == UNION {{Generate(k, s) : s \in Snapshots} : k \in Keys}

NotStored == [value |-> None, token |-> 0]

CacheEntries == [value : Values \cup {None}, token : 0..MaxToken]

(***************************************************************************)
(* A generator is idle, holds a push context and is about to call Get, or  *)
(* had a miss and is about to call Add with its token.  cleared and purged *)
(* record whether the cache was invalidated for its key, by Clear or by    *)
(* ClearAll, since its Get.                                                *)
(***************************************************************************)
IdleGen == [pc |-> "idle"]

GenStates ==
  {IdleGen}
    \cup [pc : {"get"}, key : Keys, ctx : Snapshots]
    \cup [pc : {"add"}, key : Keys, ctx : Snapshots, token : 1..MaxToken,
          cleared : BOOLEAN, purged : BOOLEAN]

CacheInit ==
  /\ store       = [k \in Keys |-> NotStored]
  /\ recency     = {}
  /\ configIndex = [c \in CacheConfigs |-> {}]
  /\ typesIndex  = [t \in Kinds |-> {}]
  /\ nextToken   = 0
  /\ versions    = [c \in CacheConfigs |-> 0]
  /\ toClear     = {}
  /\ gen         = [g \in Generators |-> IdleGen]

-----------------------------------------------------------------------------
(***************************************************************************)
(* simplelru, the LRU list: Get and Add make a key the most recent one,    *)
(* and Add evicts the least recent one when there are too many.            *)
(***************************************************************************)
Listed(q) == {k \in Keys : <<k, k>> \in q}

Without(q, ks) == {p \in q : p[1] \notin ks /\ p[2] \notin ks}

Touch(q, k) ==
  LET others == Without(q, {k})
  IN  others \cup {<<j, k>> : j \in Listed(others) \cup {k}}

Oldest(q) == {k \in Listed(q) : \A j \in Listed(q) : <<k, j>> \in q}

Evicted(q) == IF Cardinality(Listed(q)) > Size THEN Oldest(q) ELSE {}

LruAdd(k, entry) ==
  LET q       == Touch(recency, k)
      evicted == Evicted(q)
  IN  /\ recency' = Without(q, evicted)
      /\ store' = [j \in Keys |-> IF j \in evicted THEN NotStored
                                  ELSE IF j = k THEN entry ELSE store[j]]

LruRemove(ks) ==
  /\ recency' = Without(recency, ks)
  /\ store'   = [k \in Keys |-> IF k \in ks THEN NotStored ELSE store[k]]

-----------------------------------------------------------------------------
(***************************************************************************)
(* A push reaches generator g: it is to generate key k from the context    *)
(* its request carries (NewEndpointBuilder captures it before Get).        *)
(***************************************************************************)
Begin(g, k) ==
  /\ gen[g].pc = "idle"
  /\ gen' = [gen EXCEPT ![g] = [pc |-> "get", key |-> k, ctx |-> versions]]
  /\ UNCHANGED <<lruVars, versions, toClear>>

Miss(g, token) ==
  gen' = [gen EXCEPT ![g] = [pc |-> "add", key |-> gen[g].key, ctx |-> gen[g].ctx,
                             token |-> token, cleared |-> FALSE, purged |-> FALSE]]

\* Variant with a bug: nextToken does not advance.
GetFirstSameToken(g, k) ==
  /\ store[k].token = 0
  /\ LruAdd(k, [value |-> None, token |-> nextToken + 1])
  /\ Miss(g, nextToken + 1)
  /\ UNCHANGED nextToken

(***************************************************************************)
(* Get(entry): first read of the key, miss with the token of an earlier    *)
(* reader, or hit.                                                         *)
(***************************************************************************)
GetFirst(g, k) ==
  /\ store[k].token = 0
  /\ nextToken < MaxToken
  /\ nextToken' = nextToken + 1
  /\ LruAdd(k, [value |-> None, token |-> nextToken + 1])
  /\ Miss(g, nextToken + 1)

GetPresent(g, k) ==
  /\ store[k].token # 0
  /\ recency' = Touch(recency, k)
  /\ IF store[k].value = None
     THEN Miss(g, store[k].token)
     ELSE gen' = [gen EXCEPT ![g] = IdleGen]
  /\ UNCHANGED <<store, nextToken>>

Get(g) ==
  /\ gen[g].pc = "get"
  /\ GetFirst(g, gen[g].key) \/ GetPresent(g, gen[g].key)
  /\ UNCHANGED <<configIndex, typesIndex, versions, toClear>>

(***************************************************************************)
(* Add(entry, token, value): dropped unless the token is the current one.  *)
(* Looking the key up makes it recent even when the write is dropped.      *)
(***************************************************************************)
AddAccepted(g) ==
  /\ gen[g].pc = "add"
  /\ store[gen[g].key].token = gen[g].token

IndexConfig(k) ==
  configIndex' = [c \in CacheConfigs |-> IF c \in DependentConfigs[k]
                                    THEN configIndex[c] \cup {k} ELSE configIndex[c]]

IndexType(k) ==
  typesIndex' = [t \in Kinds |-> IF t \in DependentTypes[k]
                                 THEN typesIndex[t] \cup {k} ELSE typesIndex[t]]

AddWrite(g, k) ==
  /\ AddAccepted(g)
  /\ LruAdd(k, [value |-> Generate(k, gen[g].ctx), token |-> gen[g].token])
  /\ IndexConfig(k)
  /\ IndexType(k)

AddDropped(g, k) ==
  /\ ~AddAccepted(g)
  /\ recency' = IF store[k].token # 0 THEN Touch(recency, k) ELSE recency
  /\ UNCHANGED <<store, configIndex, typesIndex>>

Add(g) ==
  /\ gen[g].pc = "add"
  /\ AddWrite(g, gen[g].key) \/ AddDropped(g, gen[g].key)
  /\ gen' = [gen EXCEPT ![g] = IdleGen]
  /\ UNCHANGED <<nextToken, versions, toClear>>

(***************************************************************************)
(* Nothing could be generated: no endpoints, no secret.  No Add then.      *)
(***************************************************************************)
GiveUp(g) ==
  /\ gen[g].pc = "add"
  /\ gen' = [gen EXCEPT ![g] = IdleGen]
  /\ UNCHANGED <<lruVars, versions, toClear>>

-----------------------------------------------------------------------------
(***************************************************************************)
(* A new push context with a newer version of c (initPushContext).         *)
(***************************************************************************)
NewContext(c) ==
  /\ versions[c] < MaxConfigChanges
  /\ versions' = [versions EXCEPT ![c] = @ + 1]
  /\ toClear'  = toClear \cup {c}
  /\ UNCHANGED <<lruVars, gen>>

(***************************************************************************)
(* The generators between Get and Add, told that the cache was invalidated *)
(* for the keys that depend on cs.                                         *)
(***************************************************************************)
MarkCleared(cs) ==
  [g \in Generators |->
     IF gen[g].pc = "add" /\ \E c \in cs : DependsOn(gen[g].key, c)
     THEN [gen[g] EXCEPT !.cleared = TRUE] ELSE gen[g]]

MarkPurged ==
  [g \in Generators |->
     IF gen[g].pc = "add" THEN [gen[g] EXCEPT !.cleared = TRUE, !.purged = TRUE]
     ELSE gen[g]]

\* Variants with a bug: typesIndex is reset but its keys are not removed, and
\* ClearAll drops the values but keeps the tokens.
ClearNamed(cs) ==
  /\ LruRemove(UNION {configIndex[c] : c \in cs})
  /\ configIndex' = [c \in CacheConfigs |-> IF c \in cs THEN {} ELSE configIndex[c]]
  /\ typesIndex'  = [t \in Kinds |-> IF \E c \in cs : KindOf[c] = t THEN {} ELSE typesIndex[t]]
  /\ gen' = MarkCleared(cs)

ClearAllKeepsTokens ==
  /\ store' = [k \in Keys |-> [store[k] EXCEPT !.value = None]]
  /\ configIndex' = [c \in CacheConfigs |-> {}]
  /\ UNCHANGED <<recency, typesIndex>>
  /\ gen' = MarkPurged

Clear(cs) ==
  LET kinds   == {KindOf[c] : c \in cs}
      removed == (UNION {configIndex[c] : c \in cs}) \cup (UNION {typesIndex[t] : t \in kinds})
  IN  /\ LruRemove(removed)
      /\ configIndex' = [c \in CacheConfigs |-> IF c \in cs THEN {} ELSE configIndex[c]]
      /\ typesIndex'  = [t \in Kinds |-> IF t \in kinds THEN {} ELSE typesIndex[t]]
      /\ gen' = MarkCleared(cs)

ClearAll ==
  /\ LruRemove(Keys)
  /\ configIndex' = [c \in CacheConfigs |-> {}]
  /\ UNCHANGED typesIndex
  /\ gen' = MarkPurged

(***************************************************************************)
(* The start of AdsPushAll: clear what the request names, or everything.   *)
(***************************************************************************)
Invalidate ==
  /\ toClear # {}
  /\ Clear(toClear) \/ ClearAll
  /\ toClear' = {}
  /\ UNCHANGED <<nextToken, versions>>

CacheNext ==
  \/ \E g \in Generators, k \in Keys : Begin(g, k)
  \/ \E g \in Generators : Get(g) \/ Add(g) \/ GiveUp(g)
  \/ \E c \in CacheConfigs : NewContext(c)
  \/ Invalidate

CacheSpec == CacheInit /\ [][CacheNext]_xdsCacheVars

-----------------------------------------------------------------------------
InLru(k) == k \in Listed(recency)

CacheTypeOK ==
  /\ store       \in [Keys -> CacheEntries]
  /\ recency     \in SUBSET (Keys \X Keys) /\ Cardinality(Listed(recency)) <= Size
  /\ configIndex \in [CacheConfigs -> SUBSET Keys]
  /\ typesIndex  \in [Kinds -> SUBSET Keys]
  /\ nextToken   \in 0..MaxToken
  /\ versions    \in Snapshots
  /\ toClear     \in SUBSET CacheConfigs
  /\ gen         \in [Generators -> GenStates]

(***************************************************************************)
(* Every cached value is indexed under all the configurations and kinds it *)
(* depends on, whatever evictions, partial Clears (which leave a key in    *)
(* the index of its other configurations) and ClearAlls (which keep        *)
(* typesIndex) came before: a later Clear is sure to find it.              *)
(***************************************************************************)
ValuesIndexed ==
  \A k \in Keys : store[k].value # None =>
    /\ \A c \in DependentConfigs[k] : k \in configIndex[c]
    /\ \A t \in DependentTypes[k] : k \in typesIndex[t]

(***************************************************************************)
(* Tokens are never reused: no two keys share one, and a generator that    *)
(* holds the token of a stored key got it for that key, so the write of a  *)
(* generator whose token was cleared or evicted cannot be mistaken for a   *)
(* current one.                                                            *)
(***************************************************************************)
TokensUnique ==
  /\ \A k \in Keys : store[k].token # 0 <=> InLru(k)
  /\ \A j, k \in Keys : store[j].token = store[k].token /\ store[j].token # 0 => j = k
  /\ \A g \in Generators : gen[g].pc = "add" =>
       /\ gen[g].token \in 1..nextToken
       /\ \A k \in Keys : store[k].token = gen[g].token => k = gen[g].key

(***************************************************************************)
(* A write whose token was fetched before a ClearAll is dropped.           *)
(***************************************************************************)
PurgedWritesDropped ==
  \A g \in Generators : AddAccepted(g) => ~gen[g].purged

(***************************************************************************)
(* XdsCache.Add: "if the cache has been invalided between when a token is  *)
(* fetched from Get and when Add is called, the write will be dropped"     *)
(* (xds_cache.go:125-127).                                                 *)
(***************************************************************************)
ClearedWritesDropped ==
  \A g \in Generators : AddAccepted(g) => ~gen[g].cleared
=============================================================================
