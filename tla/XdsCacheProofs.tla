--------------------------- MODULE XdsCacheProofs ---------------------------
(***************************************************************************)
(* Proofs about XdsCache: the cache's types and its limit, the indexes     *)
(* that Clear relies on, and the tokens that Add relies on.                *)
(***************************************************************************)
EXTENDS XdsCache, FiniteSetTheorems, TLAPS

CacheTypes ==
  /\ store       \in [Keys -> CacheEntries]
  /\ recency     \in SUBSET (Keys \X Keys)
  /\ configIndex \in [CacheConfigs -> SUBSET Keys]
  /\ typesIndex  \in [Kinds -> SUBSET Keys]
  /\ nextToken   \in 0..MaxToken
  /\ versions    \in Snapshots
  /\ toClear     \in SUBSET CacheConfigs
  /\ gen         \in [Generators -> GenStates]

(***************************************************************************)
(* The LRU list is a finite linear order: two keys are never both older    *)
(* than each other, and any keys of the list have an oldest one among      *)
(* them, which is what makes an eviction remove exactly one key.           *)
(***************************************************************************)
IsList(q) ==
  /\ IsFiniteSet(Listed(q))
  /\ \A j, k \in Keys : <<j, k>> \in q /\ <<k, j>> \in q => j = k
  /\ \A S \in SUBSET Listed(q) : S # {} => \E k \in S : \A j \in S : <<k, j>> \in q

Bounded(q) == Cardinality(Listed(q)) <= Size

(***************************************************************************)
(* A token is one that was handed out, and the token of a generator that   *)
(* was between Get and Add at a ClearAll is gone for good.                 *)
(***************************************************************************)
TokensIssued == \A k \in Keys : store[k].token <= nextToken

PurgedTokensGone ==
  \A g \in Generators : gen[g].pc = "add" /\ gen[g].purged =>
    \A k \in Keys : store[k].token # gen[g].token

CacheIInv ==
  /\ CacheTypes
  /\ IsList(recency)
  /\ Bounded(recency)
  /\ ValuesIndexed
  /\ TokensIssued
  /\ TokensUnique
  /\ PurgedTokensGone

-----------------------------------------------------------------------------
(***************************************************************************)
(* simplelru's list: removing keys leaves a list of the others.            *)
(***************************************************************************)
LEMMA ListedWithout ==
  ASSUME NEW q, NEW ks
  PROVE  Listed(Without(q, ks)) = Listed(q) \ ks
  BY DEF Listed, Without

(***************************************************************************)
(* What is left of a list when keys are taken out is a list.               *)
(***************************************************************************)
LEMMA WithoutIsList ==
  ASSUME NEW q, NEW ks, IsList(q)
  PROVE  IsList(Without(q, ks))
  <1>1. Listed(Without(q, ks)) = Listed(q) \ ks
    BY ListedWithout
  <1>2. IsFiniteSet(Listed(Without(q, ks)))
    BY <1>1, FS_Subset DEF IsList
  <1>3. ASSUME NEW j \in Keys, NEW k \in Keys,
               <<j, k>> \in Without(q, ks), <<k, j>> \in Without(q, ks)
        PROVE  j = k
    BY <1>3 DEF IsList, Without
  <1>4. ASSUME NEW S \in SUBSET Listed(Without(q, ks)), S # {}
        PROVE  \E k \in S : \A j \in S : <<k, j>> \in Without(q, ks)
    <2>1. PICK k \in S : \A j \in S : <<k, j>> \in q
      BY <1>1, <1>4 DEF IsList
    <2> QED BY <1>1, <2>1 DEF Without
  <1> QED BY <1>2, <1>3, <1>4 DEF IsList

(***************************************************************************)
(* A key that is used becomes the most recent one of the list.             *)
(***************************************************************************)
LEMMA ListedTouch ==
  ASSUME NEW q, NEW k \in Keys
  PROVE  Listed(Touch(q, k)) = Listed(q) \cup {k}
  <1>1. \A j \in Keys : <<j, j>> \in Touch(q, k) <=> <<j, j>> \in Without(q, {k}) \/ j = k
    BY DEF Touch
  <1> QED BY <1>1 DEF Listed, Without

(***************************************************************************)
(* Touching a key keeps the type of the list.                              *)
(***************************************************************************)
LEMMA TouchType ==
  ASSUME NEW q \in SUBSET (Keys \X Keys), NEW k \in Keys
  PROVE  Touch(q, k) \in SUBSET (Keys \X Keys)
  <1>1. Without(q, {k}) \in SUBSET (Keys \X Keys)
    BY DEF Without
  <1>2. \A j \in Listed(Without(q, {k})) \cup {k} : <<j, k>> \in Keys \X Keys
    BY DEF Listed
  <1> QED BY <1>1, <1>2 DEF Touch

(***************************************************************************)
(* A list with a key touched is a list.                                    *)
(***************************************************************************)
LEMMA TouchIsList ==
  ASSUME NEW q, NEW k \in Keys, IsList(q)
  PROVE  IsList(Touch(q, k))
  <1> DEFINE others == Without(q, {k})
  <1>1. IsList(others) /\ Listed(others) = Listed(q) \ {k}
    BY WithoutIsList, ListedWithout
  <1>2. Listed(Touch(q, k)) = Listed(others) \cup {k}
    BY <1>1, ListedTouch
  <1>3. IsFiniteSet(Listed(Touch(q, k)))
    <2>1. IsFiniteSet(Listed(others))
      BY <1>1 DEF IsList
    <2> HIDE DEF others
    <2> QED BY <1>2, <2>1, FS_AddElement
  <1>4. \A i, j : <<i, j>> \in others => i # k /\ j # k
    BY DEF Without
  <1>5. \A i, j : <<i, j>> \in Touch(q, k) <=>
                    \/ <<i, j>> \in others
                    \/ i \in Listed(others) \cup {k} /\ j = k
    BY DEF Touch
  <1> HIDE DEF others
  <1>6. ASSUME NEW i \in Keys, NEW j \in Keys,
               <<i, j>> \in Touch(q, k), <<j, i>> \in Touch(q, k)
        PROVE  i = j
    BY <1>1, <1>4, <1>5, <1>6 DEF IsList
  <1>7. ASSUME NEW S \in SUBSET Listed(Touch(q, k)), S # {}
        PROVE  \E i \in S : \A j \in S : <<i, j>> \in Touch(q, k)
    <2>1. CASE S = {k}
      BY <2>1, <1>5
    <2>2. CASE S # {k}
      <3>1. S \ {k} # {} /\ S \ {k} \in SUBSET Listed(others)
        BY <1>2, <1>7, <2>2
      <3>2. PICK i \in S \ {k} : \A j \in S \ {k} : <<i, j>> \in others
        BY <1>1, <3>1 DEF IsList
      <3>3. \A j \in S : <<i, j>> \in Touch(q, k)
        BY <1>5, <3>1, <3>2
      <3> QED BY <3>2, <3>3
    <2> QED BY <2>1, <2>2
  <1> QED BY <1>3, <1>6, <1>7 DEF IsList

(***************************************************************************)
(* An eviction makes room: it removes one key, the oldest, if there are    *)
(* too many.                                                               *)
(***************************************************************************)
LEMMA EvictionMakesRoom ==
  ASSUME NEW q, NEW k \in Keys, IsList(q), Bounded(q)
  PROVE  LET r == Without(Touch(q, k), Evicted(Touch(q, k)))
         IN  IsList(r) /\ Bounded(r)
  <1> DEFINE t == Touch(q, k)
  <1>1. IsList(t) /\ Listed(t) = Listed(q) \cup {k}
    BY TouchIsList, ListedTouch
  <1>2. Cardinality(Listed(q)) \in Nat /\ Cardinality(Listed(t)) \in Nat
        /\ Cardinality(Listed(t)) <= Cardinality(Listed(q)) + 1
    BY <1>1, FS_CardinalityType, FS_AddElement DEF IsList
  <1> HIDE DEF t
  <1>3. IsList(Without(t, Evicted(t)))
    BY <1>1, WithoutIsList
  <1>4. Bounded(Without(t, Evicted(t)))
    <2>1. CASE Cardinality(Listed(t)) > Size
      <3>1. Listed(t) # {}
        <4>1. SUFFICES ASSUME Listed(t) = {} PROVE FALSE
          OBVIOUS
        <4>2. Cardinality(Listed(t)) = 0
          BY <4>1, FS_EmptySet
        <4> QED BY <2>1, <4>2, CacheAssumption
      <3>2. PICK o \in Listed(t) : \A j \in Listed(t) : <<o, j>> \in t
        BY <1>1, <3>1 DEF IsList
      <3>3. Oldest(t) = {o}
        <4>1. \A i \in Listed(t) : <<i, o>> \in t => i = o
          BY <1>1, <3>2 DEF IsList, Listed
        <4> QED BY <3>2, <4>1 DEF Oldest
      <3>4. Evicted(t) = {o}
        BY <2>1, <3>3 DEF Evicted
      <3>5. Listed(Without(t, Evicted(t))) = Listed(t) \ {o}
        BY <3>4, ListedWithout
      <3>6. Cardinality(Listed(t) \ {o}) = Cardinality(Listed(t)) - 1
        BY <1>1, <3>2, FS_RemoveElement DEF IsList
      <3> QED BY <1>2, <3>5, <3>6, CacheAssumption DEF Bounded
    <2>2. CASE ~(Cardinality(Listed(t)) > Size)
      <3>1. Evicted(t) = {}
        BY <2>2 DEF Evicted
      <3>2. Listed(Without(t, {})) = Listed(t)
        BY ListedWithout
      <3> QED BY <1>2, <2>2, <3>1, <3>2, CacheAssumption DEF Bounded
    <2> QED BY <2>1, <2>2
  <1> QED BY <1>3, <1>4 DEF t

(***************************************************************************)
(* Taking keys out keeps the list within its limit.                        *)
(***************************************************************************)
LEMMA WithoutBounded ==
  ASSUME NEW q, NEW ks, IsList(q), Bounded(q)
  PROVE  Bounded(Without(q, ks))
  <1>1. Listed(Without(q, ks)) = Listed(q) \ ks
    BY ListedWithout
  <1>2. /\ Cardinality(Listed(q) \ ks) <= Cardinality(Listed(q))
        /\ Cardinality(Listed(q)) \in Nat /\ Cardinality(Listed(q) \ ks) \in Nat
    BY FS_Subset, FS_CardinalityType DEF IsList
  <1> QED BY <1>1, <1>2, CacheAssumption DEF Bounded

-----------------------------------------------------------------------------
(***************************************************************************)
(* What a generator's state says about it.                                 *)
(***************************************************************************)
Getting == [pc : {"get"}, key : Keys, ctx : Snapshots]

Adding == [pc : {"add"}, key : Keys, ctx : Snapshots, token : 1..MaxToken,
           cleared : BOOLEAN, purged : BOOLEAN]

(***************************************************************************)
(* What a generator holds, by where it is.                                 *)
(***************************************************************************)
LEMMA GeneratorStates ==
  ASSUME CacheTypes, NEW g \in Generators
  PROVE  /\ gen[g].pc = "get" => gen[g] \in Getting
         /\ gen[g].pc = "add" => gen[g] \in Adding
  <1>1. gen[g] \in {IdleGen} \cup Getting \cup Adding
    BY DEF CacheTypes, GenStates, Getting, Adding
  <1>2. IdleGen.pc = "idle" /\ (\A x \in Getting : x.pc = "get") /\ (\A x \in Adding : x.pc = "add")
    BY DEF IdleGen, Getting, Adding
  <1> QED BY <1>1, <1>2

(***************************************************************************)
(* The types of a stored entry.                                            *)
(***************************************************************************)
LEMMA StoredEntries ==
  ASSUME CacheTypes, NEW k \in Keys
  PROVE  store[k] \in CacheEntries /\ store[k].token \in 0..MaxToken
         /\ store[k].value \in Values \cup {None}
  BY DEF CacheTypes, CacheEntries

(***************************************************************************)
(* A key not stored has no token and no value.                             *)
(***************************************************************************)
LEMMA NotStoredEntry == NotStored \in CacheEntries /\ NotStored.token = 0 /\ NotStored.value = None
  BY CacheAssumption DEF NotStored, CacheEntries

(***************************************************************************)
(* simplelru's Add: k is listed with its entry, and the evicted keys are   *)
(* neither listed nor stored.                                              *)
(***************************************************************************)
LEMMA LruAddEffect ==
  ASSUME CacheTypes, IsList(recency), Bounded(recency),
         NEW k \in Keys, NEW entry \in CacheEntries, LruAdd(k, entry)
  PROVE  /\ recency' \in SUBSET (Keys \X Keys)
         /\ IsList(recency')
         /\ Bounded(recency')
         /\ store' \in [Keys -> CacheEntries]
         /\ \E evicted \in SUBSET Keys :
              /\ Listed(recency') = (Listed(recency) \cup {k}) \ evicted
              /\ \A j \in Keys : store'[j] = IF j \in evicted THEN NotStored
                                             ELSE IF j = k THEN entry ELSE store[j]
  <1> DEFINE q == Touch(recency, k)
             r == Without(q, Evicted(q))
  <1>1. recency' = r
    BY DEF LruAdd
  <1>2. store' = [j \in Keys |-> IF j \in Evicted(q) THEN NotStored
                                 ELSE IF j = k THEN entry ELSE store[j]]
    BY DEF LruAdd
  <1>3. q \in SUBSET (Keys \X Keys)
    BY TouchType DEF CacheTypes
  <1>4. Evicted(q) \in SUBSET Keys
    BY DEF Evicted, Oldest, Listed
  <1>5. r \in SUBSET (Keys \X Keys)
    BY <1>3 DEF Without
  <1>6. IsList(r) /\ Bounded(r)
    BY EvictionMakesRoom
  <1>7. Listed(r) = (Listed(recency) \cup {k}) \ Evicted(q)
    BY ListedTouch, ListedWithout
  <1> HIDE DEF q, r
  <1>8. store' \in [Keys -> CacheEntries]
    BY <1>2, NotStoredEntry DEF CacheTypes
  <1>9. \A j \in Keys : store'[j] = IF j \in Evicted(q) THEN NotStored
                                    ELSE IF j = k THEN entry ELSE store[j]
    BY <1>2
  <1> QED BY <1>1, <1>4, <1>5, <1>6, <1>7, <1>8, <1>9

(***************************************************************************)
(* ... and Remove.                                                         *)
(***************************************************************************)
LEMMA LruRemoveEffect ==
  ASSUME CacheTypes, IsList(recency), Bounded(recency), NEW ks \in SUBSET Keys, LruRemove(ks)
  PROVE  /\ recency' \in SUBSET (Keys \X Keys)
         /\ IsList(recency')
         /\ Bounded(recency')
         /\ store' \in [Keys -> CacheEntries]
         /\ Listed(recency') = Listed(recency) \ ks
         /\ \A j \in Keys : store'[j] = IF j \in ks THEN NotStored ELSE store[j]
  <1>1. recency' = Without(recency, ks)
    BY DEF LruRemove
  <1>2. store' = [k \in Keys |-> IF k \in ks THEN NotStored ELSE store[k]]
    BY DEF LruRemove
  <1>3. recency' \in SUBSET (Keys \X Keys)
    BY <1>1 DEF Without, CacheTypes
  <1>4. IsList(recency') /\ Bounded(recency') /\ Listed(recency') = Listed(recency) \ ks
    BY <1>1, WithoutIsList, WithoutBounded, ListedWithout
  <1>5. store' \in [Keys -> CacheEntries]
    BY <1>2, NotStoredEntry DEF CacheTypes
  <1> QED BY <1>2, <1>3, <1>4, <1>5

(***************************************************************************)
(* Looking a listed key up only changes the order.                         *)
(***************************************************************************)
LEMMA TouchEffect ==
  ASSUME CacheTypes, IsList(recency), Bounded(recency),
         NEW k \in Listed(recency), recency' = Touch(recency, k)
  PROVE  /\ recency' \in SUBSET (Keys \X Keys)
         /\ IsList(recency')
         /\ Bounded(recency')
         /\ Listed(recency') = Listed(recency)
  <1>1. k \in Keys
    BY DEF Listed
  <1>2. recency' \in SUBSET (Keys \X Keys)
    BY <1>1, TouchType DEF CacheTypes
  <1>3. IsList(recency') /\ Listed(recency') = Listed(recency)
    BY <1>1, TouchIsList, ListedTouch
  <1> QED BY <1>2, <1>3 DEF Bounded

-----------------------------------------------------------------------------
(***************************************************************************)
(* The cache starts empty.                                                 *)
(***************************************************************************)
LEMMA CacheInitIInv == CacheInit => CacheIInv
  <1> SUFFICES ASSUME CacheInit PROVE CacheIInv
    OBVIOUS
  <1>1. \A k \in Keys : store[k] = NotStored /\ store[k].token = 0 /\ store[k].value = None
    BY NotStoredEntry DEF CacheInit
  <1>2. \A g \in Generators : gen[g].pc = "idle"
    BY DEF CacheInit, IdleGen
  <1>3. CacheTypes
    <2>1. store \in [Keys -> CacheEntries]
      BY NotStoredEntry DEF CacheInit
    <2>2. gen \in [Generators -> GenStates]
      BY DEF CacheInit, GenStates
    <2>3. versions \in Snapshots /\ nextToken \in 0..MaxToken
      BY CacheAssumption DEF CacheInit, Snapshots
    <2> QED BY <2>1, <2>2, <2>3 DEF CacheInit, CacheTypes
  <1>4. Listed(recency) = {}
    BY DEF CacheInit, Listed
  <1>5. IsList(recency) /\ Bounded(recency)
    <2>1. IsFiniteSet({}) /\ Cardinality({}) = 0
      BY FS_EmptySet
    <2>2. recency = {}
      BY DEF CacheInit
    <2> QED BY <1>4, <2>1, <2>2, CacheAssumption DEF IsList, Bounded
  <1>6. ValuesIndexed /\ TokensIssued /\ TokensUnique /\ PurgedTokensGone
    BY <1>1, <1>2, <1>4 DEF ValuesIndexed, TokensIssued, TokensUnique, PurgedTokensGone, InLru,
       CacheInit
  <1> QED BY <1>3, <1>5, <1>6 DEF CacheIInv

(***************************************************************************)
(* The steps of a generator that leave the cache alone.                    *)
(***************************************************************************)
LEMMA IdleStepsIInv ==
  ASSUME CacheIInv, NEW g \in Generators, (\E k \in Keys : Begin(g, k)) \/ GiveUp(g)
  PROVE  CacheIInv'
  <1>1. UNCHANGED <<store, recency, configIndex, typesIndex, nextToken, versions, toClear>>
    BY DEF Begin, GiveUp, lruVars
  <1>2. PICK x \in {IdleGen} \cup Getting : gen' = [gen EXCEPT ![g] = x]
    BY DEF Begin, GiveUp, Getting, CacheIInv, CacheTypes
  <1>3. x \in GenStates /\ x.pc # "add"
    BY <1>2 DEF GenStates, Getting, IdleGen
  <1>4. gen' \in [Generators -> GenStates]
    BY <1>2, <1>3 DEF CacheIInv, CacheTypes
  <1>5. \A h \in Generators : gen'[h].pc = "add" => gen'[h] = gen[h]
    BY <1>2, <1>3 DEF CacheIInv, CacheTypes
  <1>6. CacheTypes'
    BY <1>1, <1>4 DEF CacheIInv, CacheTypes
  <1>7. TokensUnique' /\ PurgedTokensGone'
    BY <1>1, <1>5 DEF CacheIInv, TokensUnique, PurgedTokensGone, InLru
  <1>8. ValuesIndexed' /\ TokensIssued' /\ IsList(recency)' /\ Bounded(recency)'
    BY <1>1 DEF CacheIInv, ValuesIndexed, TokensIssued
  <1> QED BY <1>6, <1>7, <1>8 DEF CacheIInv

(***************************************************************************)
(* The first Get of a key hands out a token nobody has.                    *)
(***************************************************************************)
LEMMA GetFirstIInv ==
  ASSUME CacheIInv, NEW g \in Generators, gen[g].pc = "get", GetFirst(g, gen[g].key),
         UNCHANGED <<configIndex, typesIndex, versions, toClear>>
  PROVE  CacheIInv'
  <1> DEFINE k == gen[g].key
             n == nextToken + 1
             entry == [value |-> None, token |-> n]
             x == [pc |-> "add", key |-> k, ctx |-> gen[g].ctx, token |-> n,
                   cleared |-> FALSE, purged |-> FALSE]
  <1>1. k \in Keys /\ gen[g].ctx \in Snapshots
    BY GeneratorStates DEF CacheIInv, Getting
  <1>2. n \in 1..MaxToken /\ nextToken' = n /\ nextToken \in Nat
    BY CacheAssumption DEF GetFirst, CacheIInv, CacheTypes
  <1>3. entry \in CacheEntries /\ entry.token = n /\ entry.value = None
    BY <1>2 DEF CacheEntries
  <1>4. LruAdd(k, entry)
    BY DEF GetFirst
  <1>5. x \in GenStates /\ x.pc = "add" /\ x.token = n /\ x.key = k /\ ~x.purged
    BY <1>1, <1>2 DEF GenStates
  <1>6. gen' = [gen EXCEPT ![g] = x]
    BY DEF GetFirst, Miss
  <1> HIDE DEF entry, x
  <1>7. gen' \in [Generators -> GenStates] /\ gen'[g] = x
        /\ \A h \in Generators \ {g} : gen'[h] = gen[h]
    BY <1>5, <1>6 DEF CacheIInv, CacheTypes
  <1>8. /\ recency' \in SUBSET (Keys \X Keys) /\ IsList(recency') /\ Bounded(recency')
        /\ store' \in [Keys -> CacheEntries]
    BY <1>1, <1>3, <1>4, LruAddEffect DEF CacheIInv
  <1>9. PICK evicted \in SUBSET Keys :
              /\ Listed(recency') = (Listed(recency) \cup {k}) \ evicted
              /\ \A j \in Keys : store'[j] = IF j \in evicted THEN NotStored
                                             ELSE IF j = k THEN entry ELSE store[j]
    BY <1>1, <1>3, <1>4, LruAddEffect, SMTT(40) DEF CacheIInv
  <1>10. CacheTypes'
    BY <1>2, <1>7, <1>8 DEF CacheIInv, CacheTypes
  <1>11. \A j \in Keys : /\ store'[j].token = 0 <=> j \in evicted \/ (j # k /\ store[j].token = 0)
                         /\ store'[j].token # 0 => store'[j].token = IF j = k THEN n ELSE store[j].token
                         /\ store'[j].value # None => store'[j].value = store[j].value
    BY <1>2, <1>3, <1>9, NotStoredEntry
  <1>12. \A j \in Keys : store[j].token \in 0..nextToken
    BY <1>2, StoredEntries DEF CacheIInv, TokensIssued
  <1>13. \A h \in Generators : gen[h].pc = "add" => gen[h].token \in 1..nextToken
    BY DEF CacheIInv, TokensUnique
  <1>14. TokensIssued'
    BY <1>2, <1>11, <1>12 DEF TokensIssued
  <1>15. ValuesIndexed'
    BY <1>11 DEF CacheIInv, ValuesIndexed
  <1>16. TokensUnique'
    <2>1. \A j \in Keys : store'[j].token # 0 <=> InLru(j)'
      BY <1>9, <1>11 DEF CacheIInv, TokensUnique, InLru
    <2>2. \A i, j \in Keys : store'[i].token = store'[j].token /\ store'[i].token # 0 => i = j
      BY <1>2, <1>11, <1>12 DEF CacheIInv, TokensUnique
    <2>3. ASSUME NEW h \in Generators, gen'[h].pc = "add"
          PROVE  /\ gen'[h].token \in 1..nextToken'
                 /\ \A j \in Keys : store'[j].token = gen'[h].token => j = gen'[h].key
      <3>1. CASE h = g
        BY <1>2, <1>5, <1>7, <1>11, <1>12, <3>1
      <3>2. CASE h # g
        BY <1>2, <1>7, <1>11, <1>12, <1>13, <2>3, <3>2 DEF CacheIInv, TokensUnique
      <3> QED BY <3>1, <3>2
    <2> QED BY <2>1, <2>2, <2>3 DEF TokensUnique
  <1>17. PurgedTokensGone'
    <2>1. SUFFICES ASSUME NEW h \in Generators, gen'[h].pc = "add", gen'[h].purged,
                          NEW j \in Keys
                   PROVE  store'[j].token # gen'[h].token
      BY DEF PurgedTokensGone
    <2>2. gen'[h] = gen[h] /\ gen[h].token \in 1..nextToken
      BY <1>5, <1>7, <1>13, <2>1
    <2>3. store[j].token # gen[h].token
      BY <2>1, <2>2 DEF CacheIInv, PurgedTokensGone
    <2> QED BY <1>2, <1>11, <2>2, <2>3
  <1> QED BY <1>8, <1>10, <1>14, <1>15, <1>16, <1>17 DEF CacheIInv

(***************************************************************************)
(* A Get of a listed key: the generator gets the key's token, or is done.  *)
(***************************************************************************)
LEMMA GetPresentIInv ==
  ASSUME CacheIInv, NEW g \in Generators, gen[g].pc = "get", GetPresent(g, gen[g].key),
         UNCHANGED <<configIndex, typesIndex, versions, toClear>>
  PROVE  CacheIInv'
  <1> DEFINE k == gen[g].key
             x == [pc |-> "add", key |-> k, ctx |-> gen[g].ctx, token |-> store[k].token,
                   cleared |-> FALSE, purged |-> FALSE]
  <1>1. k \in Keys /\ gen[g].ctx \in Snapshots
    BY GeneratorStates DEF CacheIInv, Getting
  <1>2. store' = store /\ nextToken' = nextToken /\ recency' = Touch(recency, k)
    BY DEF GetPresent
  <1>3. store[k].token \in 1..MaxToken /\ k \in Listed(recency)
    BY <1>1, StoredEntries, CacheAssumption DEF GetPresent, CacheIInv, TokensUnique, InLru
  <1>4. /\ recency' \in SUBSET (Keys \X Keys) /\ IsList(recency') /\ Bounded(recency')
        /\ Listed(recency') = Listed(recency)
    BY <1>2, <1>3, TouchEffect DEF CacheIInv
  <1>5. x \in GenStates /\ x.pc = "add" /\ x.token = store[k].token /\ x.key = k /\ ~x.purged
    BY <1>1, <1>3 DEF GenStates
  <1>6. IdleGen \in GenStates /\ IdleGen.pc # "add"
    BY DEF GenStates, IdleGen
  <1>7. PICK y \in {IdleGen, x} : gen' = [gen EXCEPT ![g] = y]
    BY DEF GetPresent, Miss
  <1> HIDE DEF x
  <1>8. /\ gen' \in [Generators -> GenStates]
        /\ gen'[g].pc = "add" => gen'[g] = x
        /\ \A h \in Generators \ {g} : gen'[h] = gen[h]
    BY <1>5, <1>6, <1>7 DEF CacheIInv, CacheTypes
  <1>9. CacheTypes'
    BY <1>2, <1>4, <1>8 DEF CacheIInv, CacheTypes
  <1>10. ValuesIndexed' /\ TokensIssued'
    BY <1>2 DEF CacheIInv, ValuesIndexed, TokensIssued
  <1>11. TokensUnique'
    <2>1. \A j \in Keys : store'[j].token # 0 <=> InLru(j)'
      BY <1>2, <1>4 DEF CacheIInv, TokensUnique, InLru
    <2>2. \A i, j \in Keys : store'[i].token = store'[j].token /\ store'[i].token # 0 => i = j
      BY <1>2 DEF CacheIInv, TokensUnique
    <2>3. ASSUME NEW h \in Generators, gen'[h].pc = "add"
          PROVE  /\ gen'[h].token \in 1..nextToken'
                 /\ \A j \in Keys : store'[j].token = gen'[h].token => j = gen'[h].key
      <3>1. CASE h = g
        <4>1. gen'[h] = x
          BY <1>8, <2>3, <3>1
        <4>2. store[k].token <= nextToken /\ nextToken \in Nat
          BY <1>1 DEF CacheIInv, TokensIssued, CacheTypes
        <4> QED BY <1>1, <1>2, <1>3, <1>5, <2>2, <4>1, <4>2
      <3>2. CASE h # g
        BY <1>2, <1>8, <2>3, <3>2 DEF CacheIInv, TokensUnique
      <3> QED BY <3>1, <3>2
    <2> QED BY <2>1, <2>2, <2>3 DEF TokensUnique
  <1>12. PurgedTokensGone'
    BY <1>2, <1>5, <1>8 DEF CacheIInv, PurgedTokensGone
  <1> QED BY <1>4, <1>9, <1>10, <1>11, <1>12 DEF CacheIInv

(***************************************************************************)
(* An Add that is accepted stores a value, under the token that was there, *)
(* and enters the key in the indexes.                                      *)
(***************************************************************************)
LEMMA AddWriteIInv ==
  ASSUME CacheIInv, NEW g \in Generators, gen[g].pc = "add", AddWrite(g, gen[g].key),
         gen' = [gen EXCEPT ![g] = IdleGen], UNCHANGED <<nextToken, versions, toClear>>
  PROVE  CacheIInv'
  <1> DEFINE k == gen[g].key
             n == gen[g].token
             entry == [value |-> Generate(k, gen[g].ctx), token |-> n]
  <1>1. k \in Keys /\ gen[g].ctx \in Snapshots /\ n \in 1..MaxToken
    BY GeneratorStates DEF CacheIInv, Adding
  <1>2. store[k].token = n /\ n \in 1..nextToken
    BY DEF AddWrite, AddAccepted, CacheIInv, TokensUnique
  <1>3. Generate(k, gen[g].ctx) \in Values
    BY <1>1 DEF Values
  <1>4. entry \in CacheEntries /\ entry.token = n
    BY <1>1, <1>3 DEF CacheEntries
  <1>5. LruAdd(k, entry)
    BY DEF AddWrite
  <1> HIDE DEF entry
  <1>6. /\ recency' \in SUBSET (Keys \X Keys) /\ IsList(recency') /\ Bounded(recency')
        /\ store' \in [Keys -> CacheEntries]
    BY <1>1, <1>4, <1>5, LruAddEffect DEF CacheIInv
  <1>7. PICK evicted \in SUBSET Keys :
              /\ Listed(recency') = (Listed(recency) \cup {k}) \ evicted
              /\ \A j \in Keys : store'[j] = IF j \in evicted THEN NotStored
                                             ELSE IF j = k THEN entry ELSE store[j]
    BY <1>1, <1>4, <1>5, LruAddEffect DEF CacheIInv
  <1>8. \A j \in Keys : /\ store'[j].token = IF j \in evicted THEN 0 ELSE store[j].token
                        /\ store'[j].value # None => j = k \/ store'[j].value = store[j].value
    BY <1>2, <1>4, <1>7, NotStoredEntry
  <1>9. IdleGen \in GenStates /\ IdleGen.pc # "add"
    BY DEF GenStates, IdleGen
  <1>10. /\ gen' \in [Generators -> GenStates]
         /\ \A h \in Generators : gen'[h].pc = "add" => gen'[h] = gen[h]
    BY <1>9 DEF CacheIInv, CacheTypes
  <1>11. /\ configIndex' \in [CacheConfigs -> SUBSET Keys]
         /\ typesIndex' \in [Kinds -> SUBSET Keys]
         /\ \A c \in CacheConfigs : configIndex[c] \subseteq configIndex'[c]
         /\ \A t \in Kinds : typesIndex[t] \subseteq typesIndex'[t]
         /\ \A c \in DependentConfigs[k] : k \in configIndex'[c]
         /\ \A t \in DependentTypes[k] : k \in typesIndex'[t]
    BY <1>1, CacheAssumption DEF AddWrite, IndexConfig, IndexType, CacheIInv, CacheTypes
  <1>12. CacheTypes'
    BY <1>6, <1>10, <1>11 DEF CacheIInv, CacheTypes
  <1>13. ValuesIndexed'
    <2>1. SUFFICES ASSUME NEW j \in Keys, store'[j].value # None
                   PROVE  /\ \A c \in DependentConfigs[j] : j \in configIndex'[c]
                          /\ \A t \in DependentTypes[j] : j \in typesIndex'[t]
      BY DEF ValuesIndexed
    <2>2. CASE j = k
      BY <1>11, <2>2
    <2>3. CASE j # k
      <3>1. store[j].value # None
        BY <1>8, <2>1, <2>3
      <3>2. /\ \A c \in DependentConfigs[j] : c \in CacheConfigs /\ j \in configIndex[c]
            /\ \A t \in DependentTypes[j] : t \in Kinds /\ j \in typesIndex[t]
        BY <3>1, CacheAssumption DEF CacheIInv, ValuesIndexed
      <3> QED BY <1>11, <3>2
    <2> QED BY <2>2, <2>3
  <1>14. TokensIssued'
    BY <1>8 DEF CacheIInv, TokensIssued, CacheTypes
  <1>15. TokensUnique'
    <2>1. \A j \in Keys : store'[j].token # 0 <=> InLru(j)'
      BY <1>2, <1>7, <1>8 DEF CacheIInv, TokensUnique, InLru
    <2>2. \A i, j \in Keys : store'[i].token = store'[j].token /\ store'[i].token # 0 => i = j
      BY <1>8 DEF CacheIInv, TokensUnique
    <2>3. ASSUME NEW h \in Generators, gen'[h].pc = "add"
          PROVE  /\ gen'[h].token \in 1..nextToken'
                 /\ \A j \in Keys : store'[j].token = gen'[h].token => j = gen'[h].key
      BY <1>8, <1>10, <2>3 DEF CacheIInv, TokensUnique
    <2> QED BY <2>1, <2>2, <2>3 DEF TokensUnique
  <1>16. PurgedTokensGone'
    <2>1. \A h \in Generators : gen[h].pc = "add" => gen[h].token \in 1..nextToken
      BY DEF CacheIInv, TokensUnique
    <2> QED BY <1>8, <1>10, <2>1 DEF CacheIInv, PurgedTokensGone
  <1> QED BY <1>6, <1>12, <1>13, <1>14, <1>15, <1>16 DEF CacheIInv

(***************************************************************************)
(* A dropped Add may change the order of the list.                         *)
(***************************************************************************)
LEMMA AddDroppedIInv ==
  ASSUME CacheIInv, NEW g \in Generators, gen[g].pc = "add", AddDropped(g, gen[g].key),
         gen' = [gen EXCEPT ![g] = IdleGen], UNCHANGED <<nextToken, versions, toClear>>
  PROVE  CacheIInv'
  <1> DEFINE k == gen[g].key
  <1>1. k \in Keys
    BY GeneratorStates DEF CacheIInv, Adding
  <1>2. UNCHANGED <<store, configIndex, typesIndex, nextToken, versions, toClear>>
    BY DEF AddDropped
  <1>3. /\ recency' \in SUBSET (Keys \X Keys) /\ IsList(recency') /\ Bounded(recency')
        /\ Listed(recency') = Listed(recency)
    <2>1. CASE store[k].token # 0
      BY <1>1, <2>1, TouchEffect DEF AddDropped, CacheIInv, TokensUnique, InLru
    <2>2. CASE store[k].token = 0
      BY <2>2 DEF AddDropped, CacheIInv, CacheTypes
    <2> QED BY <2>1, <2>2
  <1>4. IdleGen \in GenStates /\ IdleGen.pc # "add"
    BY DEF GenStates, IdleGen
  <1>5. /\ gen' \in [Generators -> GenStates]
        /\ \A h \in Generators : gen'[h].pc = "add" => gen'[h] = gen[h]
    BY <1>4 DEF CacheIInv, CacheTypes
  <1>6. CacheTypes'
    BY <1>2, <1>3, <1>5 DEF CacheIInv, CacheTypes
  <1>7. ValuesIndexed' /\ TokensIssued'
    BY <1>2 DEF CacheIInv, ValuesIndexed, TokensIssued
  <1>8. TokensUnique' /\ PurgedTokensGone'
    BY <1>2, <1>3, <1>5 DEF CacheIInv, TokensUnique, PurgedTokensGone, InLru
  <1> QED BY <1>3, <1>6, <1>7, <1>8 DEF CacheIInv

(***************************************************************************)
(* A new push context is not the cache's business yet.                     *)
(***************************************************************************)
LEMMA NewContextIInv ==
  ASSUME CacheIInv, NEW c \in CacheConfigs, NewContext(c)
  PROVE  CacheIInv'
  <1>1. UNCHANGED <<store, recency, configIndex, typesIndex, nextToken, gen>>
    BY DEF NewContext, lruVars
  <1>2. versions' \in Snapshots /\ toClear' \in SUBSET CacheConfigs
    BY CacheAssumption DEF NewContext, CacheIInv, CacheTypes, Snapshots
  <1>3. CacheTypes'
    BY <1>1, <1>2 DEF CacheIInv, CacheTypes
  <1> QED
    BY <1>1, <1>3 DEF CacheIInv, ValuesIndexed, TokensIssued, TokensUnique, PurgedTokensGone, InLru

(***************************************************************************)
(* The records of an invalidation leave the rest of a generator's state.   *)
(***************************************************************************)
Marked(new) ==
  \A g \in Generators : new[g].pc = "add" =>
    gen[g].pc = "add" /\ new[g].token = gen[g].token /\ new[g].key = gen[g].key

(***************************************************************************)
(* Clear marks the generators whose key depends on what is cleared.        *)
(***************************************************************************)
LEMMA MarkClearedEffect ==
  ASSUME CacheTypes, NEW cs
  PROVE  /\ MarkCleared(cs) \in [Generators -> GenStates]
         /\ Marked(MarkCleared(cs))
         /\ \A g \in Generators : MarkCleared(cs)[g].pc = "add" =>
              MarkCleared(cs)[g].purged = gen[g].purged
  <1> DEFINE new == MarkCleared(cs)
  <1>1. ASSUME NEW g \in Generators
        PROVE  /\ new[g] \in GenStates
               /\ new[g].pc = "add" => /\ gen[g].pc = "add" /\ new[g].token = gen[g].token
                                       /\ new[g].key = gen[g].key /\ new[g].purged = gen[g].purged
    <2>1. new[g] = IF gen[g].pc = "add" /\ \E c \in cs : DependsOn(gen[g].key, c)
                   THEN [gen[g] EXCEPT !.cleared = TRUE] ELSE gen[g]
      BY DEF MarkCleared
    <2>2. CASE new[g] = gen[g]
      BY <2>2 DEF CacheTypes
    <2>3. CASE gen[g].pc = "add" /\ new[g] = [gen[g] EXCEPT !.cleared = TRUE]
      <3>1. gen[g] \in Adding
        BY <2>3, GeneratorStates
      <3>2. new[g] \in Adding /\ new[g].pc = "add" /\ new[g].token = gen[g].token
            /\ new[g].key = gen[g].key /\ new[g].purged = gen[g].purged
        BY <2>3, <3>1 DEF Adding
      <3> QED BY <2>3, <3>2 DEF GenStates, Adding
    <2> QED BY <2>1, <2>2, <2>3
  <1>2. new \in [Generators -> GenStates]
    BY <1>1 DEF MarkCleared
  <1> QED BY <1>1, <1>2 DEF Marked

(***************************************************************************)
(* ClearAll marks them all.                                                *)
(***************************************************************************)
LEMMA MarkPurgedEffect ==
  ASSUME CacheTypes
  PROVE  MarkPurged \in [Generators -> GenStates] /\ Marked(MarkPurged)
  <1> DEFINE new == MarkPurged
  <1>1. ASSUME NEW g \in Generators
        PROVE  /\ new[g] \in GenStates
               /\ new[g].pc = "add" => /\ gen[g].pc = "add" /\ new[g].token = gen[g].token
                                       /\ new[g].key = gen[g].key
    <2>1. new[g] = IF gen[g].pc = "add"
                   THEN [gen[g] EXCEPT !.cleared = TRUE, !.purged = TRUE] ELSE gen[g]
      BY DEF MarkPurged
    <2>2. CASE gen[g].pc # "add"
      BY <2>1, <2>2 DEF CacheTypes
    <2>3. CASE gen[g].pc = "add"
      <3>1. gen[g] \in Adding
        BY <2>3, GeneratorStates
      <3>2. new[g] \in Adding /\ new[g].token = gen[g].token /\ new[g].key = gen[g].key
        BY <2>1, <2>3, <3>1 DEF Adding
      <3> QED BY <2>3, <3>2 DEF GenStates, Adding
    <2> QED BY <2>2, <2>3
  <1>2. new \in [Generators -> GenStates]
    BY <1>1 DEF MarkPurged
  <1> QED BY <1>1, <1>2 DEF Marked

(***************************************************************************)
(* Removing keys keeps the tokens of the others, and no generator gets one.*)
(***************************************************************************)
LEMMA RemoveTokens ==
  ASSUME CacheIInv, NEW ks \in SUBSET Keys, LruRemove(ks), Marked(gen'), nextToken' = nextToken
  PROVE  TokensIssued' /\ TokensUnique'
  <1>1. /\ Listed(recency') = Listed(recency) \ ks
        /\ \A j \in Keys : store'[j] = IF j \in ks THEN NotStored ELSE store[j]
    BY LruRemoveEffect DEF CacheIInv
  <1>2. \A j \in Keys : store'[j].token = IF j \in ks THEN 0 ELSE store[j].token
    BY <1>1, NotStoredEntry
  <1>3. TokensIssued'
    BY <1>2 DEF CacheIInv, TokensIssued, CacheTypes
  <1>4. \A j \in Keys : store'[j].token # 0 <=> InLru(j)'
    BY <1>1, <1>2 DEF CacheIInv, TokensUnique, InLru
  <1>5. \A i, j \in Keys : store'[i].token = store'[j].token /\ store'[i].token # 0 => i = j
    BY <1>2 DEF CacheIInv, TokensUnique
  <1>6. ASSUME NEW h \in Generators, gen'[h].pc = "add"
        PROVE  /\ gen'[h].token \in 1..nextToken'
               /\ \A j \in Keys : store'[j].token = gen'[h].token => j = gen'[h].key
    <2>1. gen[h].pc = "add" /\ gen'[h].token = gen[h].token /\ gen'[h].key = gen[h].key
      BY <1>6 DEF Marked
    <2>2. /\ gen[h].token \in 1..nextToken
          /\ \A j \in Keys : store[j].token = gen[h].token => j = gen[h].key
      BY <2>1 DEF CacheIInv, TokensUnique
    <2> QED BY <1>2, <2>1, <2>2
  <1> QED BY <1>3, <1>4, <1>5, <1>6 DEF TokensUnique

(***************************************************************************)
(* Clear removes the keys it finds in the indexes it resets: what stays    *)
(* was in none of them, so it does not depend on what was cleared.         *)
(***************************************************************************)
LEMMA ClearIInv ==
  ASSUME CacheIInv, NEW cs \in SUBSET CacheConfigs, Clear(cs), toClear' = {},
         UNCHANGED <<nextToken, versions>>
  PROVE  CacheIInv'
  <1> DEFINE kinds   == {KindOf[c] : c \in cs}
             named   == UNION {configIndex[c] : c \in cs}
             typed   == UNION {typesIndex[t] : t \in kinds}
             removed == (UNION {configIndex[c] : c \in cs}) \cup (UNION {typesIndex[t] : t \in kinds})
  <1>1. /\ LruRemove(removed)
        /\ configIndex' = [c \in CacheConfigs |-> IF c \in cs THEN {} ELSE configIndex[c]]
        /\ typesIndex'  = [t \in Kinds |-> IF t \in kinds THEN {} ELSE typesIndex[t]]
        /\ gen' = MarkCleared(cs)
    BY DEF Clear
  <1>2. kinds \in SUBSET Kinds
    BY CacheAssumption
  <1>3. removed \in SUBSET Keys
    <2>1. named \in SUBSET Keys
      BY DEF CacheIInv, CacheTypes
    <2>2. \A t \in kinds : typesIndex[t] \in SUBSET Keys
      BY <1>2 DEF CacheIInv, CacheTypes
    <2>3. typed \in SUBSET Keys
      BY <2>2
    <2>4. removed = named \cup typed
      BY Zenon
    <2> HIDE DEF removed, named, typed
    <2> QED BY <2>1, <2>3, <2>4
  <1>4. /\ \A c \in cs : configIndex[c] \subseteq removed
        /\ \A t \in kinds : typesIndex[t] \subseteq removed
    <2>1. \A c \in cs : configIndex[c] \subseteq named
      OBVIOUS
    <2> HIDE DEF kinds
    <2>2. \A t \in kinds : typesIndex[t] \subseteq typed
      OBVIOUS
    <2>3. removed = named \cup typed
      BY Zenon
    <2> HIDE DEF removed, named, typed
    <2> QED BY <2>1, <2>2, <2>3
  <1> HIDE DEF kinds, removed
  <1>5. /\ recency' \in SUBSET (Keys \X Keys) /\ IsList(recency') /\ Bounded(recency')
        /\ store' \in [Keys -> CacheEntries]
        /\ \A j \in Keys : store'[j] = IF j \in removed THEN NotStored ELSE store[j]
    BY <1>1, <1>3, LruRemoveEffect DEF CacheIInv
  <1>6. /\ gen' \in [Generators -> GenStates]
        /\ Marked(gen')
        /\ \A g \in Generators : gen'[g].pc = "add" => gen'[g].purged = gen[g].purged
    BY <1>1, MarkClearedEffect DEF CacheIInv
  <1>7. CacheTypes'
    <2>1. configIndex' \in [CacheConfigs -> SUBSET Keys] /\ typesIndex' \in [Kinds -> SUBSET Keys]
      BY <1>1 DEF CacheIInv, CacheTypes
    <2> QED BY <1>5, <1>6, <2>1 DEF CacheIInv, CacheTypes
  <1>8. TokensIssued' /\ TokensUnique'
    BY <1>1, <1>3, <1>6, RemoveTokens
  <1>9. PurgedTokensGone'
    <2>1. \A j \in Keys : store'[j].token = 0 \/ store'[j].token = store[j].token
      BY <1>5, NotStoredEntry
    <2>2. \A h \in Generators : gen[h].pc = "add" => gen[h].token \in 1..nextToken
      BY DEF CacheIInv, TokensUnique
    <2> QED BY <1>6, <2>1, <2>2 DEF CacheIInv, PurgedTokensGone, Marked
  <1>10. ValuesIndexed'
    <2>1. SUFFICES ASSUME NEW k \in Keys, store'[k].value # None
                   PROVE  /\ \A c \in DependentConfigs[k] : k \in configIndex'[c]
                          /\ \A t \in DependentTypes[k] : k \in typesIndex'[t]
      BY DEF ValuesIndexed
    <2>2. k \notin removed /\ store'[k] = store[k]
      BY <1>5, <2>1, NotStoredEntry
    <2>3. /\ \A c \in DependentConfigs[k] : c \in CacheConfigs /\ k \in configIndex[c]
          /\ \A t \in DependentTypes[k] : t \in Kinds /\ k \in typesIndex[t]
      BY <2>1, <2>2, CacheAssumption DEF CacheIInv, ValuesIndexed
    <2>4. (\A c \in DependentConfigs[k] : c \notin cs) /\ (\A t \in DependentTypes[k] : t \notin kinds)
      BY <1>4, <2>2, <2>3
    <2> QED BY <1>1, <2>3, <2>4
  <1> QED BY <1>5, <1>7, <1>8, <1>9, <1>10 DEF CacheIInv

(***************************************************************************)
(* ClearAll leaves no token, so every token a generator holds is gone.     *)
(***************************************************************************)
LEMMA ClearAllIInv ==
  ASSUME CacheIInv, ClearAll, toClear' = {}, UNCHANGED <<nextToken, versions>>
  PROVE  CacheIInv'
  <1>1. /\ LruRemove(Keys)
        /\ configIndex' = [c \in CacheConfigs |-> {}]
        /\ typesIndex' = typesIndex
        /\ gen' = MarkPurged
    BY DEF ClearAll
  <1>2. /\ recency' \in SUBSET (Keys \X Keys) /\ IsList(recency') /\ Bounded(recency')
        /\ store' \in [Keys -> CacheEntries]
        /\ \A j \in Keys : store'[j] = NotStored
    BY <1>1, LruRemoveEffect DEF CacheIInv
  <1>3. gen' \in [Generators -> GenStates] /\ Marked(gen')
    BY <1>1, MarkPurgedEffect DEF CacheIInv
  <1>4. CacheTypes'
    BY <1>1, <1>2, <1>3 DEF CacheIInv, CacheTypes
  <1>5. TokensIssued' /\ TokensUnique'
    BY <1>1, <1>3, RemoveTokens
  <1>6. \A j \in Keys : store'[j].token = 0 /\ store'[j].value = None
    BY <1>2, NotStoredEntry
  <1>7. ValuesIndexed'
    BY <1>6 DEF ValuesIndexed
  <1>8. PurgedTokensGone'
    <2>1. \A g \in Generators : gen'[g].pc = "add" => gen'[g].token \in 1..nextToken'
      BY <1>5 DEF TokensUnique
    <2> QED BY <1>6, <2>1 DEF PurgedTokensGone
  <1> QED BY <1>2, <1>4, <1>5, <1>7, <1>8 DEF CacheIInv

(***************************************************************************)
(* Every step keeps the invariant of the cache.                            *)
(***************************************************************************)
LEMMA CacheNextIInv == CacheIInv /\ [CacheNext]_xdsCacheVars => CacheIInv'
  <1> SUFFICES ASSUME CacheIInv, [CacheNext]_xdsCacheVars PROVE CacheIInv'
    OBVIOUS
  <1>1. ASSUME NEW g \in Generators, NEW k \in Keys, Begin(g, k) PROVE CacheIInv'
    BY <1>1, IdleStepsIInv
  <1>2. ASSUME NEW g \in Generators, Get(g) PROVE CacheIInv'
    BY <1>2, GetFirstIInv, GetPresentIInv DEF Get
  <1>3. ASSUME NEW g \in Generators, Add(g) PROVE CacheIInv'
    BY <1>3, AddWriteIInv, AddDroppedIInv DEF Add
  <1>4. ASSUME NEW g \in Generators, GiveUp(g) PROVE CacheIInv'
    BY <1>4, IdleStepsIInv
  <1>5. ASSUME NEW c \in CacheConfigs, NewContext(c) PROVE CacheIInv'
    BY <1>5, NewContextIInv
  <1>6. CASE Invalidate
    BY <1>6, ClearIInv, ClearAllIInv DEF Invalidate, CacheIInv, CacheTypes
  <1>7. CASE UNCHANGED xdsCacheVars
    <2>1. CacheTypes'
      BY <1>7 DEF xdsCacheVars, CacheIInv, CacheTypes
    <2> QED
      BY <1>7, <2>1 DEF xdsCacheVars, CacheIInv, ValuesIndexed, TokensIssued, TokensUnique,
         PurgedTokensGone, InLru
  <1> QED
    BY <1>1, <1>2, <1>3, <1>4, <1>5, <1>6, <1>7 DEF CacheNext

(***************************************************************************)
(* It holds in every reachable state.                                      *)
(***************************************************************************)
LEMMA CacheInvariant == CacheSpec => []CacheIInv
  BY CacheInitIInv, CacheNextIInv, PTL DEF CacheSpec

(***************************************************************************)
(* The types of lruCache, and its limit: however Gets and Adds interleave, *)
(* the LRU list never holds more than XDSCacheMaxSize keys, because every  *)
(* eviction removes exactly one.                                           *)
(***************************************************************************)
THEOREM CacheTypeCorrect == CacheSpec => []CacheTypeOK
  <1>1. CacheIInv => CacheTypeOK
    BY DEF CacheIInv, CacheTypes, CacheTypeOK, Bounded
  <1> QED BY <1>1, CacheInvariant, PTL

(***************************************************************************)
(* Every cached value is indexed under all it depends on, so that a Clear  *)
(* finds it, for any keys, configurations and size of the cache.           *)
(***************************************************************************)
THEOREM ValuesAlwaysIndexed == CacheSpec => []ValuesIndexed
  <1>1. CacheIInv => ValuesIndexed
    BY DEF CacheIInv
  <1> QED BY <1>1, CacheInvariant, PTL

(***************************************************************************)
(* Tokens are never reused.                                                *)
(***************************************************************************)
THEOREM TokensNeverReused == CacheSpec => []TokensUnique
  <1>1. CacheIInv => TokensUnique
    BY DEF CacheIInv
  <1> QED BY <1>1, CacheInvariant, PTL

(***************************************************************************)
(* A generator that read its token before a ClearAll cannot write any more.*)
(***************************************************************************)
THEOREM PurgedWritesAlwaysDropped == CacheSpec => []PurgedWritesDropped
  <1>1. ASSUME CacheIInv, NEW g \in Generators, AddAccepted(g) PROVE ~gen[g].purged
    <2>1. gen[g].key \in Keys
      BY <1>1, GeneratorStates DEF CacheIInv, AddAccepted, Adding
    <2> QED BY <1>1, <2>1 DEF CacheIInv, PurgedTokensGone, AddAccepted
  <1>2. CacheIInv => PurgedWritesDropped
    BY <1>1 DEF PurgedWritesDropped
  <1> QED BY <1>2, CacheInvariant, PTL
=============================================================================
