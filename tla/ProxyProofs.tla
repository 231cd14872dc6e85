---------------------------- MODULE ProxyProofs -----------------------------
(***************************************************************************)
(* Proofs about what is kept for one proxy: by istiod, the WorkloadEntry   *)
(* of a workload that registered itself and the state of its ADS stream;   *)
(* by its agent, the certificate.                                          *)
(***************************************************************************)
EXTENDS WorkloadEntries, AdsStream, SecretManager, Integers, FiniteSetTheorems, TLAPS

(***************************************************************************)
(* WorkloadEntries: the workload's connection is the newest; an entry      *)
(* records a connection that was made; and a version is given out once, so *)
(* that a copy with the version of the entry is the entry.                 *)
(***************************************************************************)
WleRecords == [rv : Nat, owner : Istiods, conAt : Nat, dis : BOOLEAN]

WleStages == {"new", "counted", "up", "unregister", "done"}

WleConns == [at : Istiods, stage : WleStages]

WleTypes ==
  /\ entry    \in WleRecords \cup {NoEntry}
  /\ cache    \in [Istiods -> WleRecords \cup {NoEntry}]
  /\ lastRv   \in Nat
  /\ conns    \in Seq(WleConns)
  /\ alive    \in {0, Len(conns)}
  /\ adsConns \in [Istiods -> Nat]

VersionKnown(e) == e # NoEntry => e.rv <= lastRv /\ e.conAt <= Len(conns)

VersionsOK ==
  /\ VersionKnown(entry)
  /\ \A i \in Istiods :
       /\ VersionKnown(cache[i])
       /\ entry # NoEntry /\ cache[i] # NoEntry /\ cache[i].rv = entry.rv => cache[i] = entry

WleIInv == WleTypes /\ VersionsOK /\ ConnectedEntryKept

(***************************************************************************)
(* A step that writes no entry and creates no connection.                  *)
(***************************************************************************)
LEMMA StageType ==
  ASSUME WleTypes, NEW c \in 1..Len(conns), NEW s \in WleStages, conns' = Stage(c, s)
  PROVE  /\ conns' \in Seq(WleConns) /\ Len(conns') = Len(conns)
         /\ conns'[c].stage = s
         /\ \A d \in 1..Len(conns) : d # c => conns'[d] = conns[d]
         /\ conns[c].at \in Istiods
  <1> DEFINE con == [conns[c] EXCEPT !.stage = s]
  <1>1. conns[c] \in WleConns
    BY DEF WleTypes
  <1>2. con \in WleConns /\ con.stage = s /\ conns[c].at \in Istiods
    BY <1>1 DEF WleConns
  <1>3. conns' = [conns EXCEPT ![c] = con]
    BY DEF Stage
  <1> HIDE DEF con
  <1> QED BY <1>1, <1>2, <1>3 DEF WleTypes

(***************************************************************************)
(* A write: the entry has a version that nobody has a copy of.             *)
(***************************************************************************)
LEMMA StoreOK ==
  ASSUME WleTypes, VersionsOK, NEW e \in WleRecords, Store(e), e.conAt <= Len(conns),
         UNCHANGED cache, Len(conns') = Len(conns)
  PROVE  /\ entry' \in WleRecords /\ entry' # NoEntry /\ entry'.conAt = e.conAt
         /\ lastRv' \in Nat /\ VersionsOK'
  <1> DEFINE w == [e EXCEPT !.rv = lastRv + 1]
  <1>1. entry' = w /\ lastRv' = lastRv + 1 /\ lastRv \in Nat /\ Len(conns) \in Nat
    BY DEF Store, WleTypes
  <1>2. lastRv' \in Nat /\ lastRv < lastRv' /\ lastRv <= lastRv'
    BY <1>1
  <1>3. w \in WleRecords /\ w.rv = lastRv' /\ w.conAt = e.conAt
    BY <1>1, <1>2 DEF WleRecords
  <1> HIDE DEF w
  <1>4. w # NoEntry
    BY <1>3, WleAssumption DEF WleRecords
  <1>5. VersionKnown(entry)'
    BY <1>1, <1>2, <1>3 DEF VersionKnown
  <1>6. ASSUME NEW i \in Istiods, cache[i] # NoEntry
        PROVE  cache'[i] # NoEntry => cache'[i].rv <= lastRv' /\ cache'[i].conAt <= Len(conns') /\ cache'[i].rv # lastRv'
    <2>1. cache[i].rv \in Nat /\ cache[i].rv <= lastRv /\ cache[i].conAt <= Len(conns)
      BY <1>6 DEF WleTypes, WleRecords, VersionsOK, VersionKnown
    <2> QED BY <1>1, <1>2, <2>1
  <1> QED BY <1>1, <1>2, <1>3, <1>4, <1>5, <1>6 DEF VersionsOK, VersionKnown

(***************************************************************************)
(* No workload has connected yet.                                          *)
(***************************************************************************)
LEMMA WleInitIInv == WleInit => WleIInv
  <1> SUFFICES ASSUME WleInit PROVE WleIInv
    OBVIOUS
  <1>1. conns = <<>> /\ Len(conns) = 0 /\ alive = 0 /\ entry = NoEntry /\ lastRv = 0
        /\ \A i \in Istiods : cache[i] = NoEntry
    BY DEF WleInit
  <1>2. WleTypes
    BY <1>1 DEF WleInit, WleTypes
  <1> QED BY <1>1, <1>2 DEF WleIInv, VersionsOK, VersionKnown, ConnectedEntryKept

(***************************************************************************)
(* The newest connection registers; an older one that does so after it is  *)
(* the case the property leaves out.                                       *)
(***************************************************************************)
LEMMA RegisterWorkloadIInv ==
  ASSUME WleIInv, NEW c \in 1..Len(conns), RegisterWorkload(c)
  PROVE  WleIInv'
  <1> DEFINE i == conns[c].at
             copy == cache[i]
  <1>1. UNCHANGED <<cache, running, adsConns, cleanups, crashes>> /\ conns[c].stage = "counted"
    BY DEF RegisterWorkload
  <1>2. WleTypes /\ VersionsOK /\ ConnectedEntryKept /\ Len(conns) \in Nat /\ c \in Nat /\ c > 0
    BY DEF WleIInv, WleTypes
  <1>3. i \in Istiods /\ copy \in WleRecords \cup {NoEntry} /\ (copy # NoEntry => copy.conAt <= Len(conns))
    <2>1. conns[c] \in WleConns
      BY <1>2 DEF WleTypes
    <2>2. i \in Istiods
      BY <2>1 DEF WleConns
    <2> QED BY <1>2, <2>2 DEF WleTypes, VersionsOK, VersionKnown
  <1> HIDE DEF i, copy
  <1>4. CASE /\ copy # NoEntry /\ c < copy.conAt
             /\ conns' = Stage(c, "up")
             /\ UNCHANGED <<entryVars, reordered, alive>>
    <2>1. /\ conns' \in Seq(WleConns) /\ Len(conns') = Len(conns)
          /\ \A d \in 1..Len(conns) : d # c => conns'[d] = conns[d]
      BY <1>2, <1>4, StageType DEF WleStages
    <2>2. copy.conAt \in Nat /\ c < Len(conns)
      BY <1>2, <1>3, <1>4 DEF WleRecords
    <2>3. alive # c
      BY <1>2, <2>2 DEF WleTypes
    <2>4. WleTypes' /\ VersionsOK'
      BY <1>1, <1>2, <1>4, <2>1 DEF WleTypes, VersionsOK, VersionKnown, entryVars
    <2>5. ConnectedEntryKept'
      BY <1>2, <1>4, <2>1, <2>3 DEF ConnectedEntryKept, WleTypes, entryVars
    <2> QED BY <2>4, <2>5 DEF WleIInv
  <1>5. CASE /\ copy # NoEntry /\ c >= copy.conAt /\ entry # NoEntry
             /\ Store(Patched(entry, copy, i, c))
             /\ reordered' = (reordered \/ c < entry.conAt)
             /\ conns' = Stage(c, "up")
             /\ UNCHANGED alive
    <2> DEFINE e == Patched(entry, copy, i, c)
    <2>1. e \in WleRecords /\ e.conAt = c
      BY <1>2, <1>3, <1>5 DEF WleTypes, WleRecords, Patched
    <2> HIDE DEF e
    <2>2. /\ conns' \in Seq(WleConns) /\ Len(conns') = Len(conns)
          /\ \A d \in 1..Len(conns) : d # c => conns'[d] = conns[d]
      BY <1>2, <1>5, StageType DEF WleStages
    <2>3. Store(e)
      BY <1>5 DEF e
    <2>4. /\ entry' \in WleRecords /\ entry' # NoEntry /\ entry'.conAt = c
          /\ lastRv' \in Nat /\ VersionsOK'
      BY <1>1, <1>2, <2>1, <2>2, <2>3, StoreOK
    <2>5. WleTypes'
      BY <1>1, <1>2, <1>5, <2>2, <2>4 DEF WleTypes
    <2>6. ConnectedEntryKept'
      <3>1. SUFFICES ASSUME alive # 0, conns'[alive].stage = "up", ~reordered, ~(c < entry.conAt), alive # c
                     PROVE  FALSE
        BY <1>5, <2>4 DEF ConnectedEntryKept
      <3>2. entry.conAt = alive /\ alive = Len(conns)
        BY <1>2, <2>2, <3>1 DEF ConnectedEntryKept, WleTypes
      <3> QED BY <1>2, <3>1, <3>2
    <2> QED BY <2>4, <2>5, <2>6 DEF WleIInv
  <1>6. CASE /\ copy = NoEntry /\ entry = NoEntry
             /\ Store([rv |-> 0, owner |-> i, conAt |-> c, dis |-> FALSE])
             /\ conns' = Stage(c, "up")
             /\ UNCHANGED <<reordered, alive>>
    <2> DEFINE e == [rv |-> 0, owner |-> i, conAt |-> c, dis |-> FALSE]
    <2>1. e \in WleRecords /\ e.conAt = c
      BY <1>2, <1>3 DEF WleRecords
    <2>2. Store(e)
      BY <1>6
    <2> HIDE DEF e
    <2>3. /\ conns' \in Seq(WleConns) /\ Len(conns') = Len(conns)
          /\ \A d \in 1..Len(conns) : d # c => conns'[d] = conns[d]
      BY <1>2, <1>6, StageType DEF WleStages
    <2>4. /\ entry' \in WleRecords /\ entry' # NoEntry /\ entry'.conAt = c
          /\ lastRv' \in Nat /\ VersionsOK'
      BY <1>1, <1>2, <2>1, <2>2, <2>3, StoreOK
    <2>5. WleTypes'
      BY <1>1, <1>2, <1>6, <2>3, <2>4 DEF WleTypes
    <2>6. ConnectedEntryKept'
      BY <1>2, <1>6, <2>3, <2>4 DEF ConnectedEntryKept, WleTypes
    <2> QED BY <2>4, <2>5, <2>6 DEF WleIInv
  <1>7. CASE /\ conns' = Stage(c, "done")
             /\ alive' = IF alive = c THEN 0 ELSE alive
             /\ UNCHANGED <<entryVars, reordered>>
    <2>1. /\ conns' \in Seq(WleConns) /\ Len(conns') = Len(conns)
          /\ \A d \in 1..Len(conns) : d # c => conns'[d] = conns[d]
      BY <1>2, <1>7, StageType DEF WleStages
    <2>2. WleTypes' /\ VersionsOK'
      BY <1>1, <1>2, <1>7, <2>1 DEF WleTypes, VersionsOK, VersionKnown, entryVars
    <2>3. ConnectedEntryKept'
      BY <1>2, <1>7, <2>1 DEF ConnectedEntryKept, WleTypes, entryVars
    <2> QED BY <2>2, <2>3 DEF WleIInv
  <1> QED BY <1>4, <1>5, <1>6, <1>7 DEF RegisterWorkload, i, copy

(***************************************************************************)
(* Of the other steps of a connection only unregisterWorkload writes, and  *)
(* what it marks disconnected is no newer than its own connection.         *)
(***************************************************************************)
LEMMA CountOrQueueIInv ==
  ASSUME WleIInv, NEW c \in 1..Len(conns), CountConnection(c) \/ QueueUnregisterWorkload(c)
  PROVE  WleIInv'
  <1>1. PICK s \in WleStages : conns' = Stage(c, s) /\ s # "up"
    BY DEF CountConnection, QueueUnregisterWorkload, WleStages
  <1>2. UNCHANGED <<entryVars, cache, alive, running, cleanups, crashes, reordered>> /\ WleTypes
    BY DEF CountConnection, QueueUnregisterWorkload, WleIInv
  <1>3. /\ conns' \in Seq(WleConns) /\ Len(conns') = Len(conns) /\ conns'[c].stage = s
        /\ \A d \in 1..Len(conns) : d # c => conns'[d] = conns[d]
        /\ conns[c].at \in Istiods
    BY <1>1, <1>2, StageType
  <1>4. adsConns' \in [Istiods -> Nat]
    <2>1. \A i \in Istiods : adsConns[i] \in Nat
      BY <1>2 DEF WleTypes
    <2>2. adsConns[conns[c].at] \in Nat
      BY <1>3, <2>1
    <2>3. PICK n \in Nat : adsConns' = [adsConns EXCEPT ![conns[c].at] = n]
      <3>1. CASE CountConnection(c)
        <4>1. adsConns[conns[c].at] + 1 \in Nat
          BY <2>2
        <4> QED BY <3>1, <4>1 DEF CountConnection
      <3>2. CASE QueueUnregisterWorkload(c)
        <4>1. (IF adsConns[conns[c].at] > 1 THEN adsConns[conns[c].at] - 1 ELSE 0) \in Nat
          BY <2>2
        <4> QED BY <3>2, <4>1 DEF QueueUnregisterWorkload
      <3> QED BY <3>1, <3>2
    <2> QED BY <1>2, <2>3 DEF WleTypes
  <1>5. WleTypes' /\ VersionsOK'
    BY <1>2, <1>3, <1>4 DEF WleIInv, WleTypes, VersionsOK, VersionKnown, entryVars
  <1>6. ConnectedEntryKept'
    BY <1>1, <1>2, <1>3 DEF WleIInv, WleTypes, ConnectedEntryKept, entryVars
  <1> QED BY <1>5, <1>6 DEF WleIInv

(***************************************************************************)
(* A connection that ends marks the entry as disconnected, unless a newer  *)
(* one has it.                                                             *)
(***************************************************************************)
LEMMA UnregisterWorkloadIInv ==
  ASSUME WleIInv, NEW c \in 1..Len(conns), UnregisterWorkload(c)
  PROVE  WleIInv'
  <1> DEFINE i == conns[c].at
             copy == cache[i]
  <1>1. /\ UNCHANGED <<cache, alive, running, adsConns, crashes, reordered>>
        /\ conns[c].stage = "unregister" /\ conns' = Stage(c, "done")
    BY DEF UnregisterWorkload
  <1>2. WleTypes /\ VersionsOK /\ ConnectedEntryKept /\ Len(conns) \in Nat
    BY DEF WleIInv, WleTypes
  <1>3. /\ conns' \in Seq(WleConns) /\ Len(conns') = Len(conns) /\ conns'[c].stage = "done"
        /\ \A d \in 1..Len(conns) : d # c => conns'[d] = conns[d]
    BY <1>1, <1>2, StageType DEF WleStages
  <1>4. CASE UNCHANGED entryVars
    <2>1. WleTypes' /\ VersionsOK'
      BY <1>1, <1>2, <1>3, <1>4 DEF WleTypes, VersionsOK, VersionKnown, entryVars
    <2>2. ConnectedEntryKept'
      BY <1>1, <1>2, <1>3, <1>4 DEF WleTypes, ConnectedEntryKept, entryVars
    <2> QED BY <2>1, <2>2 DEF WleIInv
  <1>5. CASE /\ copy # NoEntry /\ copy.conAt <= c /\ copy = entry
             /\ Store([copy EXCEPT !.conAt = 0, !.dis = TRUE])
    <2> DEFINE e == [copy EXCEPT !.conAt = 0, !.dis = TRUE]
    <2>1. copy \in WleRecords
      BY <1>2, <1>5 DEF WleTypes
    <2>2. Store(e)
      BY <1>5
    <2>3. e \in WleRecords /\ e.conAt = 0
      <3>1. \A r \in WleRecords : /\ [r EXCEPT !.conAt = 0, !.dis = TRUE] \in WleRecords
                                  /\ [r EXCEPT !.conAt = 0, !.dis = TRUE].conAt = 0
        BY DEF WleRecords
      <3> QED BY <2>1, <3>1, Zenon
    <2> HIDE DEF e
    <2>4. entry' \in WleRecords /\ lastRv' \in Nat /\ VersionsOK'
      <3>1. e.conAt <= Len(conns)
        BY <1>2, <2>3
      <3> QED BY <1>1, <1>2, <1>3, <2>2, <2>3, <3>1, StoreOK
    <2>5. WleTypes'
      BY <1>1, <1>2, <1>3, <2>4 DEF WleTypes
    <2>6. ConnectedEntryKept'
      <3>1. SUFFICES ASSUME alive # 0, conns'[alive].stage = "up", ~reordered PROVE FALSE
        BY <1>1 DEF ConnectedEntryKept
      <3>2. alive = Len(conns) /\ alive # c /\ entry.conAt = alive
        BY <1>2, <1>3, <3>1 DEF WleTypes, ConnectedEntryKept
      <3> QED BY <1>2, <1>5, <3>2
    <2> QED BY <2>4, <2>5, <2>6 DEF WleIInv
  <1> QED BY <1>4, <1>5 DEF UnregisterWorkload

(***************************************************************************)
(* The clean-ups delete the version they read, and spare the connected.    *)
(***************************************************************************)
LEMMA CleanupIInv ==
  ASSUME WleIInv, NEW i \in Istiods, CleanupTask(i) \/ PeriodicCleanup(i)
  PROVE  WleIInv'
  <1>1. /\ UNCHANGED <<lastRv, cache, conns, alive, adsConns, reordered>>
        /\ CleanupEntry(i) \/ entry' = entry
    BY DEF CleanupTask, PeriodicCleanup
  <1>2. CASE entry' = entry
    BY <1>1, <1>2 DEF WleIInv, WleTypes, VersionsOK, VersionKnown, ConnectedEntryKept
  <1>3. CASE CleanupEntry(i) /\ entry' # entry
    <2>1. /\ entry' = NoEntry /\ cache[i] # NoEntry /\ ShouldCleanupEntry(cache[i])
          /\ entry # NoEntry /\ entry.rv = cache[i].rv
      BY <1>3 DEF CleanupEntry, Deletes
    <2>2. cache[i] = entry /\ entry \in WleRecords
      BY <2>1 DEF WleIInv, WleTypes, VersionsOK
    <2>3. ~(alive # 0 /\ entry.conAt = alive)
      BY <2>1, <2>2 DEF ShouldCleanupEntry
    <2>4. WleTypes' /\ VersionsOK'
      BY <1>1, <2>1 DEF WleIInv, WleTypes, VersionsOK, VersionKnown
    <2>5. ConnectedEntryKept'
      BY <1>1, <2>3 DEF WleIInv, ConnectedEntryKept
    <2> QED BY <2>4, <2>5 DEF WleIInv
  <1> QED BY <1>1, <1>2, <1>3

(***************************************************************************)
(* The workload connects and leaves, the store tells the istiods, and an   *)
(* istiod may crash.                                                       *)
(***************************************************************************)
LEMMA WleEnvironmentIInv ==
  ASSUME WleIInv,
         \/ GoAway
         \/ \E i \in Istiods : Propagate(i) \/ WorkloadConnects(i) \/ Crash(i)
  PROVE  WleIInv'
  <1>1. WleTypes /\ VersionsOK /\ ConnectedEntryKept /\ Len(conns) \in Nat
    BY DEF WleIInv, WleTypes
  <1>2. CASE GoAway
    BY <1>1, <1>2 DEF GoAway, WleIInv, WleTypes, VersionsOK, VersionKnown, ConnectedEntryKept, entryVars
  <1>3. ASSUME NEW i \in Istiods, Propagate(i) PROVE WleIInv'
    <2>1. WleTypes' /\ cache' = [cache EXCEPT ![i] = entry] /\ UNCHANGED <<entry, lastRv, conns, alive, reordered>>
      BY <1>1, <1>3 DEF Propagate, WleTypes, entryVars
    <2>2. VersionsOK'
      BY <1>1, <2>1 DEF WleTypes, VersionsOK, VersionKnown
    <2> QED BY <1>1, <2>1, <2>2 DEF WleIInv, ConnectedEntryKept
  <1>4. ASSUME NEW i \in Istiods, WorkloadConnects(i) PROVE WleIInv'
    <2> DEFINE con == [at |-> i, stage |-> "new"]
    <2>1. con \in WleConns /\ con.stage = "new"
      BY DEF WleConns, WleStages
    <2>2. /\ conns' = Append(conns, con) /\ alive' = Len(conns) + 1
          /\ UNCHANGED <<entry, lastRv, cache, adsConns, reordered>>
      BY <1>4 DEF WorkloadConnects, entryVars
    <2> HIDE DEF con
    <2>3. /\ conns' \in Seq(WleConns) /\ Len(conns') = Len(conns) + 1
          /\ conns'[Len(conns) + 1] = con
      BY <1>1, <2>1, <2>2 DEF WleTypes
    <2>4. WleTypes'
      BY <1>1, <2>2, <2>3 DEF WleTypes
    <2>5. \A e \in WleRecords : e.conAt <= Len(conns) => e.conAt <= Len(conns')
      BY <1>1, <2>3 DEF WleRecords
    <2>6. VersionsOK'
      BY <1>1, <2>2, <2>5 DEF WleTypes, VersionsOK, VersionKnown
    <2>7. ConnectedEntryKept'
      BY <2>1, <2>2, <2>3 DEF ConnectedEntryKept
    <2> QED BY <2>4, <2>6, <2>7 DEF WleIInv
  <1>5. ASSUME NEW i \in Istiods, Crash(i) PROVE WleIInv'
    <2> DEFINE Left(c) == IF conns[c].at = i THEN [conns[c] EXCEPT !.stage = "done"] ELSE conns[c]
    <2>1. /\ conns' = [c \in 1..Len(conns) |-> Left(c)]
          /\ alive' = IF alive # 0 /\ conns[alive].at = i THEN 0 ELSE alive
          /\ adsConns' = [adsConns EXCEPT ![i] = 0] /\ cache' = [cache EXCEPT ![i] = entry]
          /\ UNCHANGED <<entry, lastRv, reordered>>
      BY <1>5 DEF Crash, entryVars
    <2>2. \A c \in 1..Len(conns) : Left(c) \in WleConns /\ (conns[c].at # i => Left(c) = conns[c])
      <3>1. SUFFICES ASSUME NEW c \in 1..Len(conns) PROVE Left(c) \in WleConns /\ (conns[c].at # i => Left(c) = conns[c])
        OBVIOUS
      <3>2. conns[c] \in WleConns
        BY <1>1 DEF WleTypes
      <3> QED BY <3>2 DEF WleConns, WleStages
    <2> HIDE DEF Left
    <2>3. conns' \in Seq(WleConns) /\ Len(conns') = Len(conns)
      BY <1>1, <2>1, <2>2, SMTT(40)
    <2>4. WleTypes'
      BY <1>1, <2>1, <2>3 DEF WleTypes
    <2>5. VersionsOK'
      BY <1>1, <2>1, <2>3 DEF WleTypes, VersionsOK, VersionKnown
    <2>6. ConnectedEntryKept'
      BY <1>1, <2>1, <2>2, <2>3 DEF WleTypes, ConnectedEntryKept
    <2> QED BY <2>4, <2>5, <2>6 DEF WleIInv
  <1> QED BY <1>2, <1>3, <1>4, <1>5

(***************************************************************************)
(* Every step keeps the invariant of the WorkloadEntry controllers.        *)
(***************************************************************************)
LEMMA WleNextIInv == WleIInv /\ [WleNext]_wleVars => WleIInv'
  <1> SUFFICES ASSUME WleIInv, [WleNext]_wleVars PROVE WleIInv'
    OBVIOUS
  <1>1. CASE \E c \in 1..Len(conns) : ConnectionStep(c)
    BY <1>1, CountOrQueueIInv, RegisterWorkloadIInv, UnregisterWorkloadIInv DEF ConnectionStep
  <1>2. CASE \E i \in Istiods : CleanupTask(i) \/ PeriodicCleanup(i)
    BY <1>2, CleanupIInv
  <1>3. CASE \/ GoAway
             \/ \E i \in Istiods : Propagate(i) \/ WorkloadConnects(i) \/ Crash(i)
    BY <1>3, WleEnvironmentIInv
  <1>4. CASE UNCHANGED wleVars
    BY <1>4 DEF wleVars, entryVars, WleIInv, WleTypes, VersionsOK, VersionKnown, ConnectedEntryKept
  <1> QED BY <1>1, <1>2, <1>3, <1>4 DEF WleNext

(***************************************************************************)
(* A registered workload that is connected keeps its WorkloadEntry, with   *)
(* that connection in it, for any number of istiods, connections, crashes  *)
(* and however far their caches lag (but for a late registration with a    *)
(* stale copy).                                                            *)
(***************************************************************************)
THEOREM ConnectedEntryAlwaysKept == WleSpec => []ConnectedEntryKept
  <1>1. WleIInv => ConnectedEntryKept
    BY DEF WleIInv
  <1> QED BY <1>1, WleInitIInv, WleNextIInv, PTL DEF WleSpec

-----------------------------------------------------------------------------
(***************************************************************************)
(* AdsStream.  Responses are numbered in the order they are sent; the last *)
(* response is the one the watch expects a reply to, and the nonce the     *)
(* proxy last got is the one before those under way.                       *)
(***************************************************************************)
LastOf(s) == s[Len(s)]

Received == nextNonce - Len(toClient)

NoncesOK ==
  /\ Len(toClient) <= nextNonce
  /\ \A k \in 1..Len(toClient) : toClient[k].nonce = Received + k
  /\ client.nonce \in IF Received = 0 THEN {0, ReconnectNonce} ELSE {Received}
  /\ watch.watching => watch.nonceSent = nextNonce /\ nextNonce > 0
  /\ watch.nonceAcked <= watch.nonceSent

(***************************************************************************)
(* The last request under way says what the proxy wants now and what it    *)
(* last got, so it is not stale once all responses have arrived.           *)
(***************************************************************************)
RequestsOK ==
  /\ toServer # <<>> => /\ LastOf(toServer).nonce = client.nonce
                        /\ LastOf(toServer).names = client.names
  /\ ~client.subscribed => toServer = <<>> /\ nextNonce = 0 /\ client.changes = 0
  /\ \A k \in 1..Len(toServer) :
       /\ toServer[k].nack => client.nacked /\ toServer[k].nonce # 0 /\ nextNonce > 0
       /\ client.changes = 0 => toServer[k].names = client.names
       /\ setup.wildcard => toServer[k].names = {}
  /\ setup.wildcard => client.names = {}

(***************************************************************************)
(* A type is watched for good, once it is watched, unless the proxy drops  *)
(* its names.                                                              *)
(***************************************************************************)
WatchOK ==
  /\ setup.wildcard \/ client.changes = 0 =>
       /\ ~panicked
       /\ nextNonce > 0 => watch.watching /\ (setup.wildcard \/ client.names # {})
  /\ ~client.nacked => ~panicked /\ watch.nonceNacked = 0

NothingUnderWay == toClient = <<>> /\ toServer = <<>>

(***************************************************************************)
(* With nothing under way the server knows the proxy's names and has its   *)
(* reply to the last response.                                             *)
(***************************************************************************)
Agrees ==
  NothingUnderWay =>
    /\ client.subscribed /\ ~client.nacked /\ (client.names # {} \/ setup.wildcard)
         => watch.watching /\ watch.names = client.names
    /\ watch.watching => Synced

(***************************************************************************)
(* The last response, received or not, is for the names watched, and no    *)
(* relevant change came after it or is waiting.                            *)
(***************************************************************************)
LastNames == IF toClient = <<>> THEN client.got ELSE LastOf(toClient).names
LastVer   == IF toClient = <<>> THEN client.ver ELSE LastOf(toClient).ver

Pending(r) == r # NoRequest /\ GeneratesSomething(r)

LastSentOK ==
  /\ changedAt <= ctx
  /\ owed # NoRequest => owed.push = ctx
  /\ watch.watching /\ ~client.nacked =>
       /\ LastNames = watch.names
       /\ LastVer >= changedAt \/ Pending(owed) \/ Pending(blocked)

BlockedOK ==
  blocked # NoRequest => setup.flowControl /\ watch.watching /\ ~Synced

FlowOK ==
  setup.flowControl /\ ~setup.timeouts /\ ~client.nacked /\ client.changes = 0 =>
    /\ Len(toClient) + Len(toServer) <= 1
    /\ watch.watching /\ ~NothingUnderWay => ~Synced

StreamIInv ==
  /\ StreamTypeOK /\ NoncesOK /\ RequestsOK /\ WatchOK /\ Agrees /\ LastSentOK /\ BlockedOK
  /\ FlowOK

-----------------------------------------------------------------------------
(***************************************************************************)
(* What is left of a sequence after its first element.                     *)
(***************************************************************************)
LEMMA TailFacts ==
  ASSUME NEW S, NEW s \in Seq(S), s # <<>>
  PROVE  /\ Tail(s) \in Seq(S) /\ Len(s) \in Nat /\ Len(s) > 0 /\ Len(Tail(s)) = Len(s) - 1
         /\ \A k \in 1..Len(s) - 1 : Tail(s)[k] = s[k + 1] /\ k + 1 \in 1..Len(s)
         /\ Head(s) = s[1] /\ s[1] \in S
         /\ Tail(s) = <<>> => Len(s) = 1
         /\ Tail(s) # <<>> => LastOf(Tail(s)) = LastOf(s)
  BY DEF LastOf

(***************************************************************************)
(* What a sequence is with one element more.                               *)
(***************************************************************************)
LEMMA AppendFacts ==
  ASSUME NEW S, NEW s \in Seq(S), NEW e \in S
  PROVE  /\ Append(s, e) \in Seq(S) /\ Len(s) \in Nat /\ Len(Append(s, e)) = Len(s) + 1
         /\ Append(s, e) # <<>> /\ LastOf(Append(s, e)) = e
         /\ \A k \in 1..Len(s) + 1 : IF k = Len(s) + 1 THEN Append(s, e)[k] = e
                                     ELSE k \in 1..Len(s) /\ Append(s, e)[k] = s[k]
  BY DEF LastOf

(***************************************************************************)
(* The types of the records, by name.                                      *)
(***************************************************************************)
Watches == [names : SUBSET Names, watching : BOOLEAN, nonceSent : 0..MaxNonce,
            nonceAcked : 0..MaxNonce, nonceNacked : Nonces]

Proxies == [subscribed : BOOLEAN, names : SUBSET Names, nonce : Nonces, ver : 0..MaxContexts,
            got : SUBSET Names, changes : 0..MaxNameChanges, nacked : BOOLEAN]

(***************************************************************************)
(* The bounds and the nonces are numbers.                                  *)
(***************************************************************************)
LEMMA StreamNat ==
  /\ MaxContexts \in Nat /\ MaxNonce \in Nat /\ MaxNameChanges \in Nat /\ MaxContexts > 0
  /\ ReconnectNonce \in Nat /\ 0 \in Nonces /\ ReconnectNonce \in Nonces
  /\ 0..MaxNonce \subseteq Nonces /\ 1..MaxNonce \subseteq Nonces /\ Nonces \subseteq Nat
  BY StreamAssumption DEF ReconnectNonce, Nonces

(***************************************************************************)
(* A type that is not watched has no nonces.                               *)
(***************************************************************************)
LEMMA NotWatchedFacts ==
  /\ NotWatched \in Watches /\ ~NotWatched.watching
  /\ NotWatched.nonceAcked = 0 /\ NotWatched.nonceSent = 0 /\ NotWatched.nonceNacked = 0
  BY StreamNat DEF NotWatched, Watches

(***************************************************************************)
(* The types of the variables, spelt out.                                  *)
(***************************************************************************)
LEMMA StreamTypes ==
  ASSUME StreamTypeOK
  PROVE  /\ setup \in Setups /\ watch \in Watches /\ client \in Proxies
         /\ setup.wildcard \in BOOLEAN /\ setup.flowControl \in BOOLEAN /\ setup.timeouts \in BOOLEAN
         /\ ctx \in 1..MaxContexts /\ ctx \in Nat /\ changedAt \in 1..MaxContexts /\ changedAt \in Nat
         /\ owed \in MaybeRequests /\ blocked \in MaybeRequests
         /\ nextNonce \in 0..MaxNonce /\ nextNonce \in Nat
         /\ toClient \in Seq(Responses) /\ Len(toClient) \in Nat
         /\ toServer \in Seq(RequestsUnderWay) /\ Len(toServer) \in Nat
         /\ panicked \in BOOLEAN
  <1>1. setup \in Setups /\ watch \in Watches /\ client \in Proxies
    BY DEF StreamTypeOK, Watches, Proxies
  <1>2. setup.wildcard \in BOOLEAN /\ setup.flowControl \in BOOLEAN /\ setup.timeouts \in BOOLEAN
    BY <1>1 DEF Setups
  <1>3. /\ ctx \in 1..MaxContexts /\ ctx \in Nat /\ changedAt \in 1..MaxContexts /\ changedAt \in Nat
        /\ nextNonce \in 0..MaxNonce /\ nextNonce \in Nat
        /\ toClient \in Seq(Responses) /\ Len(toClient) \in Nat
        /\ toServer \in Seq(RequestsUnderWay) /\ Len(toServer) \in Nat
    BY DEF StreamTypeOK
  <1> QED BY <1>1, <1>2, <1>3 DEF StreamTypeOK

(***************************************************************************)
(* The types of the fields.                                                *)
(***************************************************************************)
LEMMA RecordTypes ==
  /\ \A w \in Watches : /\ w.names \in SUBSET Names /\ w.watching \in BOOLEAN
                        /\ w.nonceSent \in 0..MaxNonce /\ w.nonceSent \in Nat
                        /\ w.nonceAcked \in 0..MaxNonce /\ w.nonceAcked \in Nat
                        /\ w.nonceNacked \in Nonces /\ w.nonceNacked \in Nat
  /\ \A c \in Proxies : /\ c.names \in SUBSET Names /\ c.got \in SUBSET Names
                        /\ c.nonce \in Nonces /\ c.nonce \in Nat /\ c.ver \in 0..MaxContexts
                        /\ c.ver \in Nat /\ c.changes \in 0..MaxNameChanges /\ c.changes \in Nat
                        /\ c.subscribed \in BOOLEAN /\ c.nacked \in BOOLEAN
  /\ \A m \in Responses : /\ m.nonce \in 1..MaxNonce /\ m.nonce \in Nat /\ m.nonce > 0
                          /\ m.ver \in 1..MaxContexts /\ m.ver \in Nat
                          /\ m.names \in SUBSET Names
  /\ \A q \in RequestsUnderWay : /\ q.nonce \in Nonces /\ q.nonce \in Nat
                                 /\ q.names \in SUBSET Names
                                 /\ q.nack \in BOOLEAN /\ q.reply \in BOOLEAN
  <1>1. \A n \in 0..MaxNonce : n \in Nat
    OBVIOUS
  <1>2. \A n \in 1..MaxNonce : n \in Nat /\ n > 0
    OBVIOUS
  <1>3. \A n \in 0..MaxContexts : n \in Nat
    OBVIOUS
  <1>4. \A n \in 1..MaxContexts : n \in Nat
    OBVIOUS
  <1>5. \A n \in 0..MaxNameChanges : n \in Nat
    OBVIOUS
  <1>6. \A n \in Nonces : n \in Nat
    BY DEF Nonces
  <1> QED BY <1>1, <1>2, <1>3, <1>4, <1>5, <1>6 DEF Watches, Proxies, Responses, RequestsUnderWay

(***************************************************************************)
(* The stream starts with nothing sent.                                    *)
(***************************************************************************)
LEMMA StreamInitIInv == StreamInit => StreamIInv
  <1> SUFFICES ASSUME StreamInit PROVE StreamIInv
    OBVIOUS
  <1>1. /\ setup \in Setups /\ ctx = 1 /\ changedAt = 1 /\ owed = NoRequest /\ watch = NotWatched
        /\ blocked = NoRequest /\ nextNonce = 0 /\ toClient = <<>> /\ toServer = <<>>
        /\ panicked = FALSE /\ Len(toClient) = 0 /\ Len(toServer) = 0
    BY DEF StreamInit
  <1>2. PICK n \in {0, ReconnectNonce} :
          client = [subscribed |-> FALSE, names |-> {}, nonce |-> n, ver |-> 0, got |-> {},
                    changes |-> 0, nacked |-> FALSE]
    BY DEF StreamInit
  <1>3. /\ client \in Proxies /\ client.nonce = n /\ ~client.subscribed /\ client.changes = 0
        /\ client.names = {} /\ ~client.nacked
    BY <1>2, StreamNat DEF Proxies
  <1>4. watch \in Watches /\ ~watch.watching /\ watch.nonceAcked = 0 /\ watch.nonceSent = 0 /\ watch.nonceNacked = 0
    BY <1>1, NotWatchedFacts
  <1>5. StreamTypeOK
    <2>1. ctx \in 1..MaxContexts /\ nextNonce \in 0..MaxNonce
      BY <1>1, StreamNat
    <2>2. toClient \in Seq(Responses) /\ toServer \in Seq(RequestsUnderWay)
      BY <1>1
    <2> QED BY <1>1, <1>3, <1>4, <2>1, <2>2 DEF StreamTypeOK, Watches, Proxies, MaybeRequests
  <1>6. NoncesOK
    <2>1. Received = 0
      <3>1. nextNonce = 0 /\ Len(toClient) = 0
        BY <1>1
      <3> QED BY <3>1 DEF Received
    <2>2. client.nonce \in IF Received = 0 THEN {0, ReconnectNonce} ELSE {Received}
      BY <1>3, <2>1
    <2>3. Len(toClient) <= nextNonce /\ \A k \in 1..Len(toClient) : toClient[k].nonce = Received + k
      BY <1>1
    <2> QED BY <1>1, <1>4, <2>2, <2>3 DEF NoncesOK
  <1>7. RequestsOK /\ WatchOK /\ Agrees /\ LastSentOK /\ BlockedOK /\ FlowOK
    BY <1>1, <1>3, <1>4 DEF RequestsOK, WatchOK, Agrees, LastSentOK, BlockedOK, FlowOK, NothingUnderWay
  <1> QED BY <1>5, <1>6, <1>7 DEF StreamIInv

-----------------------------------------------------------------------------
(***************************************************************************)
(* The server takes requests from the front and sends more responses.      *)
(***************************************************************************)
LEMMA RequestsKept ==
  ASSUME StreamIInv, client.subscribed, UNCHANGED <<setup, client>>,
         nextNonce' \in Nat, nextNonce <= nextNonce',
         toServer' = toServer \/ (toServer # <<>> /\ toServer' = Tail(toServer))
  PROVE  RequestsOK' /\ toServer' \in Seq(RequestsUnderWay)
  <1>1. StreamTypeOK /\ RequestsOK
    BY DEF StreamIInv
  <1>2. toServer \in Seq(RequestsUnderWay) /\ Len(toServer) \in Nat /\ nextNonce \in Nat
    BY <1>1, StreamTypes
  <1>3. nextNonce > 0 => nextNonce' > 0
    BY <1>2
  <1>4. CASE toServer' = toServer
    BY <1>1, <1>2, <1>3, <1>4, SMTT(40) DEF RequestsOK
  <1>5. CASE toServer # <<>> /\ toServer' = Tail(toServer)
    <2>1. /\ Tail(toServer) \in Seq(RequestsUnderWay) /\ Len(Tail(toServer)) = Len(toServer) - 1
          /\ \A k \in 1..Len(toServer) - 1 : Tail(toServer)[k] = toServer[k + 1] /\ k + 1 \in 1..Len(toServer)
          /\ Tail(toServer) # <<>> => LastOf(Tail(toServer)) = LastOf(toServer)
      BY <1>2, <1>5, TailFacts, SMTT(40)
    <2>2. \A k \in 1..Len(toServer') : \E l \in 1..Len(toServer) : toServer'[k] = toServer[l]
      BY <1>5, <2>1, ZenonT(60)
    <2>3. toServer' # <<>> => LastOf(toServer)' = LastOf(toServer)
      BY <1>5, <2>1 DEF LastOf
    <2>4. \A k \in 1..Len(toServer') :
            /\ toServer'[k].nack => client'.nacked /\ toServer'[k].nonce # 0 /\ nextNonce' > 0
            /\ client'.changes = 0 => toServer'[k].names = client'.names
            /\ setup'.wildcard => toServer'[k].names = {}
      BY <1>1, <1>3, <2>2, SMTT(40) DEF RequestsOK
    <2> QED BY <1>1, <1>5, <2>1, <2>3, <2>4 DEF RequestsOK
  <1> QED BY <1>4, <1>5

(***************************************************************************)
(* pushXds sends a response from the present context: it is the last one,  *)
(* carries all changes and waits for its reply.                            *)
(***************************************************************************)
LEMMA Sends ==
  ASSUME StreamIInv, NEW w \in Watches, NEW r, NEW v, v = ctx, PushXds(w, v, r),
         w.watching, w.nonceAcked <= nextNonce, GeneratesSomething(r),
         UNCHANGED <<setup, ctx, changedAt, client, panicked>>,
         ~panicked, client.subscribed,
         toServer' = toServer \/ (toServer # <<>> /\ toServer' = Tail(toServer)),
         owed' \in {owed, NoRequest},
         blocked' = NoRequest \/ (blocked' = blocked /\ w = watch),
         ~client.nacked => w.nonceNacked = 0,
         setup.wildcard \/ client.changes = 0 => setup.wildcard \/ client.names # {},
         setup.flowControl /\ ~setup.timeouts /\ ~client.nacked /\ client.changes = 0
           => Len(toClient) = 0 /\ Len(toServer') = 0
  PROVE  StreamIInv'
  <1> DEFINE m == [nonce |-> nextNonce + 1, ver |-> v, names |-> w.names]
             u == [w EXCEPT !.nonceSent = nextNonce + 1]
  <1>1. /\ nextNonce < MaxNonce /\ nextNonce' = nextNonce + 1
        /\ watch' = u /\ toClient' = Append(toClient, m)
    BY DEF PushXds
  <1>2. StreamTypeOK /\ NoncesOK /\ WatchOK /\ LastSentOK /\ BlockedOK
    BY DEF StreamIInv
  <1>3. /\ nextNonce \in Nat /\ Len(toClient) \in Nat /\ toClient \in Seq(Responses)
        /\ v \in 1..MaxContexts /\ v \in Nat /\ changedAt \in Nat
    BY <1>2, StreamTypes
  <1>4. nextNonce + 1 \in 1..MaxNonce /\ nextNonce + 1 \in 0..MaxNonce /\ nextNonce + 1 \in Nat
    BY <1>1, <1>3, StreamNat, SMTT(40)
  <1>5. w.names \in SUBSET Names /\ w.nonceAcked \in Nat
    BY RecordTypes
  <1>6. m \in Responses /\ m.nonce = nextNonce + 1 /\ m.ver = v /\ m.names = w.names
    BY <1>3, <1>4, <1>5 DEF Responses
  <1>7. /\ u \in Watches /\ u.watching /\ u.names = w.names /\ u.nonceSent = nextNonce + 1
        /\ u.nonceAcked = w.nonceAcked /\ u.nonceNacked = w.nonceNacked
    BY <1>4 DEF Watches
  <1> HIDE DEF m, u
  <1>8. /\ toClient' \in Seq(Responses) /\ Len(toClient') = Len(toClient) + 1
        /\ toClient' # <<>> /\ LastOf(toClient') = m
        /\ \A k \in 1..Len(toClient) + 1 : IF k = Len(toClient) + 1 THEN toClient'[k] = m
                                           ELSE k \in 1..Len(toClient) /\ toClient'[k] = toClient[k]
    BY <1>1, <1>3, <1>6, AppendFacts
  <1>9. RequestsOK' /\ toServer' \in Seq(RequestsUnderWay)
    BY <1>1, <1>3, <1>4, RequestsKept
  <1>10. StreamTypeOK'
    <2>1. owed' \in MaybeRequests /\ blocked' \in MaybeRequests
      BY <1>2 DEF StreamTypeOK, MaybeRequests
    <2> QED BY <1>1, <1>2, <1>4, <1>7, <1>8, <1>9, <2>1 DEF StreamTypeOK, Watches
  <1>11. NoncesOK'
    <2>1. Received' = Received /\ Received \in Int
      BY <1>1, <1>3, <1>8 DEF Received
    <2>2. Len(toClient') <= nextNonce'
      BY <1>1, <1>2, <1>3, <1>8 DEF NoncesOK
    <2>3. \A k \in 1..Len(toClient') : toClient'[k].nonce = Received + k
      <3>1. SUFFICES ASSUME NEW k \in 1..Len(toClient') PROVE toClient'[k].nonce = Received + k
        OBVIOUS
      <3>2. CASE k = Len(toClient) + 1
        BY <1>3, <1>6, <1>8, <3>2 DEF Received
      <3>3. CASE k # Len(toClient) + 1
        <4>1. k \in 1..Len(toClient) /\ toClient'[k] = toClient[k]
          BY <1>8, <3>1, <3>3
        <4> QED BY <1>2, <4>1 DEF NoncesOK
      <3> QED BY <3>2, <3>3
    <2>4. watch'.nonceSent = nextNonce' /\ nextNonce' > 0 /\ watch'.nonceAcked <= watch'.nonceSent
      BY <1>1, <1>3, <1>5, <1>7
    <2>5. client'.nonce \in IF Received' = 0 THEN {0, ReconnectNonce} ELSE {Received'}
      BY <1>2, <2>1 DEF NoncesOK
    <2> QED BY <2>1, <2>2, <2>3, <2>4, <2>5 DEF NoncesOK
  <1>12. WatchOK'
    BY <1>1, <1>2, <1>7 DEF WatchOK
  <1>13. Agrees'
    BY <1>8 DEF Agrees, NothingUnderWay
  <1>14. LastSentOK'
    <2>1. LastNames' = watch'.names /\ LastVer' = ctx
      BY <1>1, <1>6, <1>7, <1>8 DEF LastNames, LastVer
    <2> QED BY <1>2, <1>3, <2>1 DEF LastSentOK
  <1>15. u.nonceAcked # u.nonceSent
    BY <1>3, <1>5, <1>7
  <1>16. BlockedOK'
    BY <1>1, <1>2, <1>7, <1>15 DEF BlockedOK, Synced
  <1>17. FlowOK'
    BY <1>1, <1>7, <1>8, <1>15 DEF FlowOK, Synced
  <1> QED BY <1>9, <1>10, <1>11, <1>12, <1>13, <1>14, <1>16, <1>17 DEF StreamIInv

(***************************************************************************)
(* What shouldRespond makes of the first request: a NACK, an unsubscribe,  *)
(* a first request, a stale one or an ACK.                                 *)
(***************************************************************************)
LEMMA WatchAfterCases ==
  ASSUME StreamIInv, NEW q \in RequestsUnderWay, NEW w, w = WatchAfter(q)
  PROVE  \/ /\ q.nack /\ ~ShouldRespond(q)
            /\ w = [watch EXCEPT !.nonceNacked = q.nonce]
         \/ /\ ~q.nack /\ ShouldUnsubscribe(q) /\ ~ShouldRespond(q)
            /\ w = NotWatched
         \/ /\ ~q.nack /\ ~ShouldUnsubscribe(q) /\ ShouldRespond(q)
            /\ w = [NotWatched EXCEPT !.watching = TRUE, !.names = q.names]
         \/ /\ ~q.nack /\ ~ShouldUnsubscribe(q) /\ ~ShouldRespond(q) /\ watch.watching
            /\ q.nonce # watch.nonceSent
            /\ w = [watch EXCEPT !.nonceNacked = 0]
         \/ /\ ~q.nack /\ ~ShouldUnsubscribe(q) /\ watch.watching /\ q.nonce = watch.nonceSent
            /\ ShouldRespond(q) \/ q.names = watch.names
            /\ w = [watch EXCEPT !.nonceAcked = q.nonce, !.nonceNacked = 0, !.names = q.names]
  BY DEF WatchAfter, ShouldRespond, NewWatch

(***************************************************************************)
(* A NACK changes one field of the watch.                                  *)
(***************************************************************************)
LEMMA NackUpdate ==
  ASSUME NEW w \in Watches, NEW n \in Nonces, NEW u, u = [w EXCEPT !.nonceNacked = n]
  PROVE  /\ u \in Watches /\ u.watching = w.watching /\ u.names = w.names
         /\ u.nonceSent = w.nonceSent /\ u.nonceAcked = w.nonceAcked /\ u.nonceNacked = n
  BY SMTT(40) DEF Watches

(***************************************************************************)
(* What the proofs need of it.  The names are only taken over together     *)
(* with an answer, and once every response has arrived the last request is *)
(* not stale.                                                              *)
(***************************************************************************)
LEMMA WatchAfterFacts ==
  ASSUME StreamIInv, toServer # <<>>, NEW q, q = Head(toServer), NEW w, w = WatchAfter(q),
         ~(q.nack /\ ~watch.watching)
  PROVE  /\ w \in Watches /\ (w.watching => w.nonceAcked <= nextNonce)
         /\ ~ShouldRespond(q) => w.nonceAcked <= w.nonceSent
         /\ ~ShouldRespond(q) /\ w.watching =>
              watch.watching /\ w.names = watch.names /\ w.nonceSent = watch.nonceSent
         /\ ShouldRespond(q) => w.watching
         /\ ~client.nacked => w.nonceNacked = 0
         /\ (setup.wildcard \/ client.changes = 0) /\ (nextNonce > 0 \/ w.watching)
              => w.watching /\ (setup.wildcard \/ client.names # {})
         /\ toClient = <<>> /\ Len(toServer) = 1 /\ ~ShouldRespond(q) =>
              /\ ~client.nacked /\ (client.names # {} \/ setup.wildcard)
                   => w.watching /\ w.names = client.names
              /\ w.watching => w.nonceNacked # 0 \/ w.nonceAcked = w.nonceSent
  <1>1. StreamTypeOK /\ NoncesOK /\ RequestsOK /\ WatchOK
    BY DEF StreamIInv
  <1>2. /\ watch \in Watches /\ client \in Proxies /\ nextNonce \in Nat /\ Len(toClient) \in Nat
        /\ toServer \in Seq(RequestsUnderWay)
    BY <1>1, StreamTypes
  <1>3. q = toServer[1] /\ q \in RequestsUnderWay /\ Len(toServer) \in Nat /\ 1 \in 1..Len(toServer)
    BY <1>2, TailFacts
  <1>4. q.nonce \in Nonces /\ q.nonce \in Nat /\ q.names \in SUBSET Names
    BY <1>3, RecordTypes
  <1>5. /\ q.nack => client.nacked /\ q.nonce # 0 /\ nextNonce > 0
        /\ client.changes = 0 => q.names = client.names
        /\ setup.wildcard => q.names = {} /\ client.names = {}
    BY <1>1, <1>3 DEF RequestsOK
  <1>6. Len(toServer) = 1 => q.nonce = client.nonce /\ q.names = client.names
    BY <1>1, <1>3 DEF RequestsOK, LastOf
  <1>7. /\ watch.nonceAcked \in Nat /\ watch.nonceSent \in Nat /\ watch.nonceSent \in 0..MaxNonce
        /\ watch.nonceAcked <= watch.nonceSent
        /\ watch.watching => watch.nonceSent = nextNonce /\ nextNonce > 0
    BY <1>1, <1>2, RecordTypes DEF NoncesOK
  <1>8. toClient = <<>> /\ Len(toServer) = 1 /\ watch.watching => q.nonce = watch.nonceSent
    <2>1. SUFFICES ASSUME toClient = <<>>, Len(toServer) = 1, watch.watching
                   PROVE  q.nonce = watch.nonceSent
      OBVIOUS
    <2>2. Received = nextNonce /\ nextNonce > 0
      BY <1>2, <1>7, <2>1 DEF Received
    <2> QED BY <1>1, <1>2, <1>6, <1>7, <2>1, <2>2 DEF NoncesOK
  <1>9. (setup.wildcard \/ client.changes = 0) /\ nextNonce > 0 => watch.watching /\ (setup.wildcard \/ client.names # {})
    BY <1>1 DEF WatchOK
  <1>10. CASE /\ q.nack /\ ~ShouldRespond(q)
              /\ w = [watch EXCEPT !.nonceNacked = q.nonce]
    <2>1. /\ w \in Watches /\ w.watching = watch.watching /\ w.names = watch.names
          /\ w.nonceSent = watch.nonceSent /\ w.nonceAcked = watch.nonceAcked
          /\ w.nonceNacked = q.nonce
      BY <1>2, <1>4, <1>10, NackUpdate
    <2> QED BY <1>2, <1>5, <1>7, <1>9, <1>10, <2>1
  <1>11. CASE /\ ~q.nack /\ ShouldUnsubscribe(q) /\ ~ShouldRespond(q)
              /\ w = NotWatched
    <2>1. w \in Watches /\ ~w.watching /\ w.nonceAcked = 0 /\ w.nonceSent = 0 /\ w.nonceNacked = 0
      BY <1>11, NotWatchedFacts
    <2>2. ~setup.wildcard /\ q.names = {}
      BY <1>11 DEF ShouldUnsubscribe
    <2> QED BY <1>2, <1>5, <1>6, <1>9, <1>11, <2>1, <2>2
  <1>12. CASE /\ ~q.nack /\ ~ShouldUnsubscribe(q) /\ ShouldRespond(q)
              /\ w = [NotWatched EXCEPT !.watching = TRUE, !.names = q.names]
    <2>1. w \in Watches /\ w.watching /\ w.nonceAcked = 0 /\ w.nonceNacked = 0
      <3>1. w = [NotWatched EXCEPT !.watching = TRUE, !.names = q.names] /\ NotWatched \in Watches
        BY <1>12, NotWatchedFacts
      <3>2. w \in Watches /\ w.watching /\ w.nonceAcked = NotWatched.nonceAcked
            /\ w.nonceNacked = NotWatched.nonceNacked
        BY <1>4, <3>1 DEF Watches
      <3> QED BY <3>2, NotWatchedFacts
    <2>2. setup.wildcard \/ q.names # {}
      BY <1>12 DEF ShouldUnsubscribe
    <2> QED BY <1>2, <1>5, <1>12, <2>1, <2>2
  <1>13. CASE /\ ~q.nack /\ ~ShouldUnsubscribe(q) /\ ~ShouldRespond(q) /\ watch.watching
              /\ q.nonce # watch.nonceSent
              /\ w = [watch EXCEPT !.nonceNacked = 0]
    <2>1. /\ w \in Watches /\ w.watching = watch.watching /\ w.names = watch.names
          /\ w.nonceSent = watch.nonceSent /\ w.nonceAcked = watch.nonceAcked
          /\ w.nonceNacked = 0
      <3>1. w = [watch EXCEPT !.nonceNacked = 0] /\ 0 \in Nonces
        BY <1>13, StreamNat
      <3> QED BY <1>2, <3>1, NackUpdate
    <2> QED BY <1>2, <1>7, <1>8, <1>9, <1>13, <2>1
  <1>14. CASE /\ ~q.nack /\ ~ShouldUnsubscribe(q) /\ watch.watching /\ q.nonce = watch.nonceSent
              /\ ShouldRespond(q) \/ q.names = watch.names
              /\ w = [watch EXCEPT !.nonceAcked = q.nonce, !.nonceNacked = 0, !.names = q.names]
    <2>1. /\ w \in Watches /\ w.watching = watch.watching /\ w.names = q.names
          /\ w.nonceSent = watch.nonceSent /\ w.nonceAcked = q.nonce /\ w.nonceNacked = 0
      <3>1. /\ w = [watch EXCEPT !.nonceAcked = q.nonce, !.nonceNacked = 0, !.names = q.names]
            /\ q.nonce \in 0..MaxNonce
        BY <1>7, <1>14
      <3> QED BY <1>2, <1>4, <3>1, StreamNat DEF Watches
    <2>2. w.nonceAcked = w.nonceSent /\ w.nonceSent = nextNonce /\ nextNonce > 0 /\ w.watching
      BY <1>7, <1>14, <2>1
    <2>3. ShouldRespond(q) \/ w.names = watch.names
      BY <1>14, <2>1
    <2>4. Len(toServer) = 1 => w.names = client.names
      BY <1>6, <2>1
    <2> QED BY <1>2, <1>9, <1>14, <2>1, <2>2, <2>3, <2>4
  <1> QED BY <1>3, <1>10, <1>11, <1>12, <1>13, <1>14, WatchAfterCases

(***************************************************************************)
(* The server handles a request: an ACK, a NACK, a stale nonce, or a       *)
(* request for resources, which it answers at once.                        *)
(***************************************************************************)
LEMMA ProcessRequestIInv ==
  ASSUME StreamIInv, ProcessRequest
  PROVE  StreamIInv'
  <1>1. PICK q : q = Head(toServer)
    OBVIOUS
  <1>2. PICK w : w = WatchAfter(q)
    OBVIOUS
  <1>3. /\ ~panicked /\ toServer # <<>> /\ toServer' = Tail(toServer)
        /\ UNCHANGED <<setup, ctx, changedAt, owed, client>>
    BY DEF ProcessRequest
  <1>4. /\ StreamTypeOK /\ NoncesOK /\ RequestsOK /\ WatchOK /\ Agrees /\ LastSentOK /\ BlockedOK
        /\ FlowOK
    BY DEF StreamIInv
  <1>5. /\ watch \in Watches /\ client \in Proxies /\ nextNonce \in Nat /\ Len(toClient) \in Nat
        /\ toServer \in Seq(RequestsUnderWay) /\ ctx \in Nat
    BY <1>4, StreamTypes
  <1>6. /\ q \in RequestsUnderWay /\ q = toServer[1] /\ 1 \in 1..Len(toServer)
        /\ Len(toServer) \in Nat /\ Len(toServer) > 0 /\ Len(toServer') = Len(toServer) - 1
        /\ toServer' = <<>> => Len(toServer) = 1
    BY <1>1, <1>3, <1>5, TailFacts
  <1>7. client.subscribed
    BY <1>3, <1>4 DEF RequestsOK
  <1>8. q.nack => client.nacked /\ nextNonce > 0
    BY <1>4, <1>6 DEF RequestsOK
  <1>9. CASE q.nack /\ ~watch.watching
    <2>1. panicked' = TRUE /\ UNCHANGED <<watch, blocked, nextNonce, toClient>>
      BY <1>1, <1>9 DEF ProcessRequest
    <2>2. RequestsOK' /\ toServer' \in Seq(RequestsUnderWay)
      BY <1>3, <1>5, <1>7, <2>1, RequestsKept
    <2>3. StreamTypeOK'
      <3>1. panicked' \in BOOLEAN
        BY <2>1
      <3> QED BY <1>3, <1>4, <2>1, <2>2, <3>1 DEF StreamTypeOK
    <2>4. NoncesOK' /\ LastSentOK' /\ BlockedOK'
      BY <1>3, <1>4, <1>9, <2>1 DEF NoncesOK, Received, LastSentOK, BlockedOK
    <2>5. client.nacked /\ nextNonce > 0
      BY <1>8, <1>9
    <2>6. WatchOK'
      <3>1. ~(setup.wildcard \/ client.changes = 0)
        BY <1>4, <1>9, <2>5 DEF WatchOK
      <3> QED BY <1>3, <2>5, <3>1 DEF WatchOK
    <2>7. Agrees' /\ FlowOK'
      BY <1>3, <1>9, <2>1, <2>5 DEF Agrees, FlowOK
    <2> QED BY <2>2, <2>3, <2>4, <2>6, <2>7 DEF StreamIInv
  <1>10. CASE ~(q.nack /\ ~watch.watching)
    <2>1. /\ blocked' = NoRequest /\ panicked' = panicked
          /\ IF ShouldRespond(q)
             THEN PushXds(w, ctx, [full |-> TRUE, push |-> 0, configs |-> {}])
             ELSE IF blocked # NoRequest
             THEN PushXds(w, ctx, blocked)
             ELSE watch' = w /\ UNCHANGED <<nextNonce, toClient>>
      BY <1>1, <1>2, <1>10 DEF ProcessRequest
    <2>2. /\ w \in Watches /\ (w.watching => w.nonceAcked <= nextNonce)
          /\ ~ShouldRespond(q) => w.nonceAcked <= w.nonceSent
          /\ ~ShouldRespond(q) /\ w.watching =>
               watch.watching /\ w.names = watch.names /\ w.nonceSent = watch.nonceSent
          /\ ShouldRespond(q) => w.watching
          /\ ~client.nacked => w.nonceNacked = 0
          /\ (setup.wildcard \/ client.changes = 0) /\ (nextNonce > 0 \/ w.watching)
               => w.watching /\ (setup.wildcard \/ client.names # {})
          /\ toClient = <<>> /\ Len(toServer) = 1 /\ ~ShouldRespond(q) =>
               /\ ~client.nacked /\ (client.names # {} \/ setup.wildcard)
                    => w.watching /\ w.names = client.names
               /\ w.watching => w.nonceNacked # 0 \/ w.nonceAcked = w.nonceSent
      BY <1>1, <1>2, <1>3, <1>10, WatchAfterFacts
    <2>3. PICK v : v = ctx
      OBVIOUS
    <2>4. setup.flowControl /\ ~setup.timeouts /\ ~client.nacked /\ client.changes = 0
            => Len(toClient) = 0 /\ Len(toServer') = 0
      BY <1>4, <1>5, <1>6 DEF FlowOK
    <2>5. owed' \in {owed, NoRequest}
      BY <1>3
    <2>6. ASSUME NEW r, PushXds(w, v, r), w.watching, GeneratesSomething(r) PROVE StreamIInv'
      BY <1>3, <1>7, <2>1, <2>2, <2>3, <2>4, <2>5, <2>6, Sends
    <2>7. ASSUME ~ShouldRespond(q), watch' = w, UNCHANGED <<nextNonce, toClient>>,
                 w.watching => ~Pending(blocked)
          PROVE  StreamIInv'
      <3>1. RequestsOK' /\ toServer' \in Seq(RequestsUnderWay)
        BY <1>3, <1>5, <1>7, <2>7, RequestsKept
      <3>2. StreamTypeOK'
        <4>1. blocked' \in MaybeRequests
          BY <2>1 DEF MaybeRequests
        <4> QED BY <1>3, <1>4, <2>1, <2>2, <2>7, <3>1, <4>1 DEF StreamTypeOK, Watches
      <3>3. NoncesOK'
        BY <1>3, <1>4, <2>2, <2>7 DEF NoncesOK, Received
      <3>4. WatchOK'
        BY <1>3, <1>4, <2>1, <2>2, <2>7 DEF WatchOK
      <3>5. Agrees'
        BY <1>3, <1>6, <2>2, <2>7 DEF Agrees, NothingUnderWay, Synced
      <3>6. LastSentOK'
        <4>1. LastNames' = LastNames /\ LastVer' = LastVer /\ Pending(owed)' = Pending(owed)
          BY <1>3, <2>7 DEF LastNames, LastVer, LastOf, Pending, GeneratesSomething
        <4> QED BY <1>3, <1>4, <2>2, <2>7, <4>1 DEF LastSentOK
      <3>7. BlockedOK'
        BY <2>1 DEF BlockedOK
      <3>8. FlowOK'
        <4>1. Len(toClient) = 0 /\ Len(toServer') = 0 => NothingUnderWay'
          BY <1>4, <2>7, <3>1, StreamTypes DEF NothingUnderWay
        <4> QED BY <1>3, <2>4, <2>7, <4>1 DEF FlowOK
      <3> QED BY <3>1, <3>2, <3>3, <3>4, <3>5, <3>6, <3>7, <3>8 DEF StreamIInv
    <2>8. CASE ShouldRespond(q)
      <3> DEFINE r == [full |-> TRUE, push |-> 0, configs |-> {}]
      <3>1. PushXds(w, v, r) /\ GeneratesSomething(r) /\ w.watching
        BY <2>1, <2>2, <2>3, <2>8 DEF GeneratesSomething
      <3> QED BY <2>6, <3>1
    <2>9. CASE ~ShouldRespond(q) /\ blocked # NoRequest
      <3>1. PICK r : r = blocked
        OBVIOUS
      <3>2. PushXds(w, v, r)
        BY <2>1, <2>3, <2>9, <3>1
      <3>3. CASE w.watching /\ GeneratesSomething(r)
        BY <2>6, <3>2, <3>3
      <3>4. CASE ~(w.watching /\ GeneratesSomething(r))
        <4>1. watch' = w /\ UNCHANGED <<nextNonce, toClient>>
          BY <3>2, <3>4 DEF PushXds
        <4> QED BY <2>7, <2>9, <3>1, <3>4, <4>1 DEF Pending
      <3> QED BY <3>3, <3>4
    <2>10. CASE ~ShouldRespond(q) /\ blocked = NoRequest
      BY <2>1, <2>7, <2>10 DEF Pending
    <2> QED BY <2>8, <2>9, <2>10
  <1> QED BY <1>9, <1>10

(***************************************************************************)
(* Merging keeps what a request is about, and the later context.           *)
(***************************************************************************)
LEMMA MergePending ==
  ASSUME NEW a \in MaybeRequests, NEW b \in Requests
  PROVE  /\ Merge(a, b) \in Requests /\ Merge(a, b) # NoRequest /\ Merge(a, b).push = b.push
         /\ Pending(a) \/ Pending(b) => Pending(Merge(a, b))
  <1>1. b # NoRequest
    BY RequestAssumption
  <1>2. CASE a = NoRequest
    BY <1>1, <1>2 DEF Merge, Pending
  <1>3. CASE a # NoRequest
    <2>1. a \in Requests
      BY <1>3 DEF MaybeRequests
    <2>2. Merge(a, b) = [full |-> a.full \/ b.full, push |-> b.push,
                         configs |-> IF a.configs # {} /\ b.configs # {}
                                     THEN a.configs \cup b.configs ELSE {}]
      BY <1>1, <1>3 DEF Merge
    <2>3. Merge(a, b) \in Requests
      BY <2>1, <2>2 DEF Requests
    <2>4. Merge(a, b) # NoRequest
      BY <2>3, RequestAssumption
    <2>5. /\ Merge(a, b).push = b.push
          /\ Merge(a, b).configs = IF a.configs # {} /\ b.configs # {}
                                   THEN a.configs \cup b.configs ELSE {}
      BY <2>2
    <2>6. GeneratesSomething(a) \/ GeneratesSomething(b) => GeneratesSomething(Merge(a, b))
      BY <2>5 DEF GeneratesSomething
    <2> QED BY <2>3, <2>4, <2>5, <2>6 DEF Pending
  <1> QED BY <1>2, <1>3

(***************************************************************************)
(* The server pushes what it owes, or holds it back while the proxy has    *)
(* not acknowledged the last response.                                     *)
(***************************************************************************)
LEMMA PushConnectionIInv ==
  ASSUME StreamIInv, PushConnection
  PROVE  StreamIInv'
  <1>1. /\ ~panicked /\ owed # NoRequest /\ owed' = NoRequest
        /\ UNCHANGED <<setup, ctx, changedAt, toServer, client, panicked>>
    BY DEF PushConnection
  <1>2. /\ StreamTypeOK /\ NoncesOK /\ RequestsOK /\ WatchOK /\ Agrees /\ LastSentOK /\ BlockedOK
        /\ FlowOK
    BY DEF StreamIInv
  <1>3. /\ watch \in Watches /\ client \in Proxies /\ nextNonce \in Nat /\ Len(toClient) \in Nat
        /\ Len(toServer) \in Nat /\ ctx \in Nat /\ owed \in MaybeRequests /\ blocked \in MaybeRequests
        /\ toClient \in Seq(Responses) /\ toServer \in Seq(RequestsUnderWay)
    BY <1>2, StreamTypes
  <1>4. PICK r : r = owed
    OBVIOUS
  <1>5. r \in Requests /\ r # NoRequest /\ r.push = ctx
    BY <1>1, <1>2, <1>3, <1>4 DEF MaybeRequests, LastSentOK
  <1>6. owed' \in MaybeRequests /\ ~Pending(owed)'
    BY <1>1 DEF MaybeRequests, Pending
  <1>7. ASSUME \/ ~watch.watching \/ ~setup.flowControl \/ Synced \/ setup.timeouts,
               PushXds(watch, owed.push, owed), blocked' = blocked
        PROVE  StreamIInv'
    <2>1. PICK v : v = ctx
      OBVIOUS
    <2>2. PICK w : w = watch
      OBVIOUS
    <2>3. PushXds(w, v, r)
      BY <1>4, <1>5, <1>7, <2>1, <2>2
    <2>4. CASE w.watching /\ GeneratesSomething(r)
      <3>1. nextNonce > 0 /\ w.nonceAcked <= nextNonce
        BY <1>2, <2>2, <2>4 DEF NoncesOK
      <3>2. client.subscribed
        BY <1>2, <1>3, <3>1 DEF RequestsOK
      <3>3. /\ ~client.nacked => w.nonceNacked = 0
            /\ setup.wildcard \/ client.changes = 0 => setup.wildcard \/ client.names # {}
        BY <1>2, <2>2, <3>1 DEF WatchOK
      <3>4. setup.flowControl /\ ~setup.timeouts /\ ~client.nacked /\ client.changes = 0
              => Len(toClient) = 0 /\ Len(toServer') = 0
        <4>1. SUFFICES ASSUME setup.flowControl, ~setup.timeouts, ~client.nacked, client.changes = 0
                       PROVE  Len(toClient) = 0 /\ Len(toServer) = 0
          BY <1>1
        <4>2. NothingUnderWay
          BY <1>2, <1>7, <2>2, <2>4, <4>1 DEF FlowOK
        <4> QED BY <4>2 DEF NothingUnderWay
      <3>5. w \in Watches /\ owed' \in {owed, NoRequest} /\ (blocked' = blocked /\ w = watch)
        BY <1>1, <1>3, <1>7, <2>2
      <3> QED BY <1>1, <2>1, <2>3, <2>4, <3>1, <3>2, <3>3, <3>4, <3>5, Sends
    <2>5. CASE ~(w.watching /\ GeneratesSomething(r))
      <3>1. watch' = watch /\ UNCHANGED <<nextNonce, toClient>>
        BY <2>2, <2>3, <2>5 DEF PushXds
      <3>2. StreamTypeOK'
        BY <1>1, <1>2, <1>6, <1>7, <3>1 DEF StreamTypeOK
      <3>3. NoncesOK' /\ RequestsOK' /\ WatchOK' /\ Agrees' /\ BlockedOK' /\ FlowOK'
        BY <1>1, <1>2, <1>7, <3>1
           DEF NoncesOK, Received, RequestsOK, LastOf, WatchOK, Agrees, NothingUnderWay, Synced,
               BlockedOK, FlowOK
      <3>4. LastSentOK'
        <4>1. LastNames' = LastNames /\ LastVer' = LastVer /\ Pending(blocked)' = Pending(blocked)
          BY <1>1, <1>7, <3>1 DEF LastNames, LastVer, LastOf, Pending, GeneratesSomething
        <4>2. watch.watching => ~Pending(owed)
          BY <1>4, <2>2, <2>5 DEF Pending
        <4> QED BY <1>1, <1>2, <3>1, <4>1, <4>2 DEF LastSentOK
      <3> QED BY <3>2, <3>3, <3>4 DEF StreamIInv
    <2> QED BY <2>4, <2>5
  <1>8. ASSUME watch.watching, setup.flowControl, ~Synced, blocked' = Merge(blocked, owed),
               UNCHANGED <<watch, nextNonce, toClient>>
        PROVE  StreamIInv'
    <2>1. PICK b : b = Merge(blocked, owed)
      OBVIOUS
    <2>2. b \in Requests /\ b # NoRequest /\ (Pending(blocked) \/ Pending(owed) => Pending(b))
      BY <1>3, <1>4, <1>5, <2>1, MergePending
    <2>3. blocked' = b /\ blocked' \in MaybeRequests
      BY <1>8, <2>1, <2>2 DEF MaybeRequests
    <2>4. StreamTypeOK'
      BY <1>1, <1>2, <1>6, <1>8, <2>3 DEF StreamTypeOK
    <2>5. NoncesOK' /\ RequestsOK' /\ WatchOK' /\ Agrees' /\ BlockedOK' /\ FlowOK'
      BY <1>1, <1>2, <1>8
         DEF NoncesOK, Received, RequestsOK, LastOf, WatchOK, Agrees, NothingUnderWay, Synced,
             BlockedOK, FlowOK
    <2>6. LastSentOK'
      <3>1. /\ LastNames' = LastNames /\ LastVer' = LastVer
            /\ Pending(blocked) \/ Pending(owed) => Pending(blocked)'
        BY <1>1, <1>8, <2>2, <2>3 DEF LastNames, LastVer, LastOf, Pending, GeneratesSomething
      <3> QED BY <1>1, <1>2, <1>8, <3>1 DEF LastSentOK
    <2> QED BY <2>4, <2>5, <2>6 DEF StreamIInv
  <1> QED BY <1>7, <1>8 DEF PushConnection

(***************************************************************************)
(* A new push context is owed to the stream.                               *)
(***************************************************************************)
LEMMA PublishIInv ==
  ASSUME StreamIInv, NEW ks \in SUBSET Configs, Publish(ks)
  PROVE  StreamIInv'
  <1> DEFINE n == [full |-> TRUE, push |-> ctx + 1, configs |-> ks]
  <1>1. /\ ctx < MaxContexts /\ ctx' = ctx + 1
        /\ changedAt' = IF ks = {} \/ ks \cap Relevant # {} THEN ctx + 1 ELSE changedAt
        /\ owed' = Merge(owed, n)
        /\ UNCHANGED <<setup, watch, blocked, nextNonce, panicked, toClient, toServer, client>>
    BY DEF Publish, serverVars
  <1>2. /\ StreamTypeOK /\ NoncesOK /\ RequestsOK /\ WatchOK /\ Agrees /\ LastSentOK /\ BlockedOK
        /\ FlowOK
    BY DEF StreamIInv
  <1>3. ctx \in Nat /\ changedAt \in Nat /\ changedAt \in 1..MaxContexts /\ owed \in MaybeRequests
    BY <1>2, StreamTypes
  <1>4. ctx + 1 \in 1..MaxContexts /\ ctx + 1 \in 0..MaxContexts /\ ctx + 1 \in Nat
    BY <1>1, <1>3, StreamNat
  <1>5. n \in Requests /\ n.push = ctx + 1 /\ n.configs = ks
    BY <1>4, StreamAssumption DEF Requests
  <1>6. PICK c : c = n
    OBVIOUS
  <1>7. PICK o : o = Merge(owed, c)
    OBVIOUS
  <1>8. /\ o \in Requests /\ o # NoRequest /\ o.push = ctx + 1
        /\ Pending(owed) \/ Pending(c) => Pending(o)
    BY <1>3, <1>5, <1>6, <1>7, MergePending
  <1>9. owed' = o /\ o \in MaybeRequests
    BY <1>1, <1>6, <1>7, <1>8 DEF MaybeRequests
  <1>10. changedAt' # changedAt => Pending(c)
    BY <1>1, <1>5, <1>6, RequestAssumption DEF Pending, GeneratesSomething
  <1> HIDE DEF n
  <1>11. changedAt' \in 1..MaxContexts /\ changedAt' <= ctx'
    BY <1>1, <1>2, <1>3, <1>4 DEF LastSentOK
  <1>12. StreamTypeOK'
    BY <1>1, <1>2, <1>4, <1>9, <1>11 DEF StreamTypeOK
  <1>13. NoncesOK' /\ RequestsOK' /\ WatchOK' /\ Agrees' /\ BlockedOK' /\ FlowOK'
    BY <1>1, <1>2
       DEF NoncesOK, Received, RequestsOK, LastOf, WatchOK, Agrees, NothingUnderWay, Synced,
           BlockedOK, FlowOK
  <1>14. LastSentOK'
    <2>1. /\ LastNames' = LastNames /\ LastVer' = LastVer
          /\ Pending(blocked)' = Pending(blocked) /\ (Pending(owed) \/ Pending(c) => Pending(owed)')
      BY <1>1, <1>8, <1>9 DEF LastNames, LastVer, LastOf, Pending, GeneratesSomething
    <2>2. owed' # NoRequest => owed'.push = ctx'
      BY <1>1, <1>8, <1>9
    <2> QED BY <1>1, <1>2, <1>10, <1>11, <2>1, <2>2 DEF LastSentOK
  <1> QED BY <1>12, <1>13, <1>14 DEF StreamIInv

(***************************************************************************)
(* The proxy sends a request with the names it wants now.                  *)
(***************************************************************************)
LEMMA ClientAsksIInv ==
  ASSUME StreamIInv, NEW names \in NameLists, Subscribe(names) \/ ChangeNames(names)
  PROVE  StreamIInv'
  <1> DEFINE e == Request(client.nonce, names, FALSE, FALSE)
  <1>1. /\ toServer' = Append(toServer, e)
        /\ UNCHANGED <<setup, ctx, changedAt, owed, watch, blocked, nextNonce, panicked, toClient>>
    BY DEF Subscribe, ChangeNames, serverVars
  <1>2. /\ StreamTypeOK /\ NoncesOK /\ RequestsOK /\ WatchOK /\ Agrees /\ LastSentOK /\ BlockedOK
        /\ FlowOK
    BY DEF StreamIInv
  <1>3. /\ watch \in Watches /\ client \in Proxies /\ nextNonce \in Nat /\ Len(toClient) \in Nat
        /\ toClient \in Seq(Responses) /\ toServer \in Seq(RequestsUnderWay) /\ Len(toServer) \in Nat
    BY <1>2, StreamTypes
  <1>4. names \in SUBSET Names /\ (setup.wildcard => names = {})
    BY DEF NameLists
  <1>5. client.nonce \in Nonces /\ client.changes \in Nat
    BY <1>3, RecordTypes
  <1>6. /\ e \in RequestsUnderWay /\ e.nonce = client.nonce /\ e.names = names /\ ~e.nack
    BY <1>4, <1>5 DEF Request, RequestsUnderWay
  <1> HIDE DEF e
  <1>7. /\ toServer' \in Seq(RequestsUnderWay) /\ Len(toServer') = Len(toServer) + 1
        /\ toServer' # <<>> /\ LastOf(toServer)' = e
        /\ \A k \in 1..Len(toServer) + 1 : IF k = Len(toServer) + 1 THEN toServer'[k] = e
                                           ELSE k \in 1..Len(toServer) /\ toServer'[k] = toServer[k]
    BY <1>1, <1>3, <1>6, AppendFacts DEF LastOf
  <1>8. PICK n \in 0..MaxNameChanges :
          /\ client' = [client EXCEPT !.subscribed = TRUE, !.names = names, !.changes = n]
          /\ \/ ~client.subscribed /\ n = client.changes
             \/ names # client.names /\ n = client.changes + 1
    <2>1. CASE Subscribe(names)
      <3>1. client' = [client EXCEPT !.subscribed = TRUE, !.names = names] /\ ~client.subscribed
        BY <2>1 DEF Subscribe
      <3>2. client' = [client EXCEPT !.subscribed = TRUE, !.names = names, !.changes = client.changes]
        BY <1>3, <3>1 DEF Proxies
      <3> QED BY <1>3, <3>1, <3>2, RecordTypes
    <2>2. CASE ChangeNames(names)
      <3>1. /\ client' = [client EXCEPT !.names = names, !.changes = client.changes + 1]
            /\ client.subscribed = TRUE /\ names # client.names /\ client.changes < MaxNameChanges
        <4>1. client.subscribed
          BY <2>2 DEF ChangeNames
        <4>2. client.subscribed \in BOOLEAN
          BY <1>3, RecordTypes
        <4> QED BY <2>2, <4>1, <4>2 DEF ChangeNames
      <3>2. client' = [client EXCEPT !.subscribed = TRUE, !.names = names, !.changes = client.changes + 1]
        BY <1>3, <3>1 DEF Proxies
      <3>3. client.changes + 1 \in 0..MaxNameChanges
        BY <1>5, <3>1, StreamNat
      <3> QED BY <3>1, <3>2, <3>3
    <2> QED BY <2>1, <2>2
  <1>9. /\ client' \in Proxies /\ client'.subscribed /\ client'.names = names /\ client'.changes = n
        /\ client'.nonce = client.nonce /\ client'.ver = client.ver /\ client'.got = client.got
        /\ client'.nacked = client.nacked
    BY <1>3, <1>4, <1>8 DEF Proxies
  <1>10. StreamTypeOK'
    BY <1>1, <1>2, <1>7, <1>9 DEF StreamTypeOK, Proxies
  <1>11. NoncesOK'
    BY <1>1, <1>2, <1>9 DEF NoncesOK, Received
  <1>12. /\ n = 0 => ~client.subscribed /\ toServer = <<>> /\ nextNonce = 0
         /\ setup.wildcard => ~client.subscribed /\ toServer = <<>> /\ nextNonce = 0
    <2>1. n = 0 => ~client.subscribed
      BY <1>5, <1>8
    <2>2. setup.wildcard => client.names = {}
      BY <1>2 DEF RequestsOK
    <2>3. setup.wildcard => ~client.subscribed
      BY <1>4, <1>8, <2>2
    <2>4. ~client.subscribed => toServer = <<>> /\ nextNonce = 0
      BY <1>2 DEF RequestsOK
    <2> QED BY <2>1, <2>3, <2>4
  <1>13. RequestsOK'
    <2>1. \A k \in 1..Len(toServer') :
            /\ toServer'[k].nack => client'.nacked /\ toServer'[k].nonce # 0 /\ nextNonce' > 0
            /\ client'.changes = 0 => toServer'[k].names = client'.names
            /\ setup'.wildcard => toServer'[k].names = {}
      <3>1. SUFFICES ASSUME NEW k \in 1..Len(toServer')
                     PROVE  /\ toServer'[k].nack => client'.nacked /\ toServer'[k].nonce # 0 /\ nextNonce' > 0
                            /\ client'.changes = 0 => toServer'[k].names = client'.names
                            /\ setup'.wildcard => toServer'[k].names = {}
        OBVIOUS
      <3>2. CASE toServer'[k] = e
        BY <1>1, <1>4, <1>6, <1>9, <3>2
      <3>3. CASE k \in 1..Len(toServer) /\ toServer'[k] = toServer[k]
        <4>1. toServer # <<>>
          BY <1>3, <3>3
        <4> QED BY <1>1, <1>2, <1>9, <1>12, <3>3, <4>1 DEF RequestsOK
      <3> QED BY <1>7, <3>2, <3>3
    <2> QED BY <1>1, <1>4, <1>6, <1>7, <1>9, <2>1 DEF RequestsOK
  <1>14. WatchOK'
    <2>1. nextNonce = 0 => ~watch.watching
      BY <1>2 DEF NoncesOK
    <2>2. ~client.subscribed => ~panicked
      BY <1>2 DEF WatchOK, RequestsOK
    <2>3. ~client.nacked => ~panicked /\ watch.nonceNacked = 0
      BY <1>2 DEF WatchOK
    <2> QED BY <1>1, <1>3, <1>9, <1>12, <2>1, <2>2, <2>3 DEF WatchOK
  <1>15. Agrees'
    BY <1>7 DEF Agrees, NothingUnderWay
  <1>16. LastSentOK' /\ BlockedOK'
    <2>1. /\ LastNames' = LastNames /\ LastVer' = LastVer
          /\ Pending(blocked)' = Pending(blocked) /\ Pending(owed)' = Pending(owed)
      BY <1>1, <1>9 DEF LastNames, LastVer, LastOf, Pending, GeneratesSomething
    <2> QED BY <1>1, <1>2, <1>9, <2>1 DEF LastSentOK, BlockedOK, Synced
  <1>17. FlowOK'
    <2>1. SUFFICES ASSUME n = 0 PROVE FlowOK'
      BY <1>9 DEF FlowOK
    <2>2. toServer = <<>> /\ nextNonce = 0 /\ ~watch.watching
      BY <1>2, <1>12, <2>1 DEF NoncesOK
    <2>3. Len(toServer) = 0 /\ Len(toClient) = 0
      BY <1>2, <1>3, <2>2 DEF NoncesOK
    <2> QED BY <1>1, <1>7, <2>2, <2>3 DEF FlowOK
  <1> QED BY <1>10, <1>11, <1>13, <1>14, <1>15, <1>16, <1>17 DEF StreamIInv

(***************************************************************************)
(* The proxy acknowledges or rejects a response.                           *)
(***************************************************************************)
LEMMA ReplyIInv ==
  ASSUME StreamIInv, NEW nack \in BOOLEAN, Reply(nack)
  PROVE  StreamIInv'
  <1>1. PICK m : m = Head(toClient)
    OBVIOUS
  <1> DEFINE e == Request(m.nonce, client.names, nack, TRUE)
  <1>2. /\ toClient # <<>> /\ toClient' = Tail(toClient) /\ toServer' = Append(toServer, e)
        /\ client' = IF nack THEN [client EXCEPT !.nonce = m.nonce, !.nacked = TRUE]
                     ELSE [client EXCEPT !.nonce = m.nonce, !.ver = m.ver, !.got = m.names]
        /\ UNCHANGED <<setup, ctx, changedAt, owed, watch, blocked, nextNonce, panicked>>
    BY <1>1 DEF Reply, serverVars
  <1>3. /\ StreamTypeOK /\ NoncesOK /\ RequestsOK /\ WatchOK /\ Agrees /\ LastSentOK /\ BlockedOK
        /\ FlowOK
    BY DEF StreamIInv
  <1>4. /\ watch \in Watches /\ client \in Proxies /\ nextNonce \in Nat /\ Len(toClient) \in Nat
        /\ toClient \in Seq(Responses) /\ toServer \in Seq(RequestsUnderWay) /\ Len(toServer) \in Nat
    BY <1>3, StreamTypes
  <1>5. /\ m = toClient[1] /\ m \in Responses /\ 1 \in 1..Len(toClient) /\ Len(toClient) > 0
        /\ toClient' \in Seq(Responses) /\ Len(toClient') = Len(toClient) - 1
        /\ \A k \in 1..Len(toClient) - 1 : toClient'[k] = toClient[k + 1] /\ k + 1 \in 1..Len(toClient)
        /\ toClient' = <<>> => Len(toClient) = 1
        /\ toClient' # <<>> => LastOf(toClient)' = LastOf(toClient)
    BY <1>1, <1>2, <1>4, TailFacts DEF LastOf
  <1>6. /\ m.nonce \in Nonces /\ m.nonce > 0 /\ m.nonce \in Nat /\ m.ver \in 0..MaxContexts
        /\ m.names \in SUBSET Names /\ client.names \in SUBSET Names
    <2>1. \A v \in 1..MaxContexts : v \in 0..MaxContexts
      OBVIOUS
    <2> QED BY <1>4, <1>5, <2>1, RecordTypes, StreamNat
  <1>7. /\ e \in RequestsUnderWay /\ e.nonce = m.nonce /\ e.names = client.names /\ e.nack = nack
    BY <1>6 DEF Request, RequestsUnderWay
  <1> HIDE DEF e
  <1>8. /\ toServer' \in Seq(RequestsUnderWay) /\ Len(toServer') = Len(toServer) + 1
        /\ toServer' # <<>> /\ LastOf(toServer)' = e
        /\ \A k \in 1..Len(toServer) + 1 : IF k = Len(toServer) + 1 THEN toServer'[k] = e
                                           ELSE k \in 1..Len(toServer) /\ toServer'[k] = toServer[k]
    BY <1>2, <1>4, <1>7, AppendFacts DEF LastOf
  <1>9. /\ client' \in Proxies /\ client'.nonce = m.nonce /\ client'.names = client.names
        /\ client'.subscribed = client.subscribed /\ client'.changes = client.changes
        /\ client'.nacked = (client.nacked \/ nack)
        /\ ~nack => client'.ver = m.ver /\ client'.got = m.names
    <2>1. CASE nack
      <3>1. client' = [client EXCEPT !.nonce = m.nonce, !.nacked = TRUE]
        BY <1>2, <2>1
      <3> QED BY <1>4, <1>6, <2>1, <3>1 DEF Proxies
    <2>2. CASE ~nack
      <3>1. client' = [client EXCEPT !.nonce = m.nonce, !.ver = m.ver, !.got = m.names]
        BY <1>2, <2>2
      <3> QED BY <1>4, <1>6, <2>2, <3>1 DEF Proxies
    <2> QED BY <2>1, <2>2
  <1>10. StreamTypeOK'
    BY <1>2, <1>3, <1>5, <1>8, <1>9 DEF StreamTypeOK, Proxies
  <1>11. nextNonce > 0 /\ client.subscribed
    BY <1>3, <1>4, <1>5 DEF NoncesOK, RequestsOK
  <1>12. NoncesOK'
    <2>1. Received' = Received + 1 /\ Received \in Nat
      BY <1>2, <1>3, <1>4, <1>5 DEF NoncesOK, Received
    <2>2. m.nonce = Received + 1
      BY <1>3, <1>5 DEF NoncesOK
    <2>3. \A k \in 1..Len(toClient') : toClient'[k].nonce = Received' + k
      <3>1. SUFFICES ASSUME NEW k \in 1..Len(toClient') PROVE toClient'[k].nonce = Received' + k
        OBVIOUS
      <3>2. toClient'[k] = toClient[k + 1] /\ k + 1 \in 1..Len(toClient)
        BY <1>5, <3>1
      <3>3. toClient[k + 1].nonce = Received + (k + 1)
        BY <1>3, <3>2 DEF NoncesOK
      <3> QED BY <2>1, <3>2, <3>3
    <2>4. Len(toClient') <= nextNonce'
      BY <1>2, <1>3, <1>4, <1>5 DEF NoncesOK
    <2>5. client'.nonce \in IF Received' = 0 THEN {0, ReconnectNonce} ELSE {Received'}
      BY <1>9, <2>1, <2>2
    <2> QED BY <1>2, <1>3, <2>3, <2>4, <2>5 DEF NoncesOK
  <1>13. RequestsOK'
    <2>1. \A k \in 1..Len(toServer') :
            /\ toServer'[k].nack => client'.nacked /\ toServer'[k].nonce # 0 /\ nextNonce' > 0
            /\ client'.changes = 0 => toServer'[k].names = client'.names
            /\ setup'.wildcard => toServer'[k].names = {}
      <3>1. SUFFICES ASSUME NEW k \in 1..Len(toServer')
                     PROVE  /\ toServer'[k].nack => client'.nacked /\ toServer'[k].nonce # 0 /\ nextNonce' > 0
                            /\ client'.changes = 0 => toServer'[k].names = client'.names
                            /\ setup'.wildcard => toServer'[k].names = {}
        OBVIOUS
      <3>2. CASE toServer'[k] = e
        BY <1>2, <1>3, <1>6, <1>7, <1>9, <1>11, <3>2 DEF RequestsOK
      <3>3. CASE k \in 1..Len(toServer) /\ toServer'[k] = toServer[k]
        BY <1>2, <1>3, <1>9, <3>3 DEF RequestsOK
      <3> QED BY <1>8, <3>2, <3>3
    <2> QED BY <1>2, <1>3, <1>7, <1>8, <1>9, <1>11, <2>1 DEF RequestsOK
  <1>14. WatchOK'
    BY <1>2, <1>3, <1>9 DEF WatchOK
  <1>15. Agrees'
    BY <1>8 DEF Agrees, NothingUnderWay
  <1>16. LastSentOK'
    <2>1. SUFFICES ASSUME ~client.nacked, ~nack, watch.watching
                   PROVE  /\ LastNames' = watch.names
                          /\ LastVer' >= changedAt \/ Pending(owed)' \/ Pending(blocked)'
      BY <1>2, <1>3, <1>9 DEF LastSentOK
    <2>2. LastNames' = LastNames /\ LastVer' = LastVer
      <3>1. CASE toClient' = <<>>
        BY <1>2, <1>5, <1>9, <2>1, <3>1 DEF LastNames, LastVer, LastOf
      <3>2. CASE toClient' # <<>>
        BY <1>2, <1>5, <3>2 DEF LastNames, LastVer
      <3> QED BY <3>1, <3>2
    <2>3. Pending(blocked)' = Pending(blocked) /\ Pending(owed)' = Pending(owed)
      BY <1>2 DEF Pending, GeneratesSomething
    <2> QED BY <1>3, <2>1, <2>2, <2>3 DEF LastSentOK
  <1>17. BlockedOK'
    BY <1>2, <1>3 DEF BlockedOK, Synced
  <1>18. FlowOK'
    BY <1>2, <1>3, <1>4, <1>5, <1>8, <1>9 DEF FlowOK, NothingUnderWay, Synced
  <1> QED BY <1>10, <1>12, <1>13, <1>14, <1>15, <1>16, <1>17, <1>18 DEF StreamIInv

(***************************************************************************)
(* Every step keeps the invariant of the stream.                           *)
(***************************************************************************)
LEMMA StreamNextIInv == StreamIInv /\ [StreamNext]_streamVars => StreamIInv'
  <1> SUFFICES ASSUME StreamIInv, [StreamNext]_streamVars PROVE StreamIInv'
    OBVIOUS
  <1>1. CASE \E ks \in SUBSET Configs : Publish(ks)
    BY <1>1, PublishIInv
  <1>2. CASE ProcessRequest
    BY <1>2, ProcessRequestIInv
  <1>3. CASE PushConnection
    BY <1>3, PushConnectionIInv
  <1>4. CASE \E names \in NameLists : Subscribe(names) \/ ChangeNames(names)
    BY <1>4, ClientAsksIInv
  <1>5. CASE \E nack \in BOOLEAN : Reply(nack)
    BY <1>5, ReplyIInv
  <1>6. CASE UNCHANGED streamVars
    <2>1. UNCHANGED <<setup, ctx, changedAt, owed, watch, blocked, nextNonce, toClient, toServer,
                      client, panicked>>
      BY <1>6 DEF streamVars
    <2>2. StreamTypeOK' /\ NoncesOK' /\ RequestsOK' /\ WatchOK' /\ Agrees'
      BY <2>1 DEF StreamIInv, StreamTypeOK, NoncesOK, Received, RequestsOK, LastOf, WatchOK, Agrees,
                  NothingUnderWay, Synced
    <2>3. LastSentOK' /\ BlockedOK' /\ FlowOK'
      BY <2>1 DEF StreamIInv, LastSentOK, LastNames, LastVer, LastOf, Pending, GeneratesSomething,
                  BlockedOK, FlowOK, NothingUnderWay, Synced
    <2> QED BY <2>2, <2>3 DEF StreamIInv
  <1> QED BY <1>1, <1>2, <1>3, <1>4, <1>5, <1>6 DEF StreamNext

(***************************************************************************)
(* The inductive invariant of the stream, on which the theorems rest.      *)
(***************************************************************************)
LEMMA StreamInvariant == StreamSpec => []StreamIInv
  BY StreamInitIInv, StreamNextIInv, PTL DEF StreamSpec

(***************************************************************************)
(* The variables of the stream keep their types.                           *)
(***************************************************************************)
THEOREM StreamTypeCorrect == StreamSpec => []StreamTypeOK
  <1>1. StreamIInv => StreamTypeOK
    BY DEF StreamIInv
  <1> QED BY <1>1, StreamInvariant, PTL

(***************************************************************************)
(* With nothing under way a proxy that accepts what it is sent has what it *)
(* asked for, as of the last relevant change, for any names, any number of *)
(* pushes and any interleaving of requests, pushes and replies; and the    *)
(* server panics only after the proxy dropped all names of the type.       *)
(***************************************************************************)
THEOREM StreamAlwaysConverges == StreamSpec => []Converges
  <1>1. StreamIInv => Converges
    <2>1. SUFFICES ASSUME StreamIInv PROVE Converges
      OBVIOUS
    <2>2. StreamTypeOK /\ WatchOK /\ Agrees /\ LastSentOK /\ BlockedOK
      BY <2>1 DEF StreamIInv
    <2>3. client.changes \in Nat
      BY <2>2, StreamTypes, RecordTypes
    <2>4. panicked => ~setup.wildcard /\ client.changes > 0
      BY <2>2, <2>3 DEF WatchOK
    <2>5. ASSUME StreamQuiet, ~client.nacked
          PROVE  /\ watch.watching /\ watch.names = client.names /\ client.got = client.names
                 /\ client.ver >= changedAt
      <3>1. watch.watching /\ watch.names = client.names /\ Synced
        BY <2>2, <2>5 DEF Agrees, StreamQuiet, NothingUnderWay
      <3>2. blocked = NoRequest /\ owed = NoRequest /\ toClient = <<>>
        BY <2>2, <2>5, <3>1 DEF BlockedOK, StreamQuiet
      <3> QED BY <2>2, <2>5, <3>1, <3>2 DEF LastSentOK, LastNames, LastVer, Pending
    <2> QED BY <2>4, <2>5 DEF Converges
  <1> QED BY <1>1, StreamInvariant, PTL

(***************************************************************************)
(* A push that flow control blocked always has a request or a response     *)
(* under way that will release it.                                         *)
(***************************************************************************)
THEOREM BlockedPushAlwaysReleased == StreamSpec => []BlockedPushReleased
  <1>1. StreamIInv => BlockedPushReleased
    BY DEF StreamIInv, BlockedOK, Agrees, NothingUnderWay, Synced, BlockedPushReleased
  <1> QED BY <1>1, StreamInvariant, PTL

(***************************************************************************)
(* With flow control (and no timeout, rejection or change of names) there  *)
(* is never more than one response without its reply.                      *)
(***************************************************************************)
THEOREM AlwaysOneOutstanding == StreamSpec => []OneOutstanding
  <1>1. StreamIInv => OneOutstanding
    <2>1. SUFFICES ASSUME StreamIInv, setup.flowControl, ~setup.timeouts, ~client.nacked,
                          client.changes = 0
                   PROVE  Outstanding <= 1
      BY DEF OneOutstanding
    <2> DEFINE R == {i \in 1..Len(toServer) : toServer[i].reply}
    <2>2. Len(toClient) \in Nat /\ Len(toServer) \in Nat /\ Len(toClient) + Len(toServer) <= 1
      BY <2>1, StreamTypes DEF StreamIInv, FlowOK
    <2>3. IsFiniteSet(1..Len(toServer)) /\ Cardinality(1..Len(toServer)) = Len(toServer)
      <3>1. 1 \in Int /\ Len(toServer) \in Int
        BY <2>2
      <3>2. /\ IsFiniteSet(1..Len(toServer))
            /\ Cardinality(1..Len(toServer)) = IF 1 > Len(toServer) THEN 0 ELSE Len(toServer) - 1 + 1
        BY <3>1, FS_Interval
      <3> QED BY <2>2, <3>2
    <2>4. Cardinality(R) \in Nat /\ Cardinality(R) <= Len(toServer)
      <3>1. R \subseteq 1..Len(toServer)
        OBVIOUS
      <3>2. IsFiniteSet(R) /\ Cardinality(R) <= Cardinality(1..Len(toServer))
        BY <2>3, <3>1, FS_Subset
      <3> QED BY <2>3, <3>2, FS_CardinalityType
    <2> HIDE DEF R
    <2>5. Outstanding = Len(toClient) + Cardinality(R)
      BY DEF Outstanding, R
    <2> QED BY <2>2, <2>4, <2>5
  <1> QED BY <1>1, StreamInvariant, PTL

-----------------------------------------------------------------------------
(***************************************************************************)
(* SecretManager: no certificate in use escapes rotation, for any number   *)
(* of SDS streams.                                                         *)
(* generateMutex: one stream at a time asks the CA, and only while nothing *)
(* is cached, so that the certificate it gets will be cached and rotated.  *)
(***************************************************************************)
AtCA(s) == stream[s].pc \in {"csr", "register"}

StreamRecords == [pc : {"idle", "lock", "csr", "register"},
                  wantCert : BOOLEAN, wantRoot : BOOLEAN, cert : Nat, root : Nat]

SecretTypeOK ==
  /\ workload \in Nat /\ root \in Nat /\ caRoot \in Nat /\ serial \in Nat
  /\ rotating \in BOOLEAN
  /\ stream \in [SdsStreams -> StreamRecords]

GenerateMutexHeld ==
  /\ \A s, t \in SdsStreams : AtCA(s) /\ AtCA(t) => s = t
  /\ \A s \in SdsStreams : AtCA(s) => workload = 0
  /\ \A s \in SdsStreams : stream[s].pc = "register" => serial # 0

SecretInv == SecretTypeOK /\ GenerateMutexHeld /\ RotationCoversAll

-----------------------------------------------------------------------------
(***************************************************************************)
(* The agent starts without a certificate.                                 *)
(***************************************************************************)
LEMMA SecretInitInv == SecretInit => SecretInv
<1> SUFFICES ASSUME SecretInit PROVE SecretInv
  OBVIOUS
<1>1. SecretTypeOK
  BY DEF SecretInit, SecretTypeOK, StreamRecords
<1>2. GenerateMutexHeld
  BY DEF SecretInit, GenerateMutexHeld, AtCA
<1>3. RotationCoversAll
  BY DEF SecretInit, RotationCoversAll
<1> QED BY <1>1, <1>2, <1>3 DEF SecretInv

(***************************************************************************)
(* Steps of one SDS stream.                                                *)
(***************************************************************************)
LEMMA GenerateStep ==
  ASSUME SecretInv, NEW s \in SdsStreams, GenerateSecret(s) \/ GenerateRoot(s)
  PROVE  SecretInv'
<1> USE DEF SecretInv
<1>1. CASE GenerateSecret(s)
  <2>1. SecretTypeOK'
    <3>1. CASE workload = 0
      BY <1>1, <3>1 DEF GenerateSecret, SecretTypeOK, StreamRecords
    <3>2. CASE workload # 0
      <4>1. [stream[s] EXCEPT !.wantCert = FALSE, !.pc = "idle", !.cert = workload]
              \in StreamRecords
        BY DEF SecretTypeOK, StreamRecords
      <4>2. stream' = [stream EXCEPT ![s] =
              [stream[s] EXCEPT !.wantCert = FALSE, !.pc = "idle", !.cert = workload]]
        BY <1>1, <3>2 DEF GenerateSecret, SecretTypeOK
      <4>3. stream' \in [SdsStreams -> StreamRecords]
        BY <4>1, <4>2 DEF SecretTypeOK
      <4>4. UNCHANGED <<workload, root, caRoot, serial, rotating>>
        BY <1>1 DEF GenerateSecret
      <4> QED BY <4>3, <4>4, Zenon DEF SecretTypeOK
    <3> QED BY <3>1, <3>2
  <2>2. GenerateMutexHeld'
    BY <1>1 DEF GenerateSecret, SecretTypeOK, StreamRecords, GenerateMutexHeld, AtCA
  <2>3. RotationCoversAll'
    BY <1>1 DEF GenerateSecret, SecretTypeOK, StreamRecords, RotationCoversAll
  <2> QED BY <2>1, <2>2, <2>3
<1>2. CASE GenerateRoot(s)
  <2>1. SecretTypeOK'
    BY <1>2, ZenonT(60) DEF GenerateRoot, SecretTypeOK, StreamRecords
  <2>2. GenerateMutexHeld'
    BY <1>2 DEF GenerateRoot, SecretTypeOK, StreamRecords, GenerateMutexHeld, AtCA
  <2>3. RotationCoversAll'
    BY <1>2 DEF GenerateRoot, SecretTypeOK, StreamRecords, RotationCoversAll
  <2> QED BY <2>1, <2>2, <2>3
<1> QED BY <1>1, <1>2

(***************************************************************************)
(* A stream gets the mutex.                                                *)
(***************************************************************************)
LEMMA LockStep ==
  ASSUME SecretInv, NEW s \in SdsStreams, LockMutex(s)
  PROVE  SecretInv'
<1> USE DEF SecretInv
<1>1. SecretTypeOK'
  BY ZenonT(60) DEF LockMutex, Got, SecretTypeOK, StreamRecords
<1>2. GenerateMutexHeld'
  BY DEF LockMutex, MutexFree, Got, SecretTypeOK, StreamRecords, GenerateMutexHeld, AtCA
<1>3. RotationCoversAll'
  BY DEF LockMutex, Got, SecretTypeOK, StreamRecords, RotationCoversAll
<1> QED BY <1>1, <1>2, <1>3

(***************************************************************************)
(* The CA signs, or fails.                                                 *)
(***************************************************************************)
LEMMA SignStep ==
  ASSUME SecretInv, NEW s \in SdsStreams, CSRSign(s) \/ CSRFails(s)
  PROVE  SecretInv'
<1> USE DEF SecretInv
<1>1. CASE CSRSign(s)
  <2>1. SecretTypeOK'
    <3>1. CASE root = caRoot
      BY <1>1, <3>1 DEF CSRSign, SecretTypeOK, StreamRecords
    <3>2. CASE root # caRoot
      <4> DEFINE st == [stream EXCEPT ![s].pc = "register"]
      <4>1. st \in [SdsStreams -> StreamRecords]
        BY DEF SecretTypeOK, StreamRecords
      <4>2. \A t \in SdsStreams : [st[t] EXCEPT !.wantRoot = TRUE] \in StreamRecords
        <5> HIDE DEF st
        <5> QED BY <4>1 DEF StreamRecords
      <4>3. stream' = [t \in SdsStreams |-> [st[t] EXCEPT !.wantRoot = TRUE]]
        BY <1>1, <3>2 DEF CSRSign, NotifyRoot
      <4>4. stream' \in [SdsStreams -> StreamRecords]
        <5> HIDE DEF st
        <5> QED BY <4>2, <4>3
      <4>5. root' \in Nat /\ serial' \in Nat /\ UNCHANGED <<workload, caRoot, rotating>>
        BY <1>1 DEF CSRSign, SecretTypeOK
      <4> QED BY <4>4, <4>5, Zenon DEF SecretTypeOK
    <3> QED BY <3>1, <3>2
  <2>2. GenerateMutexHeld'
    BY <1>1 DEF CSRSign, NotifyRoot, SecretTypeOK, StreamRecords, GenerateMutexHeld, AtCA
  <2>3. RotationCoversAll'
    BY <1>1 DEF CSRSign, NotifyRoot, SecretTypeOK, StreamRecords, RotationCoversAll
  <2> QED BY <2>1, <2>2, <2>3
<1>2. CASE CSRFails(s)
  <2>1. SecretTypeOK'
    BY <1>2, ZenonT(60) DEF CSRFails, SecretTypeOK, StreamRecords
  <2>2. GenerateMutexHeld'
    BY <1>2 DEF CSRFails, SecretTypeOK, StreamRecords, GenerateMutexHeld, AtCA
  <2>3. RotationCoversAll'
    BY <1>2 DEF CSRFails, SecretTypeOK, StreamRecords, RotationCoversAll
  <2> QED BY <2>1, <2>2, <2>3
<1> QED BY <1>1, <1>2

(***************************************************************************)
(* The certificate just signed is cached, since the cache is empty, and    *)
(* gets the only rotation task.                                            *)
(***************************************************************************)
LEMMA RegisterStep ==
  ASSUME SecretInv, NEW s \in SdsStreams, RegisterSecret(s)
  PROVE  SecretInv'
<1> USE DEF SecretInv
<1>1. workload = 0 /\ serial # 0
  BY DEF RegisterSecret, GenerateMutexHeld, AtCA
<1>2. SecretTypeOK'
  BY ZenonT(60) DEF RegisterSecret, Got, SecretTypeOK, StreamRecords
<1>3. GenerateMutexHeld'
  BY DEF RegisterSecret, Got, SecretTypeOK, StreamRecords, GenerateMutexHeld, AtCA
<1>4. RotationCoversAll'
  BY <1>1 DEF RegisterSecret, Got, SecretTypeOK, StreamRecords, RotationCoversAll
<1> QED BY <1>2, <1>3, <1>4

(***************************************************************************)
(* The rotation task and the CA.                                           *)
(***************************************************************************)
LEMMA RotateStep ==
  ASSUME SecretInv,
         (\E c \in rotations : Rotate(c)) \/ NotifyRotated \/ ChangeRoot
  PROVE  SecretInv'
<1> USE DEF SecretInv
<1>1. ASSUME NEW c \in rotations, Rotate(c)
      PROVE  SecretInv'
  <2>1. SecretTypeOK'
    BY <1>1 DEF Rotate, SecretTypeOK, StreamRecords
  <2>2. GenerateMutexHeld'
    BY <1>1 DEF Rotate, GenerateMutexHeld, AtCA
  <2>3. rotations = {c}
    BY <1>1 DEF RotationCoversAll
  <2>4. RotationCoversAll'
    BY <1>1, <2>3 DEF Rotate, SecretTypeOK, StreamRecords, RotationCoversAll
  <2> QED BY <2>1, <2>2, <2>4
<1>2. CASE NotifyRotated
  <2>1. SecretTypeOK'
    BY <1>2 DEF NotifyRotated, SecretTypeOK, StreamRecords
  <2>2. GenerateMutexHeld'
    BY <1>2 DEF NotifyRotated, SecretTypeOK, StreamRecords, GenerateMutexHeld, AtCA
  <2>3. RotationCoversAll'
    BY <1>2 DEF NotifyRotated, SecretTypeOK, StreamRecords, RotationCoversAll
  <2> QED BY <2>1, <2>2, <2>3
<1>3. CASE ChangeRoot
  BY <1>3 DEF ChangeRoot, SecretTypeOK, StreamRecords, GenerateMutexHeld, AtCA, RotationCoversAll
<1> QED BY <1>1, <1>2, <1>3

(***************************************************************************)
(* The inductive invariant of GenerateSecret, registerSecret and the       *)
(* rotation task: type correctness, generateMutex guards the CA, and       *)
(* every certificate in use is covered.                                    *)
(***************************************************************************)
THEOREM SecretSafe == SecretSpec => []SecretInv
<1>1. SecretInv /\ [SecretNext]_secretVars => SecretInv'
  <2> SUFFICES ASSUME SecretInv, [SecretNext]_secretVars PROVE SecretInv'
    OBVIOUS
  <2>1. CASE UNCHANGED secretVars
    BY <2>1 DEF secretVars, SecretInv, SecretTypeOK, StreamRecords, GenerateMutexHeld, AtCA, RotationCoversAll
  <2>2. CASE SecretNext
    BY <2>2, GenerateStep, LockStep, SignStep, RegisterStep, RotateStep DEF SecretNext
  <2> QED BY <2>1, <2>2
<1> QED BY <1>1, SecretInitInv, PTL DEF SecretSpec

(***************************************************************************)
(* No certificate in use is forgotten by rotation (registerSecret and the  *)
(* task it schedules), for any number of streams, certificates and roots.  *)
(***************************************************************************)
THEOREM CertificatesRotate == SecretSpec => []RotationCoversAll
  BY SecretSafe, PTL DEF SecretInv
=============================================================================
