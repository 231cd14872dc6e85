--------------------------- MODULE WorkloadEntries ---------------------------
(***************************************************************************)
(* Auto-registration of one workload                                       *)
(* (pilot/pkg/controller/workloadentry/workloadentry_controller.go): the   *)
(* WorkloadEntry that istiods create, mark and delete as the workload      *)
(* connects to one or another of them, through an API server that every    *)
(* istiod reads from a cache that lags.                                    *)
(*                                                                         *)
(* A read from the cache and the write that follows are one step: a write  *)
(* that comes late is the same as a cache that lags more.  The time a      *)
(* connection is made is its number.  Health checks are not modelled; the  *)
(* counter adsConnections is a uint8, which these bounds never fill.       *)
(***************************************************************************)
EXTENDS Naturals, Sequences

CONSTANTS Istiods, MaxConns,
          NoEntry,     \* no WorkloadEntry of this name
          MaxCrashes   \* bound: crashes of istiods

ASSUME WleAssumption ==
  /\ {MaxConns, MaxCrashes} \subseteq Nat
  /\ NoEntry \notin [rv : Nat, owner : Istiods, conAt : Nat, dis : BOOLEAN]

VARIABLES entry,     \* the WorkloadEntry in the API server
          cache,     \* the copy each istiod reads
          lastRv,    \* the last resource version given out
          conns,     \* ADS connections made, with their istiod and stage
          alive,     \* the connection the workload has, 0 if none
          running,   \* the workload runs
          adsConns,  \* adsConnections
          cleanups,  \* a cleanup task is in cleanupQueue
          crashes,
          reordered  \* history: an older connection was recorded over a newer one

entryVars == <<entry, lastRv>>
wleVars == <<entryVars, cache, conns, alive, running, adsConns, cleanups, crashes, reordered>>

WleInit ==
  /\ entry     = NoEntry
  /\ cache     = [i \in Istiods |-> NoEntry]
  /\ lastRv    = 0
  /\ conns     = <<>>
  /\ alive     = 0
  /\ running   = TRUE
  /\ adsConns  = [i \in Istiods |-> 0]
  /\ cleanups  = [i \in Istiods |-> FALSE]
  /\ crashes   = 0
  /\ reordered = FALSE

(***************************************************************************)
(* Writes to the API server.                                               *)
(***************************************************************************)
Store(e) ==
  /\ entry' = [e EXCEPT !.rv = lastRv + 1]
  /\ lastRv' = lastRv + 1

Deletes(e) == IF entry # NoEntry /\ entry.rv = e.rv THEN NoEntry ELSE entry

\* An istiod's cache catches up.
Propagate(i) ==
  /\ cache[i] # entry
  /\ cache' = [cache EXCEPT ![i] = entry]
  /\ UNCHANGED <<entryVars, conns, alive, running, adsConns, cleanups, crashes, reordered>>

-----------------------------------------------------------------------------
(***************************************************************************)
(* The workload connects to an istiod, also before the last one noticed    *)
(* that it left, and one day goes away.                                    *)
(***************************************************************************)
WorkloadConnects(i) ==
  /\ running
  /\ Len(conns) < MaxConns
  /\ conns' = Append(conns, [at |-> i, stage |-> "new"])
  /\ alive' = Len(conns) + 1
  /\ UNCHANGED <<entryVars, cache, running, adsConns, cleanups, crashes, reordered>>

GoAway ==
  /\ running
  /\ running' = FALSE
  /\ alive' = 0
  /\ UNCHANGED <<entryVars, cache, conns, adsConns, cleanups, crashes, reordered>>

Stage(c, s) == [conns EXCEPT ![c].stage = s]

(***************************************************************************)
(* RegisterWorkload: count the connection, then registerWorkload.          *)
(***************************************************************************)
CountConnection(c) ==
  LET i == conns[c].at IN
  /\ conns[c].stage = "new"
  /\ conns' = Stage(c, "counted")
  /\ adsConns' = [adsConns EXCEPT ![i] = @ + 1]
  /\ UNCHANGED <<entryVars, cache, alive, running, cleanups, crashes, reordered>>

(***************************************************************************)
(* store.Patch: a merge patch of what setConnectMeta changes in the cached *)
(* copy.  It leaves alone the owner, and the disconnect mark, when the     *)
(* copy does not differ in them.                                           *)
(***************************************************************************)
Patched(e, copy, i, c) ==
  [e EXCEPT !.owner = IF copy.owner = i THEN @ ELSE i, !.conAt = c, !.dis = @ /\ ~copy.dis]

RegisterWorkload(c) ==
  LET i == conns[c].at
      copy == cache[i]
  IN  /\ conns[c].stage = "counted"
      /\ \/ /\ copy # NoEntry /\ c < copy.conAt
            /\ conns' = Stage(c, "up")
            /\ UNCHANGED <<entryVars, reordered, alive>>
         \/ /\ copy # NoEntry /\ c >= copy.conAt /\ entry # NoEntry
            /\ Store(Patched(entry, copy, i, c))
            /\ reordered' = (reordered \/ c < entry.conAt)
            /\ conns' = Stage(c, "up")
            /\ UNCHANGED alive
         \/ /\ copy = NoEntry /\ entry = NoEntry
            /\ Store([rv |-> 0, owner |-> i, conAt |-> c, dis |-> FALSE])
            /\ conns' = Stage(c, "up")
            /\ UNCHANGED <<reordered, alive>>
         \/ \* The patch finds no entry, or the new entry is there: the connection is refused.
            /\ IF copy = NoEntry THEN entry # NoEntry ELSE c >= copy.conAt /\ entry = NoEntry
            /\ conns' = Stage(c, "done")
            /\ alive' = IF alive = c THEN 0 ELSE alive
            /\ UNCHANGED <<entryVars, reordered>>
      /\ UNCHANGED <<cache, running, adsConns, cleanups, crashes>>

-----------------------------------------------------------------------------
(***************************************************************************)
(* QueueUnregisterWorkload, when the istiod notices that a connection is   *)
(* gone: not while it has others of the workload.                          *)
(***************************************************************************)
QueueUnregisterWorkload(c) ==
  LET i == conns[c].at IN
  /\ conns[c].stage = "up"
  /\ alive # c
  /\ conns' = Stage(c, IF adsConns[i] > 1 THEN "done" ELSE "unregister")
  /\ adsConns' = [adsConns EXCEPT ![i] = IF @ > 1 THEN @ - 1 ELSE 0]
  /\ UNCHANGED <<entryVars, cache, alive, running, cleanups, crashes, reordered>>

(***************************************************************************)
(* unregisterWorkload, from the stream or from the retry queue: mark the   *)
(* entry disconnected if this connection was the last recorded, here, and  *)
(* nothing was written since.  An attempt that fails is retried up to      *)
(* maxRetries times: the step is taken at one of them.                     *)
(***************************************************************************)
UnregisterWorkload(c) ==
  LET i == conns[c].at
      copy == cache[i]
      last == copy # NoEntry /\ copy.conAt <= c /\ copy.owner = i
  IN  /\ conns[c].stage = "unregister"
      /\ conns' = Stage(c, "done")
      /\ IF last /\ copy = entry
         THEN /\ Store([copy EXCEPT !.conAt = 0, !.dis = TRUE])
              /\ cleanups' = [cleanups EXCEPT ![i] = TRUE]
         ELSE UNCHANGED <<entryVars, cleanups>>
      /\ UNCHANGED <<cache, alive, running, adsConns, crashes, reordered>>

(***************************************************************************)
(* shouldCleanupEntry, once the grace period has passed.  A connection is  *)
(* closed well before it is 2.25 times the maximum connection age old.     *)
(***************************************************************************)
\* Variant with a bug: an entry that has been connected again is not spared.
ShouldCleanupDisconnected(e) == e.dis \/ (e.conAt # 0 /\ alive # e.conAt)

\* Variant with a bug: only entries marked disconnected are cleaned up.
ShouldCleanupMarked(e) == e.conAt = 0 /\ e.dis

ShouldCleanupEntry(e) == IF e.conAt # 0 THEN alive # e.conAt ELSE e.dis

(***************************************************************************)
(* The task unregisterWorkload put in cleanupQueue, and                    *)
(* periodicWorkloadEntryCleanup.  cleanupEntry deletes the version read.   *)
(***************************************************************************)
CleanupEntry(i) ==
  /\ cache[i] # NoEntry
  /\ ShouldCleanupEntry(cache[i])
  /\ entry' = Deletes(cache[i])

CleanupTask(i) ==
  /\ cleanups[i]
  /\ cleanups' = [cleanups EXCEPT ![i] = FALSE]
  /\ CleanupEntry(i) \/ entry' = entry
  /\ UNCHANGED <<lastRv, cache, conns, alive, running, adsConns, crashes, reordered>>

PeriodicCleanup(i) ==
  /\ CleanupEntry(i)
  /\ entry' # entry
  /\ UNCHANGED <<lastRv, cache, conns, alive, running, adsConns, cleanups, crashes, reordered>>

(***************************************************************************)
(* An istiod restarts, with an up-to-date cache.                           *)
(***************************************************************************)
Crash(i) ==
  /\ crashes < MaxCrashes
  /\ crashes' = crashes + 1
  /\ conns' = [c \in 1..Len(conns) |->
                 IF conns[c].at = i THEN [conns[c] EXCEPT !.stage = "done"] ELSE conns[c]]
  /\ alive' = IF alive # 0 /\ conns[alive].at = i THEN 0 ELSE alive
  /\ adsConns' = [adsConns EXCEPT ![i] = 0]
  /\ cleanups' = [cleanups EXCEPT ![i] = FALSE]
  /\ cache' = [cache EXCEPT ![i] = entry]
  /\ UNCHANGED <<entryVars, running, reordered>>

-----------------------------------------------------------------------------
ConnectionStep(c) ==
  CountConnection(c) \/ RegisterWorkload(c) \/ QueueUnregisterWorkload(c) \/ UnregisterWorkload(c)

WleNext ==
  \/ \E i \in Istiods : \/ Propagate(i) \/ WorkloadConnects(i)
                        \/ CleanupTask(i) \/ PeriodicCleanup(i) \/ Crash(i)
  \/ \E c \in 1..Len(conns) : ConnectionStep(c)
  \/ GoAway

WleSpec == WleInit /\ [][WleNext]_wleVars

-----------------------------------------------------------------------------
(***************************************************************************)
(* While the workload is connected and registered, its entry exists and    *)
(* records that connection, although istiods read stale copies, disconnect *)
(* events come after the reconnection, and cleanups are under way.  Not    *)
(* when a registration with a stale copy comes so late that it overwrites  *)
(* a newer one.                                                            *)
(***************************************************************************)
ConnectedEntryKept ==
  alive # 0 /\ conns[alive].stage = "up" /\ ~reordered =>
    entry # NoEntry /\ entry.conAt = alive

(***************************************************************************)
(* The entry of a workload that went away is deleted in the end, although  *)
(* istiods crash, disconnects are missed, counters leak and retries are    *)
(* given up.                                                               *)
(***************************************************************************)
EntryCleanedUp == <>[](~running) => <>[](entry = NoEntry)
=============================================================================
