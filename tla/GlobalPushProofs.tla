-------------------------- MODULE GlobalPushProofs --------------------------
(***************************************************************************)
(* Proofs about GlobalPush: the pushes of the select loop build the global *)
(* push context one after the other, so the context only moves forward,    *)
(* catches up with the configuration, and is complete when the server is   *)
(* marked ready.  Everything rests on the invariant of Debounce, which     *)
(* GlobalPush implements.                                                  *)
(***************************************************************************)
EXTENDS GlobalPush, DebounceProofs

(***************************************************************************)
(* The types the proofs need: versions without their bounds.               *)
(***************************************************************************)
AnyContents == [Kinds -> Nat]
AnyContext  == [num : Nat, cfg : AnyContents]
Stages      == [pc : {"start", "build", "write", "pushAll", "return"},
                old : AnyContext, new : AnyContext]

PushTypes ==
  /\ store      \in AnyContents
  /\ env        \in AnyContext
  /\ versionNum \in Nat
  /\ working    \in [0..MaxUpdates -> Stages]
  /\ announced  \in Nat
  /\ ~handling

(***************************************************************************)
(* The goroutines in Push, and how far they are.                           *)
(***************************************************************************)
InPush == {g \in pushes : g.pc = "pushFn"}

AtStage(g, pc) == g \in InPush /\ working[g.id].pc = pc

IdleOutsidePush ==
  \A i \in 0..MaxUpdates : working[i] = Idle \/ \E g \in InPush : g.id = i

EdsDebounced == EnableEDSDebounce => pushes = Debounced

(***************************************************************************)
(* Between StartPush and WriteContext the global context is the one that   *)
(* the push started from: nobody else writes it.                           *)
(***************************************************************************)
StagesInOrder ==
  \A g \in InPush :
    LET w == working[g.id]
    IN  /\ ~g.req.full => w.pc \in {"start", "pushAll", "return"}
        /\ w.pc = "build" => w.old = env /\ w.new.num = versionNum
        /\ w.pc = "write" => /\ w.new.num = versionNum
                             /\ \A k \in Kinds : w.new.cfg[k] \in env.cfg[k]..store[k]
        /\ w.pc = "pushAll" /\ g.debounced => w.new = env

ContextBehindStore ==
  /\ env.num <= versionNum
  /\ \A k \in Kinds : env.cfg[k] <= store[k]

(***************************************************************************)
(* A push for request r rebuilds kind k.                                   *)
(***************************************************************************)
Rebuilds(r, k) == Affects(r, k) /\ r.full

(***************************************************************************)
(* A request on its way, in one of the first n updates or held by one of   *)
(* the callers cs, will rebuild kind k.                                    *)
(***************************************************************************)
Coming(k, cs, n) ==
  \/ \E s \in cs : Rebuilds(sending[s], k)
  \/ \E i \in 1..Len(ch) : /\ committed + EventsRunning + debouncedEvents + i <= n
                           /\ Rebuilds(ch[i], k)
  \/ committed + EventsRunning < n /\ Rebuilds(req, k)
  \/ /\ committed < n
     /\ \E g \in InPush : Rebuilds(g.req, k) /\ working[g.id].pc \in {"start", "build"}

(***************************************************************************)
(* Unless a push has failed, every kind is up to date in the context that  *)
(* is being published, or else some request on its way will rebuild it.    *)
(***************************************************************************)
UpToDate(k) ==
  \/ \E g \in InPush : AtStage(g, "write") /\ working[g.id].new.cfg[k] = store[k]
  \/ (\A g \in InPush : ~AtStage(g, "write")) /\ env.cfg[k] = store[k]

NothingForgotten == ~failed => \A k \in Kinds : Coming(k, Sources, inbound) \/ UpToDate(k)

(***************************************************************************)
(* A context that was published and not announced yet is about to be.      *)
(***************************************************************************)
WillBeAnnounced ==
  EnableEDSDebounce => announced = env.num \/ \E g \in InPush : AtStage(g, "pushAll")

PInv ==
  /\ AInv
  /\ PushTypes
  /\ IdleOutsidePush
  /\ EdsDebounced
  /\ StagesInOrder
  /\ ContextBehindStore
  /\ NothingForgotten
  /\ WillBeAnnounced

(***************************************************************************)
(* waitForCacheSync.  While callers that were counted have not sent their  *)
(* updates there is room for them among the expected ones; and a kind that *)
(* is not up to date will be rebuilt by a request that has one of the      *)
(* expected updates in it, so that it is not committed yet.                *)
(***************************************************************************)
LateCallersCounted ==
  /\ late \in SUBSET Senders
  /\ expected # Off /\ ~overtaken /\ late # {} => Received + Cardinality(late) <= expected

ReadyWhenCommitted == ready => expected # Off /\ committed >= expected

Due(k) ==
  \/ Coming(k, late, expected)
  \/ /\ committed < expected
     /\ \E g \in InPush : AtStage(g, "write") /\ working[g.id].new.cfg[k] >= required[k]

RequiredIsDue ==
  expected # Off /\ ~failed /\ ~overtaken =>
    \A k \in Kinds : env.cfg[k] >= required[k] \/ Due(k)

RInv ==
  /\ PInv
  /\ expected \in Int
  /\ required \in AnyContents
  /\ \A k \in Kinds : required[k] <= store[k]
  /\ LateCallersCounted
  /\ ReadyWhenCommitted
  /\ RequiredIsDue

-----------------------------------------------------------------------------
(***************************************************************************)
(* Every step of GlobalPush, the extension handler's included, is a step   *)
(* of Debounce or leaves it alone.                                         *)
(***************************************************************************)
LEMMA StepIsDebounceStep ==
  [GlobalNextWithExtensions]_globalVars => [DebounceNext]_debounceVars
  <1> SUFFICES ASSUME [GlobalNextWithExtensions]_globalVars PROVE [DebounceNext]_debounceVars
    OBVIOUS
  <1>1. ASSUME NEW s \in Sources, NEW r \in Inbound, ChangeConfig(s, r) PROVE DebounceNext
    BY <1>1 DEF ChangeConfig, DebounceNext
  <1>2. ASSUME NEW s \in Sources, SendUpdate(s) PROVE DebounceNext
    BY <1>2 DEF SendUpdate, DebounceNext
  <1>3. CASE Loop
    BY <1>3 DEF Loop, DebounceNext
  <1>4. ASSUME NEW g \in Running, PushStep(g) PROVE DebounceNext \/ UNCHANGED debounceVars
    <2>1. CASE PushReturns(g)
      <3>1. CASE g = HandlerPush
        BY <2>1, <3>1 DEF PushReturns
      <3>2. CASE g # HandlerPush
        BY <2>1, <3>2 DEF PushReturns, PushFnReturns, DebounceNext
      <3> QED BY <3>1, <3>2
    <2>2. CASE ~PushReturns(g)
      BY <1>4, <2>2 DEF PushStep, StartPush, BuildContext, WriteContext, AdsPushAll
    <2> QED BY <2>1, <2>2
  <1>5. CASE CachesSynced \/ MarkReady \/ \E e \in ExtensionKinds : ChangeExtension(e)
    BY <1>5 DEF CachesSynced, MarkReady, ChangeExtension
  <1>6. CASE UNCHANGED globalVars
    BY <1>6 DEF globalVars
  <1> QED
    BY <1>1, <1>2, <1>3, <1>4, <1>5, <1>6 DEF GlobalNextWithExtensions, GlobalNext

(***************************************************************************)
(* The pushFn of Debounce, spelled out, with everything that happens       *)
(* beside it, implements Debounce: what is proved of Debounce holds here.  *)
(***************************************************************************)
THEOREM GlobalImplementsDebounce == GlobalSpecWithExtensions => DebounceSpec
  <1>1. GlobalInit => DebounceInit
    BY DEF GlobalInit
  <1> QED BY <1>1, StepIsDebounceStep, PTL DEF GlobalSpecWithExtensions, DebounceSpec

(***************************************************************************)
(* The start.                                                              *)
(***************************************************************************)
LEMMA IdleStage == Idle \in Stages /\ Idle.pc = "start" /\ Empty \in AnyContext /\ Empty.num = 0
                   /\ \A k \in Kinds : Empty.cfg[k] = 0
  BY DEF Idle, Empty, Stages, AnyContext, AnyContents

(***************************************************************************)
(* Nothing is required, received or built at the start.                    *)
(***************************************************************************)
LEMMA GlobalInitRInv == GlobalInit => RInv
  <1> SUFFICES ASSUME GlobalInit PROVE RInv
    OBVIOUS
  <1>1. AInv
    BY InitAInv DEF GlobalInit
  <1>2. /\ pushes = {} /\ InPush = {} /\ Debounced = {} /\ env = Empty /\ versionNum = 0
        /\ announced = 0 /\ expected = Off /\ ~ready /\ late = {}
        /\ \A k \in Kinds : store[k] = 0 /\ required[k] = 0
    BY DEF GlobalInit, DebounceInit, GlobalStart, InPush, Debounced
  <1>3. PushTypes
    BY <1>2, IdleStage DEF GlobalInit, GlobalStart, PushTypes, AnyContents
  <1>4. IdleOutsidePush /\ EdsDebounced /\ StagesInOrder /\ ContextBehindStore /\ WillBeAnnounced
    BY <1>2, IdleStage DEF GlobalInit, GlobalStart, IdleOutsidePush, EdsDebounced, StagesInOrder,
       ContextBehindStore, WillBeAnnounced
  <1>5. NothingForgotten
    BY <1>2, IdleStage DEF NothingForgotten, UpToDate
  <1>6. /\ expected \in Int /\ required \in AnyContents
        /\ \A k \in Kinds : required[k] <= store[k]
    BY <1>2 DEF GlobalInit, GlobalStart, AnyContents, Off
  <1>7. LateCallersCounted /\ ReadyWhenCommitted /\ RequiredIsDue
    BY <1>2 DEF LateCallersCounted, ReadyWhenCommitted, RequiredIsDue
  <1> QED BY <1>1, <1>3, <1>4, <1>5, <1>6, <1>7 DEF RInv, PInv

-----------------------------------------------------------------------------
(***************************************************************************)
(* The counts are numbers.                                                 *)
(***************************************************************************)
LEMMA ReceivedIsNat == AInv => Received \in Nat
  <1> SUFFICES ASSUME AInv PROVE Received \in Nat
    OBVIOUS
  <1>1. committed \in Nat /\ EventsRunning \in Nat /\ debouncedEvents \in Nat /\ Len(ch) \in Nat
    BY EventsOfRunning DEF AInv, IInv, Types, Accounts
  <1> QED BY <1>1 DEF Received

(***************************************************************************)
(* The same in the state after a step.                                     *)
(***************************************************************************)
LEMMA ReceivedIsNatNext == AInv' => Received' \in Nat
  <1> SUFFICES ASSUME AInv' PROVE Received' \in Nat
    OBVIOUS
  <1>1. committed' \in Nat /\ EventsRunning' \in Nat /\ debouncedEvents' \in Nat /\ Len(ch') \in Nat
    BY EventsOfRunningNext DEF AInv, IInv, Types, Accounts
  <1> QED BY <1>1 DEF Received

(***************************************************************************)
(* Facts about the goroutines in Push that the steps below use.            *)
(***************************************************************************)
LEMMA InPushFacts ==
  ASSUME PInv, NEW g \in InPush
  PROVE  /\ g \in Started /\ g \in pushes /\ g.pc = "pushFn"
         /\ g.id \in 0..MaxUpdates /\ working[g.id] \in Stages
         /\ g.req \in Inbound /\ g.req # NoRequest
         /\ g.req.full => g.debounced
         /\ \A h \in InPush : h.id = g.id => h = g
         /\ g.debounced => \A h \in InPush : h.debounced => h = g
  <1>1. g \in Started /\ g \in pushes /\ g.pc = "pushFn" /\ g.req \in Inbound
    BY DEF PInv, AInv, IInv, Types, InPush, Started
  <1>2. g.id \in 1..spawned /\ spawned \in 0..MaxUpdates
    <2>1. /\ g.id \in 1..spawned /\ spawned \in Nat /\ Waiting \in Nat /\ Len(ch) \in Nat
          /\ Cardinality(Senders) \in Nat /\ inbound \in 0..MaxUpdates
          /\ spawned + Waiting + Len(ch) + Cardinality(Senders) <= inbound
      BY <1>1, FS_CardinalityType DEF PInv, AInv, IInv, Types, GoroutinesNumbered, Accounts, Waiting
    <2> QED BY <2>1, DebounceAssumption
  <1>3. g.id \in 0..MaxUpdates
    BY <1>2, DebounceAssumption
  <1>4. working[g.id] \in Stages
    BY <1>3 DEF PInv, PushTypes
  <1>5. g.req # NoRequest
    BY <1>1, RequestAssumption DEF Inbound
  <1>6. g.req.full => g.debounced
    BY <1>1 DEF PInv, AInv, IInv, OnePushAtATime
  <1>7. \A h \in InPush : h.id = g.id => h = g
    BY <1>1 DEF PInv, AInv, GoroutinesNumbered, InPush
  <1>8. g.debounced => \A h \in InPush : h.debounced => h = g
    BY <1>1 DEF PInv, AInv, IInv, OnePushAtATime, Debounced, InPush
  <1> QED BY <1>1, <1>3, <1>4, <1>5, <1>6, <1>7, <1>8

(***************************************************************************)
(* Merging keeps what either request rebuilds.                             *)
(***************************************************************************)
LEMMA MergeRebuilds ==
  ASSUME NEW a \in Inbound \cup {NoRequest}, NEW b \in Inbound, NEW k,
         Rebuilds(a, k) \/ Rebuilds(b, k)
  PROVE  Rebuilds(Merge(a, b), k)
  <1>1. b # NoRequest
    BY RequestAssumption DEF Inbound
  <1>2. CASE a = NoRequest
    BY <1>1, <1>2 DEF Rebuilds, Affects, Merge
  <1>3. CASE a # NoRequest
    <2>1. /\ Merge(a, b).full = (a.full \/ b.full)
          /\ Merge(a, b).configs = IF a.configs # {} /\ b.configs # {}
                                   THEN a.configs \cup b.configs ELSE {}
      BY <1>1, <1>3 DEF Merge
    <2>2. Merge(a, b) # NoRequest
      BY MergeInbound
    <2> QED BY <1>1, <1>3, <2>1, <2>2 DEF Rebuilds, Affects
  <1> QED BY <1>2, <1>3

-----------------------------------------------------------------------------
(***************************************************************************)
(* A step of the loop or of a caller leaves the pushes where they are; it  *)
(* may start one, which has done nothing yet.                              *)
(***************************************************************************)
OnlyStarts ==
  /\ UNCHANGED pushVars
  /\ InPush \subseteq InPush'
  /\ \A g \in InPush' : g \notin InPush => working[g.id] = Idle
  /\ EdsDebounced'

(***************************************************************************)
(* Steps that only start a push or move updates leave the pushes under way *)
(* alone.                                                                  *)
(***************************************************************************)
LEMMA OnlyStartsKeeps ==
  ASSUME PInv, OnlyStarts
  PROVE  /\ PushTypes' /\ IdleOutsidePush' /\ StagesInOrder' /\ ContextBehindStore'
         /\ WillBeAnnounced'
         /\ \A k \in Kinds : UpToDate(k) => UpToDate(k)'
  <1>1. /\ UNCHANGED <<store, env, versionNum, working, announced, failed, handling>>
        /\ InPush \subseteq InPush'
        /\ \A g \in InPush' : g \notin InPush => working[g.id] = Idle
    BY DEF OnlyStarts, pushVars
  <1>2. PushTypes' /\ ContextBehindStore'
    BY <1>1 DEF PInv, PushTypes, ContextBehindStore
  <1>3. IdleOutsidePush'
    BY <1>1 DEF PInv, IdleOutsidePush
  <1>4. StagesInOrder'
    <2>1. SUFFICES ASSUME NEW g \in InPush'
                   PROVE  LET w == working[g.id]
                          IN  /\ ~g.req.full => w.pc \in {"start", "pushAll", "return"}
                              /\ w.pc = "build" => w.old = env /\ w.new.num = versionNum
                              /\ w.pc = "write" =>
                                   /\ w.new.num = versionNum
                                   /\ \A k \in Kinds : w.new.cfg[k] \in env.cfg[k]..store[k]
                              /\ w.pc = "pushAll" /\ g.debounced => w.new = env
      BY <1>1 DEF StagesInOrder
    <2>2. CASE g \in InPush
      BY <2>2 DEF PInv, StagesInOrder
    <2>3. CASE g \notin InPush
      BY <1>1, <2>1, <2>3, IdleStage
    <2> QED BY <2>2, <2>3
  <1>5. \A g \in InPush' : working[g.id].pc \in {"write", "pushAll"} => g \in InPush
    BY <1>1, IdleStage
  <1>6. WillBeAnnounced'
    BY <1>1 DEF PInv, WillBeAnnounced, AtStage
  <1>7. ASSUME NEW k \in Kinds, UpToDate(k) PROVE UpToDate(k)'
    BY <1>1, <1>5, <1>7 DEF UpToDate, AtStage
  <1> QED BY <1>2, <1>3, <1>4, <1>6, <1>7

(***************************************************************************)
(* The steps of the select loop pass a request on without losing what it   *)
(* rebuilds, and it stays among the first n updates.                       *)
(***************************************************************************)
Passes(k, cs, n) == Coming(k, cs, n) => Coming(k, cs, n)'

(***************************************************************************)
(* pushWorker: what was waiting is pushed, or goes on waiting.             *)
(***************************************************************************)
LEMMA PushWorkerPasses ==
  ASSUME PInv, AInv', UNCHANGED pushVars, Debounced = {}, NEW t, PushWorker(TRUE, t),
         UNCHANGED <<sending, ch, committed>>
  PROVE  /\ OnlyStarts
         /\ \A k \in Kinds : \A cs, n : n \in Int => Passes(k, cs, n)
         /\ Received' <= Received
  <1>0. UNCHANGED working /\ EventsRunning = 0 /\ committed \in Nat
    BY EventsOfRunning DEF pushVars, PInv, AInv, Accounts
  <1>1. CASE Settled /\ req # NoRequest
    <2> DEFINE g == [id |-> spawned + 1, req |-> req, events |-> debouncedEvents,
                     debounced |-> TRUE, pc |-> "pushFn"]
    <2>1. /\ req' = NoRequest /\ debouncedEvents' = 0
          /\ spawned' = spawned + 1 /\ pushes' = pushes \cup {g}
      BY <1>1 DEF PushWorker, Go
    <2>2. g.id = spawned + 1 /\ g.req = req /\ g.events = debouncedEvents /\ g.debounced
          /\ g.pc = "pushFn"
      OBVIOUS
    <2> HIDE DEF g
    <2>3. InPush' = InPush \cup {g}
      BY <2>1, <2>2 DEF InPush
    <2>4. EventsRunning' = debouncedEvents /\ debouncedEvents \in Nat
      BY <2>1, <2>2, EventsOfRunningNext DEF Debounced, AInv, PInv, IInv, Types
    <2>5. working[g.id] = Idle
      <3>1. spawned + 1 \in 0..MaxUpdates
        <4>1. /\ spawned' + Waiting' + Len(ch') + Cardinality(Senders') <= inbound'
              /\ spawned' \in Nat /\ Waiting' \in Nat /\ Len(ch') \in Nat
              /\ Cardinality(Senders') \in Nat /\ inbound' \in 0..MaxUpdates
          BY FS_CardinalityType DEF AInv, IInv, Types, Accounts, Waiting
        <4> QED BY <2>1, <4>1, DebounceAssumption, SMTT(40)
      <3>2. \A h \in InPush : h.id # spawned + 1
        BY DEF PInv, AInv, IInv, Types, GoroutinesNumbered, InPush
      <3> QED BY <2>2, <3>1, <3>2 DEF PInv, IdleOutsidePush
    <2>6. OnlyStarts
      <3>1. EdsDebounced'
        BY <2>1, <2>2 DEF PInv, EdsDebounced, Debounced
      <3> QED BY <2>3, <2>5, <3>1 DEF OnlyStarts
    <2>7. ASSUME NEW k \in Kinds, NEW cs, NEW n \in Int, Coming(k, cs, n)
          PROVE  Coming(k, cs, n)'
      <3>1. CASE \E i \in 1..Len(ch) : /\ committed + EventsRunning + debouncedEvents + i <= n
                                       /\ Rebuilds(ch[i], k)
        BY <1>0, <2>1, <2>4, <3>1 DEF Coming
      <3>2. CASE committed + EventsRunning < n /\ Rebuilds(req, k)
        BY <1>0, <2>2, <2>3, <2>5, <3>2, IdleStage DEF Coming
      <3>3. CASE \E s \in cs : Rebuilds(sending[s], k)
        BY <3>3 DEF Coming
      <3>4. CASE committed < n /\ \E h \in InPush : Rebuilds(h.req, k)
                                                 /\ working[h.id].pc \in {"start", "build"}
        BY <1>0, <2>3, <3>4 DEF Coming
      <3> QED BY <2>7, <3>1, <3>2, <3>3, <3>4 DEF Coming
    <2>8. Received' <= Received
      <3>1. Len(ch) \in Nat
        BY DEF PInv, AInv, IInv, Types
      <3> QED BY <1>0, <2>1, <2>4, <3>1 DEF Received
    <2> QED BY <2>6, <2>7, <2>8 DEF Passes
  <1>2. CASE ~(Settled /\ req # NoRequest)
    <2>1. UNCHANGED <<req, debouncedEvents, pushes, spawned>>
      BY <1>2 DEF PushWorker
    <2>2. InPush' = InPush /\ EventsRunning' = EventsRunning
      BY <2>1 DEF InPush, EventsRunning, Debounced
    <2>3. OnlyStarts
      BY <2>1, <2>2 DEF OnlyStarts, PInv, EdsDebounced, Debounced
    <2>4. Received' = Received /\ Received \in Nat
      BY <1>0, <2>1, <2>2 DEF Received, PInv, AInv, IInv, Types
    <2> QED BY <1>0, <2>1, <2>2, <2>3, <2>4 DEF Passes, Coming
  <1> QED BY <1>1, <1>2

(***************************************************************************)
(* An update: merged with what is waiting, or pushed at once if it is one  *)
(* about endpoints, which rebuilds nothing.                                *)
(***************************************************************************)
LEMMA ReceiveUpdatePasses ==
  ASSUME PInv, AInv', UNCHANGED pushVars, ReceiveUpdate
  PROVE  /\ OnlyStarts
         /\ \A k \in Kinds : \A cs, n : n \in Int => Passes(k, cs, n)
         /\ Received' <= Received
  <1> DEFINE r == Head(ch)
  <1>0. /\ UNCHANGED <<working, sending, committed>> /\ committed \in Nat /\ debouncedEvents \in Nat
        /\ EventsRunning \in Nat
    BY EventsOfRunning DEF pushVars, ReceiveUpdate, callerVars, PInv, AInv, IInv, Types, Accounts
  <1>1. /\ r \in Inbound /\ ch \in Seq(Inbound) /\ Len(ch) \in Nat /\ Len(ch) > 0 /\ r = ch[1]
        /\ ch' = Tail(ch) /\ Len(ch') = Len(ch) - 1
        /\ \A i \in 1..Len(ch') : ch'[i] = ch[i + 1]
    BY DEF ReceiveUpdate, PInv, AInv, IInv, Types
  <1>2. CASE ~EnableEDSDebounce /\ ~r.full
    <2> DEFINE g == [id |-> spawned + 1, req |-> r, events |-> 0,
                     debounced |-> FALSE, pc |-> "pushFn"]
    <2>1. /\ UNCHANGED <<req, debouncedEvents>>
          /\ spawned' = spawned + 1 /\ pushes' = pushes \cup {g}
      BY <1>2 DEF ReceiveUpdate, PushEDSNow, Go
    <2>2. g.id = spawned + 1 /\ ~g.debounced /\ g.pc = "pushFn"
      OBVIOUS
    <2> HIDE DEF g
    <2>3. InPush' = InPush \cup {g} /\ Debounced' = Debounced
      BY <2>1, <2>2 DEF InPush, Debounced
    <2>4. EventsRunning' = EventsRunning
      BY <2>3 DEF EventsRunning
    <2>5. working[g.id] = Idle
      <3>1. spawned + 1 \in 0..MaxUpdates
        <4>1. /\ spawned' + Waiting' + Len(ch') + Cardinality(Senders') <= inbound'
              /\ spawned' \in Nat /\ Waiting' \in Nat /\ Len(ch') \in Nat
              /\ Cardinality(Senders') \in Nat /\ inbound' \in 0..MaxUpdates
          BY FS_CardinalityType DEF AInv, IInv, Types, Accounts, Waiting
        <4> QED BY <2>1, <4>1, DebounceAssumption, SMTT(40)
      <3>2. \A h \in InPush : h.id # spawned + 1
        BY DEF PInv, AInv, IInv, Types, GoroutinesNumbered, InPush
      <3> QED BY <2>2, <3>1, <3>2 DEF PInv, IdleOutsidePush
    <2>6. OnlyStarts
      BY <1>2, <2>3, <2>5 DEF OnlyStarts, EdsDebounced
    <2>7. ASSUME NEW k \in Kinds, NEW cs, NEW n \in Int, Coming(k, cs, n)
          PROVE  Coming(k, cs, n)'
      <3>1. ASSUME NEW i \in 1..Len(ch), committed + EventsRunning + debouncedEvents + i <= n,
                   Rebuilds(ch[i], k)
            PROVE  Coming(k, cs, n)'
        <4>1. i # 1
          BY <1>1, <1>2, <3>1 DEF Rebuilds
        <4>2. i - 1 \in 1..Len(ch') /\ ch'[i - 1] = ch[i]
              /\ committed + EventsRunning + debouncedEvents + (i - 1) <= n
          BY <1>0, <1>1, <3>1, <4>1
        <4> QED BY <1>0, <2>1, <2>4, <3>1, <4>2 DEF Coming
      <3>2. CASE committed + EventsRunning < n /\ Rebuilds(req, k)
        BY <1>0, <2>1, <2>4, <3>2 DEF Coming
      <3>3. CASE \E s \in cs : Rebuilds(sending[s], k)
        BY <1>0, <3>3 DEF Coming
      <3>4. CASE committed < n /\ \E h \in InPush : Rebuilds(h.req, k)
                                                 /\ working[h.id].pc \in {"start", "build"}
        BY <1>0, <2>3, <3>4 DEF Coming
      <3> QED BY <2>7, <3>1, <3>2, <3>3, <3>4 DEF Coming
    <2>8. Received' <= Received
      BY <1>0, <1>1, <2>1, <2>4 DEF Received
    <2> QED BY <2>6, <2>7, <2>8 DEF Passes
  <1>3. CASE ~(~EnableEDSDebounce /\ ~r.full)
    <2>1. /\ debouncedEvents' = debouncedEvents + 1 /\ req' = Merge(req, r)
          /\ UNCHANGED <<pushes, spawned>>
      BY <1>3 DEF ReceiveUpdate, Accumulate
    <2>2. InPush' = InPush /\ EventsRunning' = EventsRunning
      BY <2>1 DEF InPush, EventsRunning, Debounced
    <2>3. OnlyStarts
      BY <2>1, <2>2 DEF OnlyStarts, PInv, EdsDebounced, Debounced
    <2>4. \A k : Rebuilds(req, k) \/ Rebuilds(r, k) => Rebuilds(req', k)
      BY <1>1, <2>1, MergeRebuilds DEF PInv, AInv, IInv, Types
    <2>5. ASSUME NEW k \in Kinds, NEW cs, NEW n \in Int, Coming(k, cs, n)
          PROVE  Coming(k, cs, n)'
      <3>1. ASSUME NEW i \in 1..Len(ch), committed + EventsRunning + debouncedEvents + i <= n,
                   Rebuilds(ch[i], k)
            PROVE  Coming(k, cs, n)'
        <4>1. CASE i = 1
          <5>1. committed + EventsRunning < n /\ Rebuilds(req', k)
            BY <1>0, <1>1, <2>4, <3>1, <4>1
          <5> QED BY <1>0, <2>2, <5>1 DEF Coming
        <4>2. CASE i # 1
          <5>1. i - 1 \in 1..Len(ch') /\ ch'[i - 1] = ch[i]
                /\ committed + EventsRunning + (debouncedEvents + 1) + (i - 1) <= n
            BY <1>0, <1>1, <3>1, <4>2
          <5> QED BY <1>0, <2>1, <2>2, <3>1, <5>1 DEF Coming
        <4> QED BY <4>1, <4>2
      <3>2. CASE committed + EventsRunning < n /\ Rebuilds(req, k)
        BY <1>0, <2>2, <2>4, <3>2 DEF Coming
      <3>3. CASE \E s \in cs : Rebuilds(sending[s], k)
        BY <1>0, <3>3 DEF Coming
      <3>4. CASE committed < n /\ \E h \in InPush : Rebuilds(h.req, k)
                                                 /\ working[h.id].pc \in {"start", "build"}
        BY <1>0, <2>2, <3>4 DEF Coming
      <3> QED BY <2>5, <3>1, <3>2, <3>3, <3>4 DEF Coming
    <2>6. Received' <= Received
      <3>1. Len(ch') = Len(ch) - 1 /\ Len(ch) \in Nat
        BY <1>1
      <3>2. /\ committed' = committed /\ EventsRunning' = EventsRunning
            /\ debouncedEvents' = debouncedEvents + 1
        BY <1>0, <2>1, <2>2
      <3> QED BY <1>0, <3>1, <3>2 DEF Received
    <2> QED BY <2>3, <2>5, <2>6 DEF Passes
  <1> QED BY <1>2, <1>3

(***************************************************************************)
(* The other steps of the loop.                                            *)
(***************************************************************************)
LEMMA LoopPasses ==
  ASSUME PInv, AInv', Loop
  PROVE  /\ OnlyStarts
         /\ \A k \in Kinds : \A cs, n : n \in Int => Passes(k, cs, n)
         /\ Received' <= Received
         /\ UNCHANGED <<readyVars, inbound, sending, committed>>
  <1>0. UNCHANGED pushVars /\ UNCHANGED readyVars /\ UNCHANGED working
    BY DEF Loop, pushVars
  <1>1. UNCHANGED <<inbound, sending, committed>>
    BY DEF Loop, ReceiveFree, ReceiveUpdate, ReceiveTimer, ReceiveStop, SendFree, Tick, callerVars
  <1>2. ASSUME UNCHANGED <<req, debouncedEvents, ch>>, InPush' = InPush,
               EventsRunning' = EventsRunning, EdsDebounced'
        PROVE  /\ OnlyStarts
               /\ \A k \in Kinds : \A cs, n : n \in Int => Passes(k, cs, n)
               /\ Received' <= Received
    <2>1. Received \in Nat /\ Received' = Received
      BY <1>1, <1>2, EventsOfRunning, SMTT(40) DEF Received, PInv, AInv, IInv, Types, Accounts
    <2> QED BY <1>0, <1>1, <1>2, <2>1 DEF OnlyStarts, Passes, Coming
  <1>3. CASE ReceiveFree
    <2>1. Debounced = {}
      BY <1>3 DEF ReceiveFree, PInv, AInv, IInv, Types, OnePushAtATime
    <2> QED BY <1>0, <1>1, <1>3, <2>1, PushWorkerPasses DEF ReceiveFree
  <1>4. CASE ReceiveTimer
    <2>1. CASE free
      <3>1. Debounced = {} /\ free = TRUE
        BY <2>1 DEF PInv, AInv, IInv, Types, OnePushAtATime
      <3> QED BY <1>0, <1>1, <1>4, <2>1, <3>1, PushWorkerPasses DEF ReceiveTimer
    <2>2. CASE ~free
      <3>1. UNCHANGED <<req, debouncedEvents, ch, pushes>>
        BY <1>4, <2>2 DEF ReceiveTimer
      <3> QED BY <1>0, <1>1, <1>2, <3>1 DEF InPush, EventsRunning, Debounced, PInv, EdsDebounced
    <2> QED BY <2>1, <2>2
  <1>5. CASE ReceiveUpdate
    BY <1>0, <1>1, <1>5, ReceiveUpdatePasses
  <1>6. CASE ReceiveStop \/ Tick
    <2>1. UNCHANGED <<req, debouncedEvents, ch, pushes>>
      BY <1>6 DEF ReceiveStop, Tick
    <2> QED BY <1>0, <1>1, <1>2, <2>1 DEF InPush, EventsRunning, Debounced, PInv, EdsDebounced
  <1>7. ASSUME NEW g \in pushes, SendFree(g)
        PROVE  /\ OnlyStarts
               /\ \A k \in Kinds : \A cs, n : n \in Int => Passes(k, cs, n)
               /\ Received' <= Received
    <2>1. UNCHANGED <<req, debouncedEvents, ch>> /\ pushes' = pushes \ {g} /\ g.pc = "free"
      BY <1>7 DEF SendFree, loopVars
    <2>2. InPush' = InPush
      BY <2>1 DEF InPush
    <2>3. \A h \in Debounced : h = g
      BY <2>1 DEF PInv, AInv, IInv, OnePushAtATime, OnlyDebouncedReport, Debounced
    <2>4. Debounced' = {}
      BY <2>1, <2>3 DEF Debounced
    <2>5. EventsRunning = 0 /\ EventsRunning' = 0
      BY <2>1, <2>3, <2>4, EventsOfRunning, EventsOfRunningNext DEF PInv, AInv
    <2>6. EdsDebounced'
      BY <2>1 DEF PInv, EdsDebounced, Debounced
    <2> QED BY <1>2, <2>1, <2>2, <2>5, <2>6
  <1> QED BY <1>0, <1>1, <1>3, <1>4, <1>5, <1>6, <1>7 DEF Loop

(***************************************************************************)
(* The select loop receives, waits, starts a push or hears of its end.     *)
(***************************************************************************)
LEMMA LoopRInv ==
  ASSUME RInv, AInv', Loop
  PROVE  RInv'
  <1>1. /\ OnlyStarts
        /\ \A k \in Kinds : \A cs, n : n \in Int => Passes(k, cs, n)
        /\ Received' <= Received
        /\ UNCHANGED <<expected, required, ready, late, overtaken, inbound, sending, committed>>
    BY LoopPasses DEF RInv, readyVars, waitVars
  <1>2. UNCHANGED <<store, env, working, failed>> /\ InPush \subseteq InPush' /\ EdsDebounced'
    BY <1>1 DEF OnlyStarts, pushVars
  <1>3. inbound \in Int /\ expected \in Int
    BY DEF RInv, PInv, AInv, Accounts
  <1>4. PInv'
    <2>1. NothingForgotten'
      <3>1. SUFFICES ASSUME ~failed, NEW k \in Kinds
                     PROVE  (Coming(k, Sources, inbound) \/ UpToDate(k))'
        BY <1>2 DEF NothingForgotten
      <3>2. CASE UpToDate(k)
        BY <1>1, <3>2, OnlyStartsKeeps DEF RInv
      <3>3. CASE Coming(k, Sources, inbound)
        <4>1. Passes(k, Sources, inbound)
          BY <1>1, <1>3
        <4> QED BY <1>1, <3>3, <4>1 DEF Passes, Coming
      <3> QED BY <3>1, <3>2, <3>3 DEF RInv, PInv, NothingForgotten
    <2> QED BY <1>1, <1>2, <2>1, OnlyStartsKeeps DEF RInv, PInv
  <1>5. LateCallersCounted'
    <2>1. Received \in Nat /\ Received' \in Nat
      BY ReceivedIsNat, ReceivedIsNatNext DEF RInv, PInv
    <2>2. IsFiniteSet(late) /\ Cardinality(late) \in Nat
      BY FS_Subset, FS_CardinalityType DEF RInv, LateCallersCounted, PInv, AInv, Accounts
    <2>3. late' \in SUBSET Senders'
      BY <1>1 DEF RInv, LateCallersCounted, Senders
    <2> QED BY <1>1, <1>3, <2>1, <2>2, <2>3 DEF RInv, LateCallersCounted
  <1>6. RequiredIsDue'
    <2>1. SUFFICES ASSUME expected # Off, ~failed, ~overtaken, NEW k \in Kinds, ~(env.cfg[k] >= required[k])
                   PROVE  Due(k)'
      BY <1>1, <1>2 DEF RequiredIsDue
    <2>2. Due(k)
      BY <2>1 DEF RInv, RequiredIsDue
    <2>3. CASE Coming(k, late, expected)
      <3>1. Passes(k, late, expected)
        BY <1>1, <1>3
      <3> QED BY <1>1, <2>3, <3>1 DEF Passes, Coming, Due
    <2>4. CASE /\ committed < expected
               /\ \E g \in InPush : AtStage(g, "write") /\ working[g.id].new.cfg[k] >= required[k]
      BY <1>1, <1>2, <2>4 DEF Due, AtStage
    <2> QED BY <2>2, <2>3, <2>4 DEF Due
  <1> QED BY <1>1, <1>2, <1>4, <1>5, <1>6 DEF RInv, ReadyWhenCommitted

(***************************************************************************)
(* The send moves a caller's request to the end of the channel, where it   *)
(* has the number after the last one received.                             *)
(***************************************************************************)
LEMMA SendMoves ==
  ASSUME PInv, NEW s \in Sources, SendToChannel(s), UNCHANGED pushVars,
         NEW k \in Kinds, NEW cs \in SUBSET Sources, NEW n \in Int, Coming(k, cs, n),
         s \in cs => Received + 1 <= n
  PROVE  Coming(k, cs \ {s}, n)'
  <1>1. /\ UNCHANGED <<req, debouncedEvents, pushes, committed, working>>
        /\ ch \in Seq(Inbound) /\ ch' = Append(ch, sending[s]) /\ sending[s] \in Inbound
        /\ sending' = [sending EXCEPT ![s] = NoRequest]
    BY DEF SendToChannel, loopVars, pushVars, PInv, AInv, IInv, Types
  <1>2. InPush' = InPush /\ EventsRunning' = EventsRunning
    BY <1>1 DEF InPush, EventsRunning, Debounced
  <1>3. /\ Len(ch') = Len(ch) + 1 /\ Len(ch) \in Nat
        /\ \A i \in 1..Len(ch) : ch'[i] = ch[i]
        /\ ch'[Len(ch) + 1] = sending[s]
    BY <1>1
  <1>4. ASSUME NEW t \in cs, Rebuilds(sending[t], k) PROVE Coming(k, cs \ {s}, n)'
    <2>1. CASE t = s
      <3>1. /\ Len(ch) + 1 \in 1..Len(ch')
            /\ (committed + EventsRunning + debouncedEvents)' + (Len(ch) + 1) <= n
        <4>1. Received + 1 <= n /\ committed \in Nat /\ EventsRunning \in Nat /\ debouncedEvents \in Nat
          BY <1>4, <2>1, EventsOfRunning DEF PInv, AInv, IInv, Types, Accounts
        <4>2. committed' = committed /\ EventsRunning' = EventsRunning
              /\ debouncedEvents' = debouncedEvents
          BY <1>1, <1>2
        <4> QED BY <1>3, <4>1, <4>2 DEF Received
      <3>2. Rebuilds(ch'[Len(ch) + 1], k)
        BY <1>3, <1>4, <2>1
      <3> QED BY <3>1, <3>2 DEF Coming
    <2>2. CASE t # s
      <3>1. sending'[t] = sending[t]
        BY <1>1, <2>2
      <3> QED BY <1>4, <2>2, <3>1 DEF Coming
    <2> QED BY <2>1, <2>2
  <1>5. ASSUME NEW i \in 1..Len(ch), committed + EventsRunning + debouncedEvents + i <= n,
               Rebuilds(ch[i], k)
        PROVE  Coming(k, cs \ {s}, n)'
    <2>1. i \in 1..Len(ch') /\ ch'[i] = ch[i]
      BY <1>3
    <2> QED BY <1>1, <1>2, <1>5, <2>1 DEF Coming
  <1>6. CASE committed + EventsRunning < n /\ Rebuilds(req, k)
    BY <1>1, <1>2, <1>6 DEF Coming
  <1>7. CASE committed < n /\ \E h \in InPush : Rebuilds(h.req, k)
                                             /\ working[h.id].pc \in {"start", "build"}
    BY <1>1, <1>2, <1>7 DEF Coming
  <1> QED BY <1>4, <1>5, <1>6, <1>7 DEF Coming

(***************************************************************************)
(* The channel takes the update of a caller.                               *)
(***************************************************************************)
LEMMA SendUpdateRInv ==
  ASSUME RInv, AInv', NEW s \in Sources, SendUpdate(s)
  PROVE  RInv'
  <1>1. /\ SendToChannel(s) /\ UNCHANGED pushVars
        /\ UNCHANGED <<inbound, committed, pushes, debouncedEvents, expected, required, ready,
                       store, env, working, failed>>
        /\ late' = late \ {s} /\ overtaken' = (overtaken \/ (late # {} /\ s \notin late))
    BY DEF SendUpdate, SendToChannel, loopVars, pushVars, waitVars
  <1>2. InPush' = InPush /\ EventsRunning' = EventsRunning /\ Debounced' = Debounced
    BY <1>1 DEF InPush, EventsRunning, Debounced
  <1>3. OnlyStarts
    BY <1>1, <1>2 DEF OnlyStarts, RInv, PInv, EdsDebounced
  <1>4. s \in Senders /\ Senders' = Senders \ {s}
    BY <1>1 DEF SendToChannel, Senders, RInv, PInv, AInv, IInv, Types
  <1>5. /\ Received \in Nat /\ Cardinality(Senders) \in Nat /\ Cardinality(Senders) >= 1
        /\ Received + Cardinality(Senders) <= inbound /\ inbound \in Nat /\ expected \in Int
    <2>1. IsFiniteSet(Senders) /\ Cardinality(Senders) \in Nat
      BY FS_CardinalityType DEF RInv, PInv, AInv, Accounts
    <2>2. Cardinality(Senders) # 0
      BY <1>4, <2>1, FS_EmptySet
    <2>3. Received \in Nat
      BY ReceivedIsNat DEF RInv, PInv
    <2> QED BY <2>1, <2>2, <2>3 DEF RInv, PInv, AInv, Accounts
  <1>6. Received' = Received + 1
    <2>1. Len(ch') = Len(ch) + 1 /\ Len(ch) \in Nat
      BY <1>1 DEF SendToChannel, RInv, PInv, AInv, IInv, Types
    <2>2. committed \in Nat /\ EventsRunning \in Nat /\ debouncedEvents \in Nat
      BY EventsOfRunning DEF RInv, PInv, AInv, IInv, Types, Accounts
    <2>3. committed' = committed /\ EventsRunning' = EventsRunning /\ debouncedEvents' = debouncedEvents
      BY <1>1, <1>2
    <2> QED BY <2>1, <2>2, <2>3 DEF Received
  <1>7. PInv'
    <2>1. NothingForgotten'
      <3>1. SUFFICES ASSUME ~failed, NEW k \in Kinds
                     PROVE  (Coming(k, Sources, inbound) \/ UpToDate(k))'
        BY <1>1 DEF NothingForgotten
      <3>2. CASE UpToDate(k)
        BY <1>3, <3>2, OnlyStartsKeeps DEF RInv
      <3>3. CASE Coming(k, Sources, inbound)
        <4>1. Received + 1 <= inbound /\ inbound \in Int
          BY <1>5
        <4>2. Coming(k, Sources \ {s}, inbound)'
          BY <1>1, <3>3, <4>1, SendMoves DEF RInv
        <4> QED BY <4>2 DEF Coming
      <3> QED BY <3>1, <3>2, <3>3 DEF RInv, PInv, NothingForgotten
    <2> QED BY <1>3, <2>1, OnlyStartsKeeps DEF RInv, PInv, OnlyStarts
  <1>8. ~overtaken' /\ late # {} => s \in late
    BY <1>1
  <1>9. LateCallersCounted'
    <2>1. late' \in SUBSET Senders'
      BY <1>1, <1>4 DEF RInv, LateCallersCounted
    <2>2. ASSUME expected' # Off, ~overtaken', late' # {}
          PROVE  Received' + Cardinality(late') <= expected'
      <3>1. s \in late /\ ~overtaken /\ expected # Off /\ late # {}
        BY <1>1, <1>8, <2>2
      <3>2. IsFiniteSet(late) /\ Cardinality(late) \in Nat
        BY FS_Subset, FS_CardinalityType DEF RInv, LateCallersCounted, PInv, AInv, Accounts
      <3>3. Cardinality(late') = Cardinality(late) - 1
        BY <1>1, <3>1, <3>2, FS_RemoveElement
      <3>4. Received + Cardinality(late) <= expected
        BY <3>1 DEF RInv, LateCallersCounted
      <3> QED BY <1>1, <1>5, <1>6, <3>2, <3>3, <3>4
    <2> QED BY <2>1, <2>2 DEF LateCallersCounted
  <1>10. RequiredIsDue'
    <2>1. SUFFICES ASSUME expected # Off, ~failed, ~overtaken', NEW k \in Kinds,
                          ~(env.cfg[k] >= required[k])
                   PROVE  Due(k)'
      BY <1>1 DEF RequiredIsDue
    <2>2. Due(k) /\ ~overtaken
      BY <1>1, <2>1 DEF RInv, RequiredIsDue
    <2>3. CASE Coming(k, late, expected)
      <3>1. s \in late => Received + 1 <= expected
        <4>1. SUFFICES ASSUME s \in late PROVE Received + 1 <= expected
          OBVIOUS
        <4>2. Received + Cardinality(late) <= expected
          BY <2>1, <2>2, <4>1 DEF RInv, LateCallersCounted
        <4>3. IsFiniteSet(late) /\ Cardinality(late) \in Nat
          BY FS_Subset, FS_CardinalityType DEF RInv, LateCallersCounted, PInv, AInv, Accounts
        <4>4. Cardinality(late) # 0
          BY <4>1, <4>3, FS_EmptySet
        <4> QED BY <1>5, <4>2, <4>3, <4>4
      <3>2. late \in SUBSET Sources
        BY DEF RInv, LateCallersCounted, Senders
      <3>3. Coming(k, late \ {s}, expected)'
        BY <1>1, <1>5, <2>3, <3>1, <3>2, SendMoves DEF RInv
      <3> QED BY <1>1, <3>3 DEF Due, Coming
    <2>4. CASE /\ committed < expected
               /\ \E g \in InPush : AtStage(g, "write") /\ working[g.id].new.cfg[k] >= required[k]
      BY <1>1, <1>2, <2>4 DEF Due, AtStage
    <2> QED BY <2>2, <2>3, <2>4 DEF Due
  <1> QED BY <1>1, <1>7, <1>9, <1>10 DEF RInv, ReadyWhenCommitted

(***************************************************************************)
(* A configuration change: the caller's request rebuilds every kind that   *)
(* changed.                                                                *)
(***************************************************************************)
LEMMA ChangeConfigRInv ==
  ASSUME RInv, AInv', NEW s \in Sources, NEW r \in Inbound, ChangeConfig(s, r)
  PROVE  RInv'
  <1>1. /\ sending[s] = NoRequest /\ sending' = [sending EXCEPT ![s] = r] /\ inbound' = inbound + 1
        /\ UNCHANGED <<ch, req, debouncedEvents, pushes, committed>>
        /\ UNCHANGED <<env, versionNum, working, announced, failed, handling, expected, required,
                       ready, late, overtaken>>
    BY DEF ChangeConfig, CountInbound, loopVars, readyVars, waitVars
  <1>2. PICK ks \in Changed(r) :
          store' = [k \in Kinds |-> IF k \in ks THEN store[k] + 1 ELSE store[k]]
    BY DEF ChangeConfig
  <1>3. InPush' = InPush /\ EventsRunning' = EventsRunning /\ Debounced' = Debounced
    BY <1>1 DEF InPush, EventsRunning, Debounced
  <1>4. /\ sending \in [Sources -> Inbound \cup {NoRequest}] /\ inbound \in Nat
        /\ store \in AnyContents /\ env \in AnyContext /\ r # NoRequest
    <2>1. r # NoRequest
      BY RequestAssumption DEF Inbound
    <2> QED BY <2>1 DEF RInv, PInv, AInv, IInv, Types, Accounts, PushTypes
  <1>5. /\ store' \in AnyContents
        /\ \A k \in Kinds : store'[k] >= store[k] /\ (k \notin ks => store'[k] = store[k])
    BY <1>2, <1>4 DEF AnyContents
  <1>6. \A k \in ks : Rebuilds(r, k)
    BY <1>2, <1>4 DEF Changed, Rebuilds, Affects
  <1>7. PushTypes' /\ IdleOutsidePush' /\ EdsDebounced' /\ WillBeAnnounced'
    BY <1>1, <1>3, <1>5 DEF RInv, PInv, PushTypes, IdleOutsidePush, EdsDebounced, WillBeAnnounced,
       AtStage
  <1>8. ContextBehindStore'
    <2>1. \A k \in Kinds : env.cfg[k] \in Nat /\ store[k] \in Nat /\ store'[k] \in Nat
      BY <1>4, <1>5 DEF AnyContext, AnyContents
    <2> QED BY <1>1, <1>5, <2>1 DEF RInv, PInv, ContextBehindStore
  <1>9. StagesInOrder'
    <2>1. SUFFICES ASSUME NEW g \in InPush
                   PROVE  LET w == working[g.id]
                          IN  /\ ~g.req.full => w.pc \in {"start", "pushAll", "return"}
                              /\ w.pc = "build" => w.old = env /\ w.new.num = versionNum
                              /\ w.pc = "write" =>
                                   /\ w.new.num = versionNum
                                   /\ \A k \in Kinds : w.new.cfg[k] \in env.cfg[k]..store'[k]
                              /\ w.pc = "pushAll" /\ g.debounced => w.new = env
      BY <1>1, <1>3 DEF StagesInOrder
    <2>2. ASSUME working[g.id].pc = "write", NEW k \in Kinds
          PROVE  working[g.id].new.cfg[k] \in env.cfg[k]..store'[k]
      <3>1. working[g.id].new.cfg[k] \in env.cfg[k]..store[k]
        BY <2>2 DEF RInv, PInv, StagesInOrder
      <3>2. env.cfg[k] \in Nat /\ store[k] \in Nat /\ store'[k] \in Nat /\ store'[k] >= store[k]
        BY <1>4, <1>5 DEF AnyContext, AnyContents
      <3> QED BY <3>1, <3>2
    <2> QED BY <2>2 DEF RInv, PInv, StagesInOrder
  <1>10. NothingForgotten'
    <2>1. SUFFICES ASSUME ~failed, NEW k \in Kinds
                   PROVE  (Coming(k, Sources, inbound) \/ UpToDate(k))'
      BY <1>1 DEF NothingForgotten
    <2>2. CASE k \in ks
      <3>1. Rebuilds(sending'[s], k)
        BY <1>1, <1>4, <1>6, <2>2
      <3> QED BY <3>1 DEF Coming
    <2>3. CASE k \notin ks /\ UpToDate(k)
      BY <1>1, <1>3, <1>5, <2>3 DEF UpToDate, AtStage
    <2>4. CASE Coming(k, Sources, inbound)
      <3>1. /\ committed \in Nat /\ EventsRunning \in Nat /\ debouncedEvents \in Nat
            /\ Len(ch) \in Nat
        BY EventsOfRunning, SMTT(40) DEF RInv, PInv, AInv, IInv, Types, Accounts
      <3>2. ASSUME NEW t \in Sources, Rebuilds(sending[t], k) PROVE Coming(k, Sources, inbound)'
        <4>1. t # s
          BY <1>1, <3>2 DEF Rebuilds, Affects
        <4>2. sending'[t] = sending[t]
          BY <1>1, <1>4, <4>1
        <4> QED BY <3>2, <4>2 DEF Coming
      <3>3. ASSUME NEW i \in 1..Len(ch), committed + EventsRunning + debouncedEvents + i <= inbound,
                   Rebuilds(ch[i], k)
            PROVE  Coming(k, Sources, inbound)'
        <4>1. committed + EventsRunning + debouncedEvents + i <= inbound'
          BY <1>1, <1>4, <3>1, <3>3
        <4> QED BY <1>1, <1>3, <3>3, <4>1 DEF Coming
      <3>4. CASE committed + EventsRunning < inbound /\ Rebuilds(req, k)
        <4>1. committed + EventsRunning < inbound'
          BY <1>1, <1>4, <3>1, <3>4
        <4> QED BY <1>1, <1>3, <3>4, <4>1 DEF Coming
      <3>5. CASE committed < inbound /\ \E h \in InPush : Rebuilds(h.req, k)
                                                 /\ working[h.id].pc \in {"start", "build"}
        <4>1. committed < inbound'
          BY <1>1, <1>4, <3>1, <3>5
        <4> QED BY <1>1, <1>3, <3>5, <4>1 DEF Coming
      <3> QED BY <2>4, <3>2, <3>3, <3>4, <3>5 DEF Coming
    <2> QED BY <2>1, <2>2, <2>3, <2>4 DEF RInv, PInv, NothingForgotten
  <1>11. PInv'
    BY <1>7, <1>8, <1>9, <1>10 DEF PInv
  <1>12. s \notin Senders /\ Senders \subseteq Senders' /\ Received' = Received
    BY <1>1, <1>3, <1>4 DEF Senders, Received
  <1>13. LateCallersCounted'
    BY <1>1, <1>12 DEF RInv, LateCallersCounted
  <1>14. \A k \in Kinds : required'[k] <= store'[k]
    <2>1. \A k \in Kinds : required[k] \in Nat /\ store[k] \in Nat /\ store'[k] \in Nat
      BY <1>4, <1>5 DEF AnyContents, RInv
    <2> QED BY <1>1, <1>5, <2>1 DEF RInv
  <1>15. RequiredIsDue'
    <2>1. \A t \in late : sending'[t] = sending[t]
      BY <1>1, <1>4, <1>12 DEF RInv, LateCallersCounted, Senders
    <2>2. \A k \in Kinds : Due(k) => Due(k)'
      BY <1>1, <1>3, <2>1 DEF Due, Coming, AtStage
    <2> QED BY <1>1, <2>2 DEF RInv, RequiredIsDue
  <1> QED BY <1>1, <1>11, <1>13, <1>14, <1>15 DEF RInv, ReadyWhenCommitted

-----------------------------------------------------------------------------
(***************************************************************************)
(* A stage of Push, by goroutine g, that leaves Debounce alone: what is to *)
(* be shown of it.  w is what g has in hand afterwards.                    *)
(***************************************************************************)
StageOf(g, w) ==
  /\ w \in Stages
  /\ working' = [working EXCEPT ![g.id] = w]
  /\ UNCHANGED <<debounceVars, store, handling, readyVars>>

(***************************************************************************)
(* A push that goes from one stage to the next leaves everything else      *)
(* alone.                                                                  *)
(***************************************************************************)
LEMMA StageKeeps ==
  ASSUME PInv, NEW g \in InPush, NEW w, StageOf(g, w)
  PROVE  /\ AInv' /\ InPush' = InPush /\ IdleOutsidePush' /\ EdsDebounced'
         /\ working' \in [0..MaxUpdates -> Stages]
         /\ working'[g.id] = w
         /\ \A h \in InPush : h # g => working'[h.id] = working[h.id]
         /\ UNCHANGED <<sending, ch, req, debouncedEvents, committed, inbound, store,
                        EventsRunning, Senders, Received>>
         /\ UNCHANGED <<expected, required, ready, late, overtaken>>
  <1>1. /\ UNCHANGED debounceVars /\ UNCHANGED store /\ UNCHANGED readyVars
        /\ working' = [working EXCEPT ![g.id] = w] /\ w \in Stages
    BY DEF StageOf
  <1>2. AInv'
    BY <1>1, NextAInv DEF PInv
  <1>3. UNCHANGED <<sending, ch, req, debouncedEvents, committed, inbound, pushes>>
    BY <1>1 DEF debounceVars
  <1>4. InPush' = InPush /\ EdsDebounced' /\ UNCHANGED <<EventsRunning, Senders, Received>>
    BY <1>3 DEF InPush, PInv, EdsDebounced, Debounced, EventsRunning, Senders, Received
  <1>5. /\ working' \in [0..MaxUpdates -> Stages]
        /\ working'[g.id] = w
        /\ \A h \in InPush : h # g => working'[h.id] = working[h.id]
    BY <1>1, InPushFacts DEF PInv, PushTypes
  <1>6. IdleOutsidePush'
    BY <1>1, <1>4 DEF PInv, PushTypes, IdleOutsidePush
  <1>7. UNCHANGED <<expected, required, ready, late, overtaken>>
    BY <1>1 DEF readyVars, waitVars
  <1> QED BY <1>1, <1>2, <1>3, <1>4, <1>5, <1>6, <1>7

(***************************************************************************)
(* The other pushes that run beside a debounced one are about endpoints.   *)
(***************************************************************************)
LEMMA OthersAreEds ==
  ASSUME PInv, NEW g \in InPush, g.debounced, NEW h \in InPush, h # g
  PROVE  /\ ~h.debounced /\ ~h.req.full
         /\ working[h.id].pc \in {"start", "pushAll", "return"}
  <1>1. ~h.debounced /\ ~h.req.full
    BY InPushFacts
  <1> QED BY <1>1 DEF PInv, StagesInOrder

(***************************************************************************)
(* As long as g's stage does not change what it will rebuild, nothing      *)
(* changes about what is coming.                                           *)
(***************************************************************************)
LEMMA StagePasses ==
  ASSUME PInv, NEW g \in InPush, NEW w, StageOf(g, w), NEW k \in Kinds,
         Rebuilds(g.req, k) /\ working[g.id].pc \in {"start", "build"} => w.pc \in {"start", "build"}
  PROVE  \A cs, n : Coming(k, cs, n) => Coming(k, cs, n)'
  <1>1. /\ InPush' = InPush /\ working'[g.id] = w
        /\ \A h \in InPush : h # g => working'[h.id] = working[h.id]
        /\ UNCHANGED <<sending, ch, req, debouncedEvents, committed, EventsRunning>>
    BY StageKeeps
  <1>2. \A h \in InPush : Rebuilds(h.req, k) /\ working[h.id].pc \in {"start", "build"}
                           => working'[h.id].pc \in {"start", "build"}
    BY <1>1
  <1> QED BY <1>1, <1>2 DEF Coming

(***************************************************************************)
(* And it keeps what is required, if what it builds is no older.           *)
(***************************************************************************)
LEMMA StageRInv ==
  ASSUME RInv, PInv', NEW g \in InPush, NEW w, StageOf(g, w),
         ~failed' => ~failed /\ \A k \in Kinds : env.cfg[k] >= required[k] \/ Due(k)
                                  => (env.cfg[k] >= required[k] \/ Due(k))'
  PROVE  RInv'
  <1>1. UNCHANGED <<expected, required, ready, late, overtaken, store, committed, Senders, Received>>
    BY StageKeeps DEF RInv
  <1>2. LateCallersCounted'
    BY <1>1 DEF RInv, LateCallersCounted
  <1>3. RequiredIsDue'
    BY <1>1 DEF RInv, RequiredIsDue
  <1> QED BY <1>1, <1>2, <1>3 DEF RInv, ReadyWhenCommitted

(***************************************************************************)
(* Start of a full push: a new version number, and the context it starts   *)
(* from.                                                                   *)
(***************************************************************************)
LEMMA StartFullRInv ==
  ASSUME RInv, NEW g \in InPush, StartPush(g), g.req.full
  PROVE  RInv'
  <1> DEFINE new == [Empty EXCEPT !.num = versionNum + 1]
             w   == [pc |-> "build", old |-> env, new |-> new]
  <1>1. /\ versionNum' = versionNum + 1 /\ working' = [working EXCEPT ![g.id] = w]
        /\ UNCHANGED <<env, announced, failed>> /\ working[g.id].pc = "start" /\ ~handling'
        /\ UNCHANGED <<debounceVars, store, handling, readyVars>>
    BY DEF StartPush, At, RInv, PInv, PushTypes
  <1>2. versionNum \in Nat /\ env \in AnyContext /\ store \in AnyContents /\ announced \in Nat
    BY DEF RInv, PInv, PushTypes
  <1>3. w \in Stages /\ w.pc = "build" /\ w.old = env /\ w.new.num = versionNum + 1
    BY <1>2, IdleStage DEF Stages, AnyContext
  <1> HIDE DEF w, new
  <1>4. StageOf(g, w)
    BY <1>1, <1>3 DEF StageOf
  <1>5. /\ AInv' /\ InPush' = InPush /\ IdleOutsidePush' /\ EdsDebounced'
        /\ working' \in [0..MaxUpdates -> Stages] /\ working'[g.id] = w
        /\ \A h \in InPush : h # g => working'[h.id] = working[h.id]
        /\ UNCHANGED <<store, committed, inbound, expected, required, late>>
    BY <1>4, StageKeeps DEF RInv
  <1>6. g.debounced /\ \A h \in InPush : h # g =>
          ~h.debounced /\ ~h.req.full /\ working[h.id].pc \in {"start", "pushAll", "return"}
    BY InPushFacts, OthersAreEds DEF RInv
  <1>7. \A h \in InPush : ~AtStage(h, "write") /\ ~AtStage(h, "write")'
                           /\ (AtStage(h, "pushAll") => AtStage(h, "pushAll")')
    BY <1>1, <1>3, <1>5, <1>6 DEF AtStage
  <1>8. \A k \in Kinds : \A cs, n : Coming(k, cs, n) => Coming(k, cs, n)'
    BY <1>3, <1>4, StagePasses DEF RInv
  <1>9. PInv'
    <2>1. PushTypes'
      BY <1>1, <1>2, <1>5 DEF PushTypes
    <2>2. StagesInOrder'
      BY <1>1, <1>3, <1>5, <1>6 DEF RInv, PInv, StagesInOrder
    <2>3. ContextBehindStore'
      BY <1>1, <1>2, <1>5 DEF RInv, PInv, ContextBehindStore, AnyContext
    <2>4. NothingForgotten'
      BY <1>1, <1>5, <1>7, <1>8 DEF RInv, PInv, NothingForgotten, UpToDate
    <2>5. WillBeAnnounced'
      BY <1>1, <1>5, <1>7 DEF RInv, PInv, WillBeAnnounced
    <2> QED BY <1>5, <2>1, <2>2, <2>3, <2>4, <2>5 DEF PInv
  <1>10. \A k \in Kinds : Due(k) => Due(k)'
    BY <1>5, <1>7, <1>8 DEF Due
  <1> QED BY <1>1, <1>4, <1>5, <1>9, <1>10, StageRInv

(***************************************************************************)
(* Start of an EDS push: the global context as it is.                      *)
(***************************************************************************)
LEMMA StartEdsRInv ==
  ASSUME RInv, NEW g \in InPush, StartPush(g), ~g.req.full
  PROVE  RInv'
  <1> DEFINE w == [pc |-> "pushAll", old |-> Empty, new |-> env]
  <1>1. /\ working' = [working EXCEPT ![g.id] = w] /\ working[g.id].pc = "start"
        /\ UNCHANGED <<env, announced, failed, versionNum>> /\ ~handling'
        /\ UNCHANGED <<debounceVars, store, handling, readyVars>>
    BY DEF StartPush, At, RInv, PInv, PushTypes
  <1>2. w \in Stages /\ w.pc = "pushAll" /\ w.new = env
    BY IdleStage DEF Stages, RInv, PInv, PushTypes
  <1> HIDE DEF w
  <1>3. StageOf(g, w)
    BY <1>1, <1>2 DEF StageOf
  <1>4. /\ AInv' /\ InPush' = InPush /\ IdleOutsidePush' /\ EdsDebounced'
        /\ working' \in [0..MaxUpdates -> Stages] /\ working'[g.id] = w
        /\ \A h \in InPush : h # g => working'[h.id] = working[h.id]
        /\ UNCHANGED <<store, committed, inbound, expected, required, late>>
    BY <1>3, StageKeeps DEF RInv
  <1>5. \A h \in InPush : /\ AtStage(h, "write")' <=> AtStage(h, "write")
                          /\ AtStage(h, "write") => working'[h.id] = working[h.id]
                          /\ AtStage(h, "pushAll") => AtStage(h, "pushAll")'
    BY <1>1, <1>2, <1>4 DEF AtStage
  <1>6. \A k \in Kinds : \A cs, n : Coming(k, cs, n) => Coming(k, cs, n)'
    BY <1>3, StagePasses DEF RInv, Rebuilds
  <1>7. PInv'
    <2>1. PushTypes'
      BY <1>1, <1>4 DEF RInv, PInv, PushTypes
    <2>2. StagesInOrder'
      BY <1>1, <1>2, <1>4 DEF RInv, PInv, StagesInOrder
    <2>3. ContextBehindStore'
      BY <1>1, <1>4 DEF RInv, PInv, ContextBehindStore
    <2>4. NothingForgotten'
      BY <1>1, <1>4, <1>5, <1>6 DEF RInv, PInv, NothingForgotten, UpToDate
    <2>5. WillBeAnnounced'
      BY <1>1, <1>4, <1>5 DEF RInv, PInv, WillBeAnnounced
    <2> QED BY <1>4, <2>1, <2>2, <2>3, <2>4, <2>5 DEF PInv
  <1>8. \A k \in Kinds : Due(k) => Due(k)'
    BY <1>4, <1>5, <1>6 DEF Due
  <1> QED BY <1>1, <1>3, <1>4, <1>7, <1>8, StageRInv

(***************************************************************************)
(* InitContext: what the request names is taken from the store, the rest   *)
(* from the context the push started from, which is still the global one.  *)
(***************************************************************************)
LEMMA BuildRInv ==
  ASSUME RInv, NEW g \in InPush, At(g, "build"),
         working' = [working EXCEPT ![g.id].pc = "write", ![g.id].old = Empty,
                       ![g.id].new.cfg = InitContext(working[g.id].old, g.req)],
         UNCHANGED <<debounceVars, store, env, versionNum, announced, failed, handling, readyVars>>
  PROVE  RInv'
  <1> DEFINE cfg == InitContext(working[g.id].old, g.req)
             w   == [working[g.id] EXCEPT !.pc = "write", !.old = Empty, !.new.cfg = cfg]
  <1>1. /\ working[g.id] \in Stages /\ g.id \in 0..MaxUpdates /\ working[g.id].pc = "build"
        /\ working[g.id].old = env /\ working[g.id].new.num = versionNum /\ g.req.full
        /\ g.debounced
    <2>1. working[g.id].pc = "build"
      BY DEF At
    <2>2. g.req.full
      BY <2>1 DEF RInv, PInv, StagesInOrder
    <2> QED BY <2>1, <2>2, InPushFacts DEF RInv, PInv, StagesInOrder
  <1>2. env \in AnyContext /\ store \in AnyContents /\ \A k \in Kinds : env.cfg[k] <= store[k]
    BY DEF RInv, PInv, PushTypes, ContextBehindStore
  <1>3. /\ cfg \in AnyContents
        /\ \A k \in Kinds : cfg[k] = store[k] \/ (cfg[k] = env.cfg[k] /\ ~Rebuilds(g.req, k))
    <2>1. \A k \in Kinds : cfg[k] = IF env.num = 0 \/ g.req.configs = {} \/ k \in g.req.configs
                                     THEN store[k] ELSE env.cfg[k]
      BY <1>1 DEF InitContext
    <2>2. cfg \in AnyContents
      BY <1>1, <1>2 DEF InitContext, AnyContext, AnyContents
    <2> QED BY <1>1, <2>1, <2>2 DEF Rebuilds, Affects
  <1> HIDE DEF cfg
  <1>4. w \in Stages /\ w.pc = "write" /\ w.new.num = versionNum /\ w.new.cfg = cfg
    BY <1>1, <1>3, IdleStage DEF Stages, AnyContext
  <1>5. working' = [working EXCEPT ![g.id] = w]
    BY <1>1 DEF cfg, RInv, PInv, PushTypes
  <1> HIDE DEF w
  <1>6. StageOf(g, w)
    BY <1>4, <1>5 DEF StageOf
  <1>7. /\ AInv' /\ InPush' = InPush /\ IdleOutsidePush' /\ EdsDebounced'
        /\ working' \in [0..MaxUpdates -> Stages] /\ working'[g.id] = w
        /\ \A h \in InPush : h # g => working'[h.id] = working[h.id]
        /\ UNCHANGED <<sending, ch, req, debouncedEvents, committed, inbound, store, EventsRunning,
                       expected, required, late>>
    BY <1>6, StageKeeps DEF RInv
  <1>8. \A h \in InPush : h # g =>
          ~h.debounced /\ ~h.req.full /\ working[h.id].pc \in {"start", "pushAll", "return"}
    BY <1>1, OthersAreEds DEF RInv
  <1>9. \A h \in InPush : ~AtStage(h, "write") /\ (AtStage(h, "pushAll") => AtStage(h, "pushAll")')
    BY <1>1, <1>7, <1>8 DEF AtStage
  <1>10. AtStage(g, "write")'
    BY <1>4, <1>7 DEF AtStage
  <1>11. ASSUME NEW k \in Kinds, ~Rebuilds(g.req, k)
         PROVE  \A cs, n : Coming(k, cs, n) => Coming(k, cs, n)'
    BY <1>6, <1>11, StagePasses DEF RInv
  <1>12. PInv'
    <2>1. PushTypes'
      BY <1>7, SMTT(40) DEF RInv, PInv, PushTypes
    <2>2. StagesInOrder'
      <3>1. \A k \in Kinds : w.new.cfg[k] \in env.cfg[k]..store[k]
        BY <1>2, <1>3, <1>4 DEF AnyContext, AnyContents
      <3> QED BY <1>1, <1>4, <1>7, <1>8, <3>1 DEF RInv, PInv, StagesInOrder
    <2>3. ContextBehindStore'
      BY <1>7 DEF RInv, PInv, ContextBehindStore
    <2>4. NothingForgotten'
      <3>1. SUFFICES ASSUME ~failed, NEW k \in Kinds
                     PROVE  (Coming(k, Sources, inbound) \/ UpToDate(k))'
        BY DEF NothingForgotten
      <3>2. CASE cfg[k] = store[k]
        BY <1>4, <1>7, <1>10, <3>2 DEF UpToDate
      <3>3. CASE cfg[k] = env.cfg[k] /\ ~Rebuilds(g.req, k)
        <4>1. CASE UpToDate(k)
          BY <1>4, <1>7, <1>9, <1>10, <3>3, <4>1 DEF UpToDate
        <4>2. CASE Coming(k, Sources, inbound)
          BY <1>7, <1>11, <3>3, <4>2
        <4> QED BY <3>1, <4>1, <4>2 DEF RInv, PInv, NothingForgotten
      <3> QED BY <1>3, <3>2, <3>3
    <2>5. WillBeAnnounced'
      BY <1>7, <1>9 DEF RInv, PInv, WillBeAnnounced
    <2> QED BY <1>7, <2>1, <2>2, <2>3, <2>4, <2>5 DEF PInv
  <1>13. ASSUME NEW k \in Kinds, Due(k) PROVE Due(k)'
    <2>1. CASE Rebuilds(g.req, k) /\ committed < expected
      <3>1. cfg[k] >= required[k]
        BY <1>2, <1>3, <2>1 DEF RInv, AnyContents
      <3> QED BY <1>4, <1>7, <1>10, <2>1, <3>1 DEF Due
    <2>2. CASE Coming(k, late, expected)
      <3>0. /\ late' = late /\ expected' = expected /\ sending' = sending /\ ch' = ch /\ req' = req
            /\ committed' = committed /\ EventsRunning' = EventsRunning
            /\ debouncedEvents' = debouncedEvents
        BY <1>7
      <3>1. CASE ~Rebuilds(g.req, k)
        <4>1. PICK cs, n : cs = late /\ n = expected
          OBVIOUS
        <4>2. Coming(k, cs, n)'
          BY <1>11, <2>2, <3>1, <4>1
        <4> QED BY <3>0, <4>1, <4>2 DEF Due
      <3>2. CASE ~(committed < expected)
        BY <2>2, <3>0, <3>2 DEF Due, Coming
      <3> QED BY <2>1, <3>1, <3>2
    <2>3. CASE \E h \in InPush : AtStage(h, "write")
      BY <1>9, <2>3
    <2>4. Coming(k, late, expected) \/ \E h \in InPush : AtStage(h, "write")
      BY <1>13 DEF Due
    <2> QED BY <2>2, <2>3, <2>4
  <1> QED BY <1>6, <1>7, <1>12, <1>13, StageRInv

(***************************************************************************)
(* InitContext fails: the push is dropped, and so are all promises.        *)
(***************************************************************************)
LEMMA BuildFailsRInv ==
  ASSUME RInv, NEW g \in InPush, At(g, "build"),
         working' = [working EXCEPT ![g.id] = [Idle EXCEPT !.pc = "return"]], failed' = TRUE,
         UNCHANGED <<debounceVars, store, env, versionNum, announced, handling, readyVars>>
  PROVE  RInv'
  <1> DEFINE w == [Idle EXCEPT !.pc = "return"]
  <1>1. w \in Stages /\ w.pc = "return"
    BY IdleStage DEF Stages
  <1> HIDE DEF w
  <1>2. StageOf(g, w)
    BY <1>1 DEF StageOf, w
  <1>3. /\ AInv' /\ InPush' = InPush /\ IdleOutsidePush' /\ EdsDebounced'
        /\ working' \in [0..MaxUpdates -> Stages] /\ working'[g.id] = w
        /\ \A h \in InPush : h # g => working'[h.id] = working[h.id]
        /\ store' = store
    BY <1>2, StageKeeps DEF RInv
  <1>4. working[g.id].pc = "build"
    BY DEF At
  <1>5. PInv'
    <2>1. PushTypes'
      BY <1>3 DEF RInv, PInv, PushTypes
    <2>2. StagesInOrder'
      BY <1>1, <1>3 DEF RInv, PInv, StagesInOrder
    <2>3. ContextBehindStore' /\ NothingForgotten'
      BY <1>3 DEF RInv, PInv, ContextBehindStore, NothingForgotten
    <2>4. WillBeAnnounced'
      BY <1>3, <1>4 DEF RInv, PInv, WillBeAnnounced, AtStage
    <2> QED BY <1>3, <2>1, <2>2, <2>3, <2>4 DEF PInv
  <1> QED BY <1>2, <1>5, StageRInv

(***************************************************************************)
(* The new context is published: no kind goes back, and nobody else has    *)
(* one to write.                                                           *)
(***************************************************************************)
LEMMA WriteRInv ==
  ASSUME RInv, NEW g \in InPush, WriteContext(g)
  PROVE  RInv'
  <1> DEFINE w == [working[g.id] EXCEPT !.pc = "pushAll"]
             new == working[g.id].new
  <1>1. /\ working[g.id] \in Stages /\ g.id \in 0..MaxUpdates /\ working[g.id].pc = "write"
        /\ g.req.full /\ g.debounced
        /\ new.num = versionNum /\ \A k \in Kinds : new.cfg[k] \in env.cfg[k]..store[k]
    <2>1. working[g.id].pc = "write"
      BY DEF WriteContext, At
    <2>2. g.req.full
      BY <2>1 DEF RInv, PInv, StagesInOrder
    <2> QED BY <2>1, <2>2, InPushFacts DEF RInv, PInv, StagesInOrder
  <1>2. /\ env' = new /\ UNCHANGED <<versionNum, announced, failed>> /\ ~handling'
        /\ working' = [working EXCEPT ![g.id].pc = "pushAll"]
        /\ UNCHANGED <<debounceVars, store, handling, readyVars>>
    BY DEF WriteContext, RInv, PInv, PushTypes
  <1>3. env \in AnyContext /\ store \in AnyContents /\ new \in AnyContext /\ versionNum \in Nat
        /\ announced \in Nat
    BY <1>1 DEF RInv, PInv, PushTypes, Stages
  <1>4. w \in Stages /\ w.pc = "pushAll" /\ w.new = new
    BY <1>1 DEF Stages
  <1>5. working' = [working EXCEPT ![g.id] = w]
    BY <1>1, <1>2 DEF RInv, PInv, PushTypes
  <1> HIDE DEF w, new
  <1>6. StageOf(g, w)
    BY <1>2, <1>4, <1>5 DEF StageOf
  <1>7. /\ AInv' /\ InPush' = InPush /\ IdleOutsidePush' /\ EdsDebounced'
        /\ working' \in [0..MaxUpdates -> Stages] /\ working'[g.id] = w
        /\ \A h \in InPush : h # g => working'[h.id] = working[h.id]
        /\ UNCHANGED <<committed, inbound, store, expected, required, late>>
    BY <1>6, StageKeeps DEF RInv
  <1>8. \A h \in InPush : h # g =>
          ~h.debounced /\ ~h.req.full /\ working[h.id].pc \in {"start", "pushAll", "return"}
    BY <1>1, OthersAreEds DEF RInv
  <1>9. /\ AtStage(g, "write") /\ AtStage(g, "pushAll")'
        /\ \A h \in InPush : ~AtStage(h, "write")' /\ (AtStage(h, "write") => h = g)
    BY <1>1, <1>4, <1>7, <1>8 DEF AtStage
  <1>10. \A k \in Kinds : \A cs, n : Coming(k, cs, n) => Coming(k, cs, n)'
    BY <1>1, <1>6, StagePasses DEF RInv
  <1>11. PInv'
    <2>1. PushTypes'
      BY <1>2, <1>3, <1>7 DEF PushTypes
    <2>2. StagesInOrder'
      BY <1>1, <1>2, <1>4, <1>7, <1>8 DEF RInv, PInv, StagesInOrder
    <2>3. ContextBehindStore'
      BY <1>1, <1>2, <1>3, <1>7 DEF ContextBehindStore, AnyContext, AnyContents
    <2>4. NothingForgotten'
      <3>1. \A k \in Kinds : UpToDate(k) => UpToDate(k)'
        BY <1>2, <1>7, <1>9 DEF UpToDate, new
      <3> QED BY <1>2, <1>7, <1>10, <3>1 DEF RInv, PInv, NothingForgotten
    <2>5. WillBeAnnounced'
      BY <1>7, <1>9 DEF WillBeAnnounced
    <2> QED BY <1>7, <2>1, <2>2, <2>3, <2>4, <2>5 DEF PInv
  <1>12. ASSUME NEW k \in Kinds, env.cfg[k] >= required[k] \/ Due(k)
         PROVE  (env.cfg[k] >= required[k] \/ Due(k))'
    <2>1. CASE Coming(k, late, expected)
      BY <1>7, <1>10, <2>1 DEF Due
    <2>2. CASE env.cfg[k] >= required[k]
      <3>1. env.cfg[k] \in Nat /\ new.cfg[k] \in Nat /\ required[k] \in Nat /\ new.cfg[k] >= env.cfg[k]
        BY <1>1, <1>3 DEF RInv, AnyContext, AnyContents
      <3> QED BY <1>2, <1>7, <2>2, <3>1
    <2>3. CASE \E h \in InPush : AtStage(h, "write") /\ working[h.id].new.cfg[k] >= required[k]
      BY <1>2, <1>7, <1>9, <2>3 DEF new
    <2> QED BY <1>12, <2>1, <2>2, <2>3 DEF Due
  <1> QED BY <1>2, <1>6, <1>11, <1>12, StageRInv

(***************************************************************************)
(* AdsPushAll: with EDS debouncing on, the context announced is the one    *)
(* last published.                                                         *)
(***************************************************************************)
LEMMA AdsPushAllRInv ==
  ASSUME RInv, NEW g \in InPush, AdsPushAll(g)
  PROVE  RInv'
  <1> DEFINE w == [Idle EXCEPT !.pc = "return"]
  <1>1. w \in Stages /\ w.pc = "return"
    BY IdleStage DEF Stages
  <1>2. /\ announced' = working[g.id].new.num /\ working' = [working EXCEPT ![g.id] = w]
        /\ UNCHANGED <<env, versionNum, failed>> /\ ~handling' /\ working[g.id].pc = "pushAll"
        /\ UNCHANGED <<debounceVars, store, handling, readyVars>>
    BY DEF AdsPushAll, At, RInv, PInv, PushTypes
  <1> HIDE DEF w
  <1>3. StageOf(g, w)
    BY <1>1, <1>2 DEF StageOf
  <1>4. /\ AInv' /\ InPush' = InPush /\ IdleOutsidePush' /\ EdsDebounced'
        /\ working' \in [0..MaxUpdates -> Stages] /\ working'[g.id] = w
        /\ \A h \in InPush : h # g => working'[h.id] = working[h.id]
        /\ UNCHANGED <<store, committed, inbound, expected, required, late>>
    BY <1>3, StageKeeps DEF RInv
  <1>5. \A h \in InPush : /\ AtStage(h, "write")' <=> AtStage(h, "write")
                          /\ AtStage(h, "write") => working'[h.id] = working[h.id]
    BY <1>1, <1>2, <1>4 DEF AtStage
  <1>6. \A k \in Kinds : \A cs, n : Coming(k, cs, n) => Coming(k, cs, n)'
    BY <1>2, <1>3, StagePasses DEF RInv
  <1>7. PInv'
    <2>1. PushTypes'
      <3>1. working[g.id].new.num \in Nat
        BY InPushFacts DEF RInv, Stages, AnyContext
      <3> QED BY <1>2, <1>4, <3>1 DEF RInv, PInv, PushTypes
    <2>2. StagesInOrder'
      BY <1>1, <1>2, <1>4 DEF RInv, PInv, StagesInOrder
    <2>3. ContextBehindStore'
      BY <1>2, <1>4 DEF RInv, PInv, ContextBehindStore
    <2>4. NothingForgotten'
      BY <1>2, <1>4, <1>5, <1>6 DEF RInv, PInv, NothingForgotten, UpToDate
    <2>5. WillBeAnnounced'
      <3>1. SUFFICES ASSUME EnableEDSDebounce PROVE announced' = env.num
        BY <1>2 DEF WillBeAnnounced
      <3>2. g.debounced
        BY <3>1, InPushFacts DEF RInv, PInv, EdsDebounced, Debounced
      <3> QED BY <1>2, <3>2 DEF RInv, PInv, StagesInOrder
    <2> QED BY <1>4, <2>1, <2>2, <2>3, <2>4, <2>5 DEF PInv
  <1>8. \A k \in Kinds : Due(k) => Due(k)'
    BY <1>4, <1>5, <1>6 DEF Due
  <1> QED BY <1>2, <1>3, <1>4, <1>7, <1>8, StageRInv

(***************************************************************************)
(* The end of pushFn: what it pushed counts as committed, which is no      *)
(* news to a request behind it.                                            *)
(***************************************************************************)
LEMMA PushReturnsRInv ==
  ASSUME RInv, AInv', NEW g \in InPush, PushReturns(g)
  PROVE  RInv'
  <1>1. g \in Started /\ g \in pushes /\ g.id \in 0..MaxUpdates /\ g.id # 0 /\ g.pc = "pushFn"
    <2>1. g \in pushes /\ g.id \in 1..spawned
      BY DEF RInv, PInv, AInv, GoroutinesNumbered, InPush
    <2> QED BY <2>1, InPushFacts DEF RInv
  <1>2. g # HandlerPush
    BY <1>1 DEF HandlerPush
  <1>3. /\ PushFnReturns(g) /\ working' = [working EXCEPT ![g.id] = Idle] /\ working[g.id].pc = "return"
        /\ UNCHANGED <<handling, store, env, versionNum, announced, failed, expected, required,
                       ready, late, overtaken>>
    BY <1>2 DEF PushReturns, At, readyVars, waitVars
  <1>4. UNCHANGED <<sending, inbound, ch, req, debouncedEvents>>
    BY <1>3 DEF PushFnReturns, callerVars, loopVars
  <1>5. InPush' = InPush \ {g}
    BY <1>1, <1>3 DEF PushFnReturns, InPush, Started
  <1>6. /\ working' \in [0..MaxUpdates -> Stages]
        /\ working'[g.id] = Idle
        /\ \A h \in InPush' : working'[h.id] = working[h.id]
    BY <1>1, <1>3, <1>5, IdleStage, InPushFacts DEF RInv, PInv, PushTypes
  <1>7. /\ committed' >= committed /\ committed' \in Nat /\ committed \in Nat
        /\ committed' + EventsRunning' = committed + EventsRunning
        /\ ~g.debounced => committed' = committed
    <2>1. committed \in Nat /\ g.events \in Nat
      BY <1>1 DEF RInv, PInv, AInv, Accounts, Started
    <2>2. CASE g.debounced
      <3> DEFINE h == [g EXCEPT !.pc = "free"]
      <3>1. committed' = committed + g.events /\ pushes' = (pushes \ {g}) \cup {h}
        BY <1>3, <2>2 DEF PushFnReturns
      <3>2. h.pc = "free"
        BY <1>1 DEF Started
      <3> HIDE DEF h
      <3>3. \A i \in Debounced : i = g
        BY <1>1, <2>2 DEF RInv, PInv, AInv, IInv, OnePushAtATime, Debounced
      <3>4. EventsRunning = g.events
        BY <1>1, <2>2, EventsOfRunning DEF RInv, PInv, AInv, Debounced
      <3>5. \A i \in Debounced' : i.pc # "pushFn"
        BY <3>1, <3>2, <3>3 DEF Debounced
      <3>6. EventsRunning' = 0
        BY <3>5, EventsOfRunningNext DEF AInv
      <3> QED BY <2>1, <2>2, <3>1, <3>4, <3>6
    <2>3. CASE ~g.debounced
      <3>1. committed' = committed /\ pushes' = pushes \ {g}
        BY <1>3, <2>3 DEF PushFnReturns
      <3>2. Debounced' = Debounced
        BY <2>3, <3>1 DEF Debounced
      <3>3. EventsRunning' = EventsRunning
        BY <3>2 DEF EventsRunning
      <3> QED BY <2>1, <3>1, <3>3
    <2> QED BY <2>2, <2>3
  <1>8. \A h \in InPush' : h.req.full => committed' = committed
    BY <1>5, <1>7, InPushFacts DEF RInv
  <1>9. \A h \in InPush : working[h.id].pc # "return" => h \in InPush'
    BY <1>3, <1>5
  <1>10. Received' = Received /\ Senders' = Senders
    <2>1. debouncedEvents \in Nat /\ Len(ch) \in Nat /\ EventsRunning \in Nat /\ EventsRunning' \in Nat
      BY EventsOfRunning, EventsOfRunningNext DEF RInv, PInv, AInv, IInv, Types
    <2> QED BY <1>4, <1>7, <2>1 DEF Received, Senders
  <1>11. ASSUME NEW k \in Kinds, NEW cs, NEW n \in Int, Coming(k, cs, n)
         PROVE  Coming(k, cs, n)'
    <2>1. CASE committed < n /\ \E h \in InPush : Rebuilds(h.req, k)
                                               /\ working[h.id].pc \in {"start", "build"}
      <3>1. PICK h \in InPush : Rebuilds(h.req, k) /\ working[h.id].pc \in {"start", "build"}
        BY <2>1
      <3>2. h \in InPush' /\ working'[h.id] = working[h.id] /\ committed' = committed
        BY <1>6, <1>8, <1>9, <3>1 DEF Rebuilds
      <3> QED BY <2>1, <3>1, <3>2 DEF Coming
    <2>2. CASE ~(committed < n /\ \E h \in InPush : Rebuilds(h.req, k)
                                                 /\ working[h.id].pc \in {"start", "build"})
      BY <1>4, <1>7, <1>11, <2>2 DEF Coming
    <2> QED BY <2>1, <2>2
  <1>12. \A h \in InPush : /\ AtStage(h, "write") => AtStage(h, "write")' /\ h \in InPush'
                           /\ AtStage(h, "pushAll") => AtStage(h, "pushAll")' /\ h \in InPush'
    BY <1>6, <1>9 DEF AtStage
  <1>13. PInv'
    <2>1. PushTypes'
      BY <1>3, <1>6 DEF RInv, PInv, PushTypes
    <2>2. IdleOutsidePush'
      BY <1>1, <1>3, <1>5, <1>6 DEF RInv, PInv, PushTypes, IdleOutsidePush
    <2>3. EdsDebounced'
      <3>1. ASSUME NEW i \in pushes' PROVE i \in pushes \/ (i = [g EXCEPT !.pc = "free"] /\ g.debounced)
        BY <1>3 DEF PushFnReturns
      <3>2. [g EXCEPT !.pc = "free"].debounced = g.debounced
        BY <1>1 DEF Started
      <3> QED BY <3>1, <3>2 DEF RInv, PInv, EdsDebounced, Debounced
    <2>4. StagesInOrder'
      BY <1>3, <1>5, <1>6 DEF RInv, PInv, StagesInOrder
    <2>5. ContextBehindStore'
      BY <1>3 DEF RInv, PInv, ContextBehindStore
    <2>6. NothingForgotten'
      <3>1. inbound \in Int
        BY DEF RInv, PInv, AInv, Accounts
      <3>2. \A k \in Kinds : UpToDate(k) => UpToDate(k)'
        BY <1>3, <1>5, <1>6, <1>12 DEF UpToDate, AtStage
      <3> QED BY <1>3, <1>4, <1>11, <3>1, <3>2 DEF RInv, PInv, NothingForgotten
    <2>7. WillBeAnnounced'
      BY <1>3, <1>12 DEF RInv, PInv, WillBeAnnounced
    <2> QED BY <2>1, <2>2, <2>3, <2>4, <2>5, <2>6, <2>7 DEF PInv
  <1>14. ASSUME NEW k \in Kinds, Due(k) PROVE Due(k)'
    <2>1. CASE Coming(k, late, expected)
      BY <1>3, <1>11, <2>1 DEF Due, RInv
    <2>2. CASE /\ committed < expected
               /\ \E h \in InPush : AtStage(h, "write") /\ working[h.id].new.cfg[k] >= required[k]
      <3>1. PICK h \in InPush : AtStage(h, "write") /\ working[h.id].new.cfg[k] >= required[k]
        BY <2>2
      <3>2. h.req.full
        BY <3>1 DEF RInv, PInv, StagesInOrder, AtStage
      <3> QED BY <1>3, <1>6, <1>8, <1>12, <2>2, <3>1, <3>2 DEF Due
    <2> QED BY <1>14, <2>1, <2>2 DEF Due
  <1>15. LateCallersCounted' /\ RequiredIsDue'
    BY <1>3, <1>10, <1>14 DEF RInv, LateCallersCounted, RequiredIsDue
  <1>16. ReadyWhenCommitted'
    BY <1>3, <1>7 DEF RInv, ReadyWhenCommitted
  <1> QED BY <1>3, <1>13, <1>15, <1>16 DEF RInv

-----------------------------------------------------------------------------
(***************************************************************************)
(* waitForCacheSync.  When it captures InboundUpdates, what is on its way  *)
(* to the context is among the updates counted.                            *)
(***************************************************************************)
LEMMA CachesSyncedRInv ==
  ASSUME RInv, CachesSynced
  PROVE  RInv'
  <1>1. /\ expected = Off /\ expected' = inbound /\ required' = store /\ late' = Senders
        /\ UNCHANGED <<ready, overtaken>> /\ UNCHANGED debounceVars /\ UNCHANGED pushVars
    BY DEF CachesSynced, Senders
  <1>2. AInv' /\ Received' = Received /\ Senders' = Senders /\ InPush' = InPush
    BY <1>1 DEF debounceVars, RInv, PInv, AInv, IInv, Types, OnlyDebouncedReport, OnePushAtATime,
       Debounced, SomethingWillWakeLoop, CountMatchesRequest, TimerInTime, Accounts, Senders,
       Received, EventsRunning, Waiting, GoroutinesNumbered, Limits, InPush
  <1>3. PInv'
    BY <1>1, <1>2 DEF debounceVars, pushVars, RInv, PInv, PushTypes, IdleOutsidePush, EdsDebounced,
       Debounced, StagesInOrder, ContextBehindStore, NothingForgotten, Coming, EventsRunning,
       UpToDate, AtStage, WillBeAnnounced
  <1>4. expected' \in Int /\ required' \in AnyContents /\ \A k \in Kinds : required'[k] <= store'[k]
    BY <1>1 DEF RInv, PInv, PushTypes, AnyContents, AInv, Accounts, pushVars
  <1>5. LateCallersCounted'
    BY <1>1, <1>2 DEF RInv, PInv, AInv, Accounts, LateCallersCounted
  <1>6. ReadyWhenCommitted'
    BY <1>1 DEF RInv, ReadyWhenCommitted
  <1>7. ASSUME ~failed, NEW k \in Kinds PROVE (env.cfg[k] >= required[k] \/ Due(k))'
    <2>1. CASE Coming(k, Sources, inbound)
      <3>1. Coming(k, Senders, inbound)
        BY <2>1 DEF Coming, Rebuilds, Affects, Senders
      <3>2. Coming(k, late, expected)'
        BY <1>1, <1>2, <3>1 DEF Coming, EventsRunning, Debounced, debounceVars, pushVars
      <3> QED BY <3>2 DEF Due
    <2>2. CASE \E g \in InPush : AtStage(g, "write") /\ working[g.id].new.cfg[k] = store[k]
      <3>1. PICK g \in InPush : AtStage(g, "write") /\ working[g.id].new.cfg[k] = store[k]
        BY <2>2
      <3>2. g.debounced /\ g \in Debounced /\ g.pc = "pushFn"
        BY <3>1, InPushFacts DEF RInv, PInv, StagesInOrder, AtStage, Debounced
      <3>3. EventsRunning = g.events /\ g.events \in Nat /\ g.events >= 1
        BY <3>2, EventsOfRunning, InPushFacts DEF RInv, PInv, AInv, GoroutinesNumbered, Started
      <3>4. committed < inbound
        <4>1. committed \in Nat /\ debouncedEvents \in Nat /\ Len(ch) \in Nat /\ inbound \in Nat
          BY DEF RInv, PInv, AInv, IInv, Types, Accounts
        <4>2. Cardinality(Senders) \in Nat /\ Received + Cardinality(Senders) <= inbound
          BY FS_CardinalityType DEF RInv, PInv, AInv, Accounts
        <4> QED BY <3>3, <4>1, <4>2 DEF Received
      <3>5. store[k] \in Nat
        BY DEF RInv, PInv, PushTypes, AnyContents
      <3>6. /\ committed' < expected' /\ AtStage(g, "write")'
            /\ working'[g.id].new.cfg[k] >= required'[k]
        BY <1>1, <1>2, <3>1, <3>4, <3>5 DEF AtStage, debounceVars, pushVars
      <3> QED BY <1>2, <3>6 DEF Due
    <2>3. CASE env.cfg[k] = store[k]
      <3>1. store[k] \in Nat
        BY DEF RInv, PInv, PushTypes, AnyContents
      <3> QED BY <1>1, <2>3, <3>1 DEF pushVars
    <2> QED BY <1>7, <2>1, <2>2, <2>3 DEF RInv, PInv, NothingForgotten, UpToDate
  <1>8. RequiredIsDue'
    BY <1>1, <1>7 DEF RequiredIsDue, pushVars
  <1> QED BY <1>3, <1>4, <1>5, <1>6, <1>8 DEF RInv

(***************************************************************************)
(* A step that leaves all but ready alone, and sets it for a reason.       *)
(***************************************************************************)
LEMMA ReadyRInv ==
  ASSUME RInv, UNCHANGED <<debounceVars, pushVars, expected, required, late, overtaken>>,
         ready' => ready \/ (expected # Off /\ committed >= expected)
  PROVE  RInv'
  <1>1. AInv' /\ Received' = Received /\ Senders' = Senders /\ InPush' = InPush
    BY DEF debounceVars, RInv, PInv, AInv, IInv, Types, OnlyDebouncedReport, OnePushAtATime,
       Debounced, SomethingWillWakeLoop, CountMatchesRequest, TimerInTime, Accounts, Senders,
       Received, EventsRunning, Waiting, GoroutinesNumbered, Limits, InPush
  <1>2. PInv'
    BY <1>1 DEF debounceVars, pushVars, RInv, PInv, PushTypes, IdleOutsidePush, EdsDebounced,
       Debounced, StagesInOrder, ContextBehindStore, NothingForgotten, Coming, EventsRunning,
       UpToDate, AtStage, WillBeAnnounced
  <1>3. LateCallersCounted' /\ ReadyWhenCommitted'
    BY <1>1 DEF RInv, LateCallersCounted, ReadyWhenCommitted, debounceVars
  <1>4. RequiredIsDue'
    BY <1>1 DEF RInv, RequiredIsDue, Due, Coming, EventsRunning, Debounced, AtStage, debounceVars,
       pushVars
  <1> QED BY <1>2, <1>3, <1>4 DEF RInv, pushVars

(***************************************************************************)
(* Every stage of a push.                                                  *)
(***************************************************************************)
LEMMA PushStepRInv ==
  ASSUME RInv, AInv', NEW g \in InPush, PushStep(g)
  PROVE  RInv'
  <1>1. CASE StartPush(g)
    BY <1>1, StartFullRInv, StartEdsRInv, SMTT(40)
  <1>2. CASE BuildContext(g)
    BY <1>2, BuildRInv, BuildFailsRInv DEF BuildContext
  <1>3. CASE WriteContext(g)
    BY <1>3, WriteRInv
  <1>4. CASE AdsPushAll(g)
    BY <1>4, AdsPushAllRInv
  <1>5. CASE PushReturns(g)
    BY <1>5, PushReturnsRInv
  <1> QED BY <1>1, <1>2, <1>3, <1>4, <1>5 DEF PushStep

(***************************************************************************)
(* Without the extension handler the invariant is inductive.               *)
(***************************************************************************)
LEMMA GlobalNextRInv == RInv /\ [GlobalNext]_globalVars => RInv'
  <1> SUFFICES ASSUME RInv, [GlobalNext]_globalVars PROVE RInv'
    OBVIOUS
  <1>1. AInv'
    BY StepIsDebounceStep, NextAInv DEF RInv, PInv, GlobalNextWithExtensions
  <1>2. Running = InPush
    BY DEF RInv, PInv, PushTypes, Running, InPush
  <1>3. ASSUME NEW s \in Sources, NEW r \in Inbound, ChangeConfig(s, r) PROVE RInv'
    BY <1>1, <1>3, ChangeConfigRInv
  <1>4. ASSUME NEW s \in Sources, SendUpdate(s) PROVE RInv'
    BY <1>1, <1>4, SendUpdateRInv
  <1>5. CASE Loop
    BY <1>1, <1>5, LoopRInv
  <1>6. ASSUME NEW g \in Running, PushStep(g) PROVE RInv'
    BY <1>1, <1>2, <1>6, PushStepRInv
  <1>7. CASE CachesSynced
    BY <1>7, CachesSyncedRInv
  <1>8. CASE MarkReady
    BY <1>8, ReadyRInv DEF MarkReady
  <1>9. CASE UNCHANGED globalVars
    BY <1>9, ReadyRInv DEF globalVars, readyVars, waitVars
  <1> QED BY <1>3, <1>4, <1>5, <1>6, <1>7, <1>8, <1>9 DEF GlobalNext

(***************************************************************************)
(* The invariant holds in every reachable state.                           *)
(***************************************************************************)
LEMMA AlwaysRInv == GlobalSpec => []RInv
  BY GlobalInitRInv, GlobalNextRInv, PTL DEF GlobalSpec

-----------------------------------------------------------------------------
(***************************************************************************)
(* Once the callers, the loop and the pushes are through and no push has   *)
(* failed, the context holds the store.                                    *)
(***************************************************************************)
LEMMA QuietIsComplete == RInv => ContextComplete
  <1> SUFFICES ASSUME RInv, Quiet, ~failed PROVE env.cfg = store
    BY DEF ContextComplete
  <1>1. InPush = {} /\ ch = <<>> /\ req = NoRequest /\ \A s \in Sources : sending[s] = NoRequest
    BY DEF Quiet, InPush
  <1>2. \A k \in Kinds : env.cfg[k] = store[k]
    <2>1. ASSUME NEW k \in Kinds PROVE ~Coming(k, Sources, inbound)
      BY <1>1 DEF Coming, Rebuilds, Affects
    <2> QED BY <1>1, <2>1 DEF RInv, PInv, NothingForgotten, UpToDate
  <1>3. store \in [Kinds -> Nat] /\ env.cfg \in [Kinds -> Nat]
    BY DEF RInv, PInv, PushTypes, AnyContents, AnyContext
  <1> QED BY <1>2, <1>3

(***************************************************************************)
(* The push context catches up with the configuration: whatever updates    *)
(* were merged, in whatever order they came, once everything has settled   *)
(* and no InitContext has failed, the global push context holds the        *)
(* current version of every kind.                                          *)
(***************************************************************************)
THEOREM ContextAlwaysComplete == GlobalSpec => []ContextComplete
  BY AlwaysRInv, QuietIsComplete, PTL

(***************************************************************************)
(* ... and that is the context the proxies were told of, provided EDS      *)
(* updates are debounced (PILOT_ENABLE_EDS_DEBOUNCE, on by default).  An   *)
(* EDS push that is not runs beside the others, and may be the last to     *)
(* call AdsPushAll, with the context it read at its start.                 *)
(***************************************************************************)
THEOREM ContextAlwaysCatchesUp ==
  ASSUME EnableEDSDebounce
  PROVE  GlobalSpec => []ContextCatchesUp
  <1>1. ASSUME RInv PROVE ContextCatchesUp
    <2>1. ContextComplete
      BY <1>1, QuietIsComplete
    <2>2. Quiet => announced = env.num
      BY <1>1 DEF RInv, PInv, WillBeAnnounced, Quiet, InPush
    <2> QED BY <2>1, <2>2 DEF ContextCatchesUp
  <1> QED BY <1>1, AlwaysRInv, PTL

(***************************************************************************)
(* The server is marked ready only when the push context holds everything  *)
(* that had been received when the caches were synced, unless a push       *)
(* failed or an update overtook one that was counted before it.            *)
(***************************************************************************)
THEOREM ReadyAlwaysMeansComplete == GlobalSpec => []ReadyMeansComplete
  <1>1. ASSUME RInv PROVE ReadyMeansComplete
    <2> SUFFICES ASSUME ready, ~failed, ~overtaken, NEW k \in Kinds PROVE env.cfg[k] >= required[k]
      BY DEF ReadyMeansComplete
    <2>1. /\ expected # Off /\ committed >= expected /\ expected \in Int /\ committed \in Nat
          /\ env.cfg[k] >= required[k] \/ Due(k)
      BY <1>1 DEF RInv, ReadyWhenCommitted, RequiredIsDue, PInv, AInv, Accounts
    <2>2. EventsRunning \in Nat /\ debouncedEvents \in Nat /\ Len(ch) \in Nat
      BY <1>1, EventsOfRunning DEF RInv, PInv, AInv, IInv, Types
    <2>3. late = {}
      <3>1. SUFFICES ASSUME late # {} PROVE FALSE
        OBVIOUS
      <3>2. IsFiniteSet(late) /\ Cardinality(late) \in Nat /\ Cardinality(late) # 0
        BY <1>1, <3>1, FS_Subset, FS_CardinalityType, FS_EmptySet
        DEF RInv, LateCallersCounted, PInv, AInv, Accounts
      <3>3. Received + Cardinality(late) <= expected
        BY <1>1, <2>1, <3>1 DEF RInv, LateCallersCounted
      <3> QED BY <2>1, <2>2, <3>2, <3>3 DEF Received
    <2>4. ~Due(k)
      <3>1. ~(committed < expected) /\ ~(committed + EventsRunning < expected)
        BY <2>1, <2>2
      <3>2. \A i \in 1..Len(ch) : ~(committed + EventsRunning + debouncedEvents + i <= expected)
        BY <2>1, <2>2
      <3> QED BY <2>3, <3>1, <3>2 DEF Due, Coming
    <2> QED BY <2>1, <2>4
  <1> QED BY <1>1, AlwaysRInv, PTL

(***************************************************************************)
(* The published context never goes back, failures or not: only            *)
(* WriteContext replaces it, by a context with a later number that was     *)
(* built from it.                                                          *)
(***************************************************************************)
THEOREM ContextAlwaysMovesForward == GlobalSpec => ContextMovesForward
  <1>1. ASSUME RInv, [GlobalNext]_globalVars
        PROVE  [/\ env'.num >= env.num
                /\ \A k \in Kinds : env'.cfg[k] >= env.cfg[k]]_env
    <2>1. CASE UNCHANGED env
      BY <2>1
    <2>2. ASSUME NEW g \in Running, WriteContext(g)
          PROVE  /\ env'.num >= env.num
                 /\ \A k \in Kinds : env'.cfg[k] >= env.cfg[k]
      <3>1. g \in InPush /\ working[g.id].pc = "write" /\ env' = working[g.id].new
        BY <1>1, <2>2 DEF WriteContext, At, RInv, PInv, PushTypes, Running, InPush
      <3>2. /\ env'.num = versionNum
            /\ \A k \in Kinds : env'.cfg[k] \in env.cfg[k]..store[k]
        BY <1>1, <3>1 DEF RInv, PInv, StagesInOrder
      <3>3. /\ env.num \in Nat /\ versionNum \in Nat /\ env.num <= versionNum
            /\ \A k \in Kinds : env.cfg[k] \in Nat /\ store[k] \in Nat
        BY <1>1 DEF RInv, PInv, PushTypes, AnyContext, AnyContents, ContextBehindStore
      <3> QED BY <3>2, <3>3
    <2>3. CASE ~UNCHANGED env
      <3>1. ASSUME NEW s \in Sources, NEW r \in Inbound, ChangeConfig(s, r) PROVE FALSE
        BY <2>3, <3>1 DEF ChangeConfig
      <3>2. ASSUME NEW s \in Sources, SendUpdate(s) PROVE FALSE
        BY <2>3, <3>2 DEF SendUpdate, pushVars
      <3>3. ~Loop /\ ~CachesSynced /\ ~MarkReady /\ ~UNCHANGED globalVars
        BY <2>3 DEF Loop, CachesSynced, MarkReady, globalVars, pushVars
      <3>4. \A g \in Running : PushStep(g) => WriteContext(g)
        BY <2>3 DEF PushStep, StartPush, BuildContext, AdsPushAll, PushReturns
      <3>5. \E g \in Running : WriteContext(g)
        BY <1>1, <3>1, <3>2, <3>3, <3>4 DEF GlobalNext
      <3> QED BY <2>2, <3>5
    <2> QED BY <2>1, <2>3
  <1> QED BY <1>1, AlwaysRInv, PTL DEF GlobalSpec, ContextMovesForward
=============================================================================
