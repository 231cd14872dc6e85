----------------------------- MODULE GlobalPush -----------------------------
(***************************************************************************)
(* DiscoveryServer.Push and initPushContext (pilot/pkg/xds/discovery.go)   *)
(* run as the pushFn of Debounce, with PushContext.InitContext             *)
(* (pilot/pkg/model/push_context.go) and, from pilot/pkg/bootstrap         *)
(* /server.go, Server.waitForCacheSync and the handler of                  *)
(* ServiceMeshExtension events, which calls Push by itself.                *)
(*                                                                         *)
(* Configs are the kinds of configuration that InitContext rebuilds        *)
(* separately.  The configuration store and a push context are both        *)
(* represented by the version they hold of each kind.  InitContext reads   *)
(* the kinds one after the other; to let it read them at one instant       *)
(* loses nothing, since a kind that changes meanwhile has an update of its *)
(* own under way.                                                          *)
(***************************************************************************)
EXTENDS Debounce

CONSTANTS MayFail,             \* may InitContext return an error?
          ExtensionKinds,      \* {} unless EnableMaistraExtensionSupport
          MaxExtensionChanges  \* bound: changes of an extension

ASSUME GlobalPushAssumption ==
  /\ MayFail \in BOOLEAN
  /\ ExtensionKinds \cap Configs = {}
  /\ MaxExtensionChanges \in Nat

VARIABLES store,      \* per kind, the version in the registries and the config store
          env,        \* Env.PushContext: its PushVersion number and its contents
          versionNum,
          working,    \* per goroutine, where it is in Push and what it holds
          announced,  \* the context last handed to AdsPushAll
          failed,     \* has InitContext returned an error?
          handling,   \* is the extension handler in Push?
          expected,   \* waitForCacheSync's expected, Off before it is captured
          required,   \* the store when expected was captured
          ready,      \* waitForCacheSync has returned
          late,       \* history: callers counted in expected that have not sent yet
          overtaken   \* history: a later update was sent before one of theirs

pushVars   == <<store, env, versionNum, working, announced, failed, handling>>
waitVars   == <<expected, required, ready>>
readyVars  == <<waitVars, late, overtaken>>
globalVars == <<debounceVars, pushVars, readyVars>>

Kinds    == Configs \cup ExtensionKinds
MaxNum   == MaxUpdates + MaxExtensionChanges
Contents == [Kinds -> 0..MaxNum]
Contexts == [num : 0..MaxNum, cfg : Contents]
Empty    == [num |-> 0, cfg |-> [k \in Kinds |-> 0]]
Idle     == [pc |-> "start", old |-> Empty, new |-> Empty]

Working  == [pc : {"start", "build", "write", "pushAll", "return"},
             old : Contexts, new : Contexts]

GlobalStart ==
  /\ store      = [k \in Kinds |-> 0]
  /\ env        = Empty
  /\ versionNum = 0
  /\ working    = [i \in 0..MaxUpdates |-> Idle]
  /\ announced  = 0
  /\ failed     = FALSE
  /\ handling   = FALSE
  /\ expected   = Off
  /\ required   = [k \in Kinds |-> 0]
  /\ ready      = FALSE
  /\ late       = {}
  /\ overtaken  = FALSE

GlobalInit == DebounceInit /\ GlobalStart

-----------------------------------------------------------------------------
(***************************************************************************)
(* A configuration change: the store holds it before ConfigUpdate is       *)
(* called.  A request without keys may stand for a change of any kinds; an *)
(* EDS request (not full) is about endpoints, which no context holds.      *)
(***************************************************************************)
Changed(r) == IF ~r.full THEN {{}}
              ELSE IF r.configs = {} THEN SUBSET Configs
              ELSE {r.configs}

ChangeConfig(s, r) ==
  /\ CountInbound(s, r)
  /\ \E ks \in Changed(r) :
       store' = [k \in Kinds |-> IF k \in ks THEN store[k] + 1 ELSE store[k]]
  /\ UNCHANGED <<env, versionNum, working, announced, failed, handling, readyVars>>

(***************************************************************************)
(* An extension is added, updated or deleted: the handler calls            *)
(* Push(Full) in the informer's goroutine, past the debouncing.  (The      *)
(* extension controller fills its store in a handler of its own, here      *)
(* always before the push; nothing in the code orders the two.)            *)
(***************************************************************************)
HandlerPush == [id |-> 0, req |-> [full |-> TRUE, push |-> 0, configs |-> {}], events |-> 0,
                debounced |-> FALSE, pc |-> "pushFn"]

ChangeExtension(e) ==
  /\ ~handling
  /\ store[e] < MaxExtensionChanges
  /\ store' = [store EXCEPT ![e] = @ + 1]
  /\ handling' = TRUE
  /\ UNCHANGED <<debounceVars, env, versionNum, working, announced, failed, readyVars>>

-----------------------------------------------------------------------------
(***************************************************************************)
(* Push(req), step by step.  An EDS push takes the global context as it is *)
(* and goes straight to AdsPushAll.                                        *)
(***************************************************************************)
Running == {g \in pushes : g.pc = "pushFn"} \cup (IF handling THEN {HandlerPush} ELSE {})

At(g, pc) == g \in Running /\ working[g.id].pc = pc

\* Variant with a bug: a full request without keys is taken for an EDS push.
StartPushOnlyNamed(g) ==
  /\ At(g, "start")
  /\ IF g.req.full /\ g.req.configs # {}
     THEN /\ versionNum' = versionNum + 1
          /\ working' = [working EXCEPT ![g.id] =
               [pc |-> "build", old |-> env,
                new |-> [Empty EXCEPT !.num = versionNum + 1]]]
     ELSE /\ UNCHANGED versionNum
          /\ working' = [working EXCEPT ![g.id] =
               [pc |-> "pushAll", old |-> Empty, new |-> env]]
  /\ UNCHANGED <<debounceVars, store, env, announced, failed, handling, readyVars>>

StartPush(g) ==
  /\ At(g, "start")
  /\ IF g.req.full
     THEN /\ versionNum' = versionNum + 1
          /\ working' = [working EXCEPT ![g.id] =
               [pc |-> "build", old |-> env,
                new |-> [Empty EXCEPT !.num = versionNum + 1]]]
     ELSE /\ UNCHANGED versionNum
          /\ working' = [working EXCEPT ![g.id] =
               [pc |-> "pushAll", old |-> Empty, new |-> env]]
  /\ UNCHANGED <<debounceVars, store, env, announced, failed, handling, readyVars>>

(***************************************************************************)
(* InitContext: rebuild everything, or only the kinds the request names    *)
(* and take the rest, extensions always included, from the old context.    *)
(***************************************************************************)
InitContext(old, r) ==
  [k \in Kinds |->
     IF old.num = 0 \/ r.configs = {} \/ k \in r.configs THEN store[k] ELSE old.cfg[k]]

BuildContext(g) ==
  /\ At(g, "build")
  /\ \/ /\ working' = [working EXCEPT ![g.id].pc = "write", ![g.id].old = Empty,
                         ![g.id].new.cfg = InitContext(working[g.id].old, g.req)]
        /\ UNCHANGED failed
     \/ /\ MayFail
        /\ working' = [working EXCEPT ![g.id] = [Idle EXCEPT !.pc = "return"]]
        /\ failed' = TRUE
  /\ UNCHANGED <<debounceVars, store, env, versionNum, announced, handling, readyVars>>

WriteContext(g) ==
  /\ At(g, "write")
  /\ env' = working[g.id].new
  /\ working' = [working EXCEPT ![g.id].pc = "pushAll"]
  /\ UNCHANGED <<debounceVars, store, versionNum, announced, failed, handling, readyVars>>

AdsPushAll(g) ==
  /\ At(g, "pushAll")
  /\ announced' = working[g.id].new.num
  /\ working' = [working EXCEPT ![g.id] = [Idle EXCEPT !.pc = "return"]]
  /\ UNCHANGED <<debounceVars, store, env, versionNum, failed, handling, readyVars>>

PushReturns(g) ==
  /\ At(g, "return")
  /\ IF g = HandlerPush
     THEN handling' = FALSE /\ UNCHANGED debounceVars
     ELSE PushFnReturns(g) /\ UNCHANGED handling
  /\ working' = [working EXCEPT ![g.id] = Idle]
  /\ UNCHANGED <<store, env, versionNum, announced, failed, readyVars>>

-----------------------------------------------------------------------------
(***************************************************************************)
(* waitForCacheSync: all updates of the initial state have been received,  *)
(* so remember how many there were; then wait until as many are committed. *)
(***************************************************************************)
CachesSynced ==
  /\ expected = Off
  /\ expected' = inbound
  /\ required' = store
  /\ late' = {s \in Sources : sending[s] # NoRequest}
  /\ UNCHANGED <<debounceVars, pushVars, ready, overtaken>>

\* Variant with a bug: ready as soon as no update is waiting to be pushed.
MarkReadyWhenEmpty ==
  /\ expected # Off
  /\ ~ready
  /\ ch = <<>> /\ req = NoRequest
  /\ ready' = TRUE
  /\ UNCHANGED <<debounceVars, pushVars, expected, required, late, overtaken>>

MarkReady ==
  /\ expected # Off
  /\ ~ready
  /\ committed >= expected
  /\ ready' = TRUE
  /\ UNCHANGED <<debounceVars, pushVars, expected, required, late, overtaken>>

-----------------------------------------------------------------------------
(***************************************************************************)
(* The second step of ConfigUpdate: the calls of several goroutines may    *)
(* overtake each other between the two.                                    *)
(***************************************************************************)
SendUpdate(s) ==
  /\ SendToChannel(s)
  /\ late' = late \ {s}
  /\ overtaken' = (overtaken \/ (late # {} /\ s \notin late))
  /\ UNCHANGED <<pushVars, waitVars>>

Loop ==
  /\ \/ ReceiveFree
     \/ ReceiveUpdate
     \/ ReceiveTimer
     \/ ReceiveStop
     \/ \E g \in pushes : SendFree(g)
     \/ Tick
  /\ UNCHANGED <<pushVars, readyVars>>

PushStep(g) ==
  StartPush(g) \/ BuildContext(g) \/ WriteContext(g) \/ AdsPushAll(g) \/ PushReturns(g)

GlobalNext ==
  \/ \E s \in Sources, r \in Inbound : ChangeConfig(s, r)
  \/ \E s \in Sources : SendUpdate(s)
  \/ Loop
  \/ \E g \in Running : PushStep(g)
  \/ CachesSynced
  \/ MarkReady

GlobalSpec == GlobalInit /\ [][GlobalNext]_globalVars

(***************************************************************************)
(* With EnableMaistraExtensionSupport the extension handlers are           *)
(* registered too.                                                         *)
(***************************************************************************)
GlobalNextWithExtensions ==
  GlobalNext \/ \E e \in ExtensionKinds : ChangeExtension(e)

GlobalSpecWithExtensions == GlobalInit /\ [][GlobalNextWithExtensions]_globalVars

(***************************************************************************)
(* Debounce's fairness, with the pushFn spelled out, and waitForCacheSync  *)
(* polling.                                                                *)
(***************************************************************************)
GlobalFairness ==
  /\ WF_globalVars(Tick /\ UNCHANGED <<pushVars, readyVars>>)
  /\ SF_globalVars(ReceiveFree /\ UNCHANGED <<pushVars, readyVars>>)
  /\ SF_globalVars(ReceiveUpdate /\ UNCHANGED <<pushVars, readyVars>>)
  /\ SF_globalVars(ReceiveTimer /\ UNCHANGED <<pushVars, readyVars>>)
  /\ \A s \in Sources : SF_globalVars(SendUpdate(s))
  /\ WF_globalVars(\E g \in pushes : PushStep(g))
  /\ WF_globalVars(handling /\ PushStep(HandlerPush))
  /\ WF_globalVars((\E g \in pushes : SendFree(g)) /\ UNCHANGED <<pushVars, readyVars>>)
  /\ WF_globalVars(MarkReady)

GlobalFairSpec == GlobalSpecWithExtensions /\ GlobalFairness

-----------------------------------------------------------------------------
GlobalTypeOK ==
  /\ DebounceTypeOK
  /\ store      \in Contents
  /\ env        \in Contexts
  /\ versionNum \in 0..MaxNum
  /\ working    \in [0..MaxUpdates -> Working]
  /\ announced  \in 0..MaxNum
  /\ failed     \in BOOLEAN
  /\ handling   \in BOOLEAN
  /\ expected   \in Off..MaxUpdates
  /\ required   \in Contents
  /\ ready      \in BOOLEAN
  /\ late       \in SUBSET Sources
  /\ overtaken  \in BOOLEAN

(***************************************************************************)
(* All updates that were received have gone through a push.                *)
(***************************************************************************)
Quiet ==
  /\ \A s \in Sources : sending[s] = NoRequest
  /\ ch = <<>>
  /\ req = NoRequest
  /\ pushes = {}
  /\ ~handling

(***************************************************************************)
(* When things have settled the global push context holds the current      *)
(* version of every kind, although each push rebuilds only the kinds its   *)
(* merged request names.  It takes a Merge that keeps "everything          *)
(* changed", and one push at a time: initPushContext "should not be called *)
(* in parallel; if it is, then we may start two push context creations     *)
(* (say A, and B), but then write them in reverse order, leaving us with a *)
(* final version of A, which may be incomplete" (discovery.go:464-466).  A *)
(* push whose InitContext fails is dropped, and nothing repeats it.        *)
(***************************************************************************)
ContextComplete ==
  Quiet /\ ~failed => env.cfg = store

(***************************************************************************)
(* ... and the context last announced to the proxies is that one.          *)
(***************************************************************************)
ContextCatchesUp ==
  ContextComplete /\ (Quiet /\ ~failed => announced = env.num)

(***************************************************************************)
(* waitForCacheSync: the server is marked ready only once the push context *)
(* holds everything received by then ("avoids a race condition where we    *)
(* are marked ready prior to updating the push context", server.go:886).   *)
(* A failed InitContext is counted as committed all the same.  And it      *)
(* takes updates that reach the channel in the order they were counted: a  *)
(* caller that is stopped between InboundUpdates.Inc and the send          *)
(* (discovery.go:332-333) is counted in expected, and the update of        *)
(* another caller that overtakes it is committed in its place.             *)
(***************************************************************************)
ReadyMeansComplete ==
  ready /\ ~failed /\ ~overtaken => \A k \in Kinds : env.cfg[k] >= required[k]

(***************************************************************************)
(* The published context never goes back: a newer one is not replaced by   *)
(* an older one, nor a kind by an older version of it, failures or not.    *)
(***************************************************************************)
ContextMovesForward ==
  [][/\ env'.num >= env.num
     /\ \A k \in Kinds : env'.cfg[k] >= env.cfg[k]]_env

(***************************************************************************)
(* Once the caches are synced the server becomes ready.  It needs EDS      *)
(* debouncing: an undebounced EDS push is never added to CommittedUpdates. *)
(***************************************************************************)
BecomesReady == (expected # Off) ~> (ready \/ stopped)
=============================================================================
