------------------------------ MODULE Debounce ------------------------------
(***************************************************************************)
(* debounce and ConfigUpdate (pilot/pkg/xds/discovery.go): configuration   *)
(* updates arrive on a channel, one select loop merges them, and when they *)
(* settle (or have been coming for too long) one goroutine pushes the      *)
(* merged request.                                                         *)
(*                                                                         *)
(* Time is discrete.  The loop compares only ages with two limits, so the  *)
(* clock is kept as two saturating ages and the countdown of time.After.   *)
(* Nothing else is lost by it: an age beyond AgeCap behaves like AgeCap.   *)
(***************************************************************************)
EXTENDS PushRequest, Integers, Sequences, FiniteSets

CONSTANTS Sources,            \* the goroutines that call ConfigUpdate
          DebounceAfter,      \* opts.debounceAfter, in ticks
          DebounceMax,        \* opts.debounceMax, in ticks
          EnableEDSDebounce,  \* opts.enableEDSDebounce
          ChanSize,           \* the capacity of pushChannel
          Prompt,             \* TRUE: time stands still while the loop has work to do
          MaxUpdates          \* bound: calls of ConfigUpdate in a behaviour

ASSUME DebounceAssumption ==
  /\ DebounceAfter \in Nat \ {0}
  /\ DebounceMax \in Nat
  /\ EnableEDSDebounce \in BOOLEAN
  /\ ChanSize \in Nat \ {0}
  /\ Prompt \in BOOLEAN
  /\ MaxUpdates \in Nat
  /\ 0 \in Versions

VARIABLES sending,          \* per source, the request between Inc and the channel send
          ch,               \* pushChannel
          req,              \* the merged request, nil when there is none
          debouncedEvents,
          free,
          freeCh,           \* the number of tokens in freeCh
          timer,            \* ticks until timeChan delivers; Off: nil or already read
          sinceStart,       \* time.Since(startDebounce)
          sinceUpdate,      \* time.Since(lastConfigUpdateTime)
          pushes,           \* the goroutines started by the loop
          spawned,          \* how many of them there were so far
          inbound,          \* InboundUpdates
          committed,        \* CommittedUpdates
          stopped           \* the loop has seen stopCh

loopVars     == <<req, debouncedEvents, free, timer, spawned, stopped>>
ageVars      == <<sinceStart, sinceUpdate>>
callerVars   == <<sending, inbound>>
debounceVars == <<sending, ch, req, debouncedEvents, free, freeCh, timer, sinceStart,
                  sinceUpdate, pushes, spawned, inbound, committed, stopped>>

Off == -1

AgeCap == DebounceMax + DebounceAfter

(***************************************************************************)
(* What ConfigUpdate is called with: no push context is attached yet.      *)
(***************************************************************************)
Inbound == {r \in Requests : r.push = 0}

Goroutines == [id : 1..MaxUpdates, req : Inbound, events : 0..MaxUpdates,
               debounced : BOOLEAN, pc : {"pushFn", "free"}]

DebounceInit ==
  /\ sending         = [s \in Sources |-> NoRequest]
  /\ ch              = <<>>
  /\ req             = NoRequest
  /\ debouncedEvents = 0
  /\ free            = TRUE
  /\ freeCh          = 0
  /\ timer           = Off
  /\ sinceStart      = AgeCap
  /\ sinceUpdate     = AgeCap
  /\ pushes          = {}
  /\ spawned         = 0
  /\ inbound         = 0
  /\ committed       = 0
  /\ stopped         = FALSE

-----------------------------------------------------------------------------
(***************************************************************************)
(* ConfigUpdate(req) by source s: InboundUpdates.Inc(), then the channel   *)
(* send, which blocks while the channel is full.                           *)
(***************************************************************************)
CountInbound(s, r) ==
  /\ sending[s] = NoRequest
  /\ inbound < MaxUpdates
  /\ inbound' = inbound + 1
  /\ sending' = [sending EXCEPT ![s] = r]
  /\ UNCHANGED <<loopVars, ageVars, ch, freeCh, pushes, committed>>

SendToChannel(s) ==
  /\ sending[s] # NoRequest
  /\ Len(ch) < ChanSize
  /\ ch'      = Append(ch, sending[s])
  /\ sending' = [sending EXCEPT ![s] = NoRequest]
  /\ UNCHANGED <<loopVars, ageVars, freeCh, pushes, inbound, committed>>

-----------------------------------------------------------------------------
(***************************************************************************)
(* go f(...): a new goroutine.                                             *)
(***************************************************************************)
Go(r, events, debounced) ==
  /\ spawned' = spawned + 1
  /\ pushes'  = pushes \cup {[id |-> spawned + 1, req |-> r, events |-> events,
                              debounced |-> debounced, pc |-> "pushFn"]}

\* Variant with a bug: only a quiet period ends the debouncing.
SettledWhenQuiet == sinceUpdate >= DebounceAfter

(***************************************************************************)
(* pushWorker, called with the loop's free flag set to f and the timer     *)
(* left as t.                                                              *)
(***************************************************************************)
Settled == sinceStart >= DebounceMax \/ sinceUpdate >= DebounceAfter

\* Variants with a bug: free stays set, and the timer is not re-armed.
PushWorkerStaysFree(f, t) ==
  \/ /\ Settled /\ req # NoRequest
     /\ free' = f
     /\ Go(req, debouncedEvents, TRUE)
     /\ req' = NoRequest
     /\ debouncedEvents' = 0
     /\ timer' = t
  \/ /\ ~Settled \/ req = NoRequest
     /\ free' = f /\ timer' = (IF Settled THEN t ELSE DebounceAfter - sinceUpdate)
     /\ UNCHANGED <<req, debouncedEvents, pushes, spawned>>

PushWorkerNoRearm(f, t) ==
  \/ /\ Settled /\ req # NoRequest
     /\ free' = FALSE
     /\ Go(req, debouncedEvents, TRUE)
     /\ req' = NoRequest
     /\ debouncedEvents' = 0
     /\ timer' = t
  \/ /\ ~Settled \/ req = NoRequest
     /\ free' = f /\ timer' = t
     /\ UNCHANGED <<req, debouncedEvents, pushes, spawned>>

PushWorker(f, t) ==
  \/ /\ Settled /\ req # NoRequest
     /\ free' = FALSE
     /\ Go(req, debouncedEvents, TRUE)
     /\ req' = NoRequest
     /\ debouncedEvents' = 0
     /\ timer' = t
  \/ /\ Settled /\ req = NoRequest
     /\ free' = f /\ timer' = t
     /\ UNCHANGED <<req, debouncedEvents, pushes, spawned>>
  \/ /\ ~Settled
     /\ free' = f /\ timer' = DebounceAfter - sinceUpdate
     /\ UNCHANGED <<req, debouncedEvents, pushes, spawned>>

\* Variant with a bug: the end of a push does not look for a waiting request.
ReceiveFreeOnly ==
  /\ ~stopped
  /\ freeCh > 0
  /\ freeCh' = freeCh - 1
  /\ free' = TRUE
  /\ UNCHANGED <<callerVars, ageVars, ch, committed, stopped, req, debouncedEvents,
                 timer, pushes, spawned>>

(***************************************************************************)
(* The select loop, one action per case.                                   *)
(***************************************************************************)
ReceiveFree ==
  /\ ~stopped
  /\ freeCh > 0
  /\ freeCh' = freeCh - 1
  /\ PushWorker(TRUE, timer)
  /\ UNCHANGED <<callerVars, ageVars, ch, committed, stopped>>

PushEDSNow(r) ==
  /\ Go(r, 0, FALSE)
  /\ UNCHANGED <<req, debouncedEvents, timer, ageVars>>

Accumulate(r) ==
  /\ sinceUpdate' = 0
  /\ IF debouncedEvents = 0
     THEN timer' = DebounceAfter /\ sinceStart' = 0
     ELSE UNCHANGED <<timer, sinceStart>>
  /\ debouncedEvents' = debouncedEvents + 1
  /\ req' = Merge(req, r)
  /\ UNCHANGED <<pushes, spawned>>

ReceiveUpdate ==
  /\ ~stopped
  /\ ch # <<>>
  /\ ch' = Tail(ch)
  /\ LET r == Head(ch)
     IN  IF ~EnableEDSDebounce /\ ~r.full THEN PushEDSNow(r) ELSE Accumulate(r)
  /\ UNCHANGED <<callerVars, free, freeCh, committed, stopped>>

ReceiveTimer ==
  /\ ~stopped
  /\ timer = 0
  /\ IF free
     THEN PushWorker(free, Off)
     ELSE timer' = Off /\ UNCHANGED <<req, debouncedEvents, free, pushes, spawned>>
  /\ UNCHANGED <<callerVars, ageVars, ch, freeCh, committed, stopped>>

ReceiveStop ==
  /\ ~stopped
  /\ stopped' = TRUE
  /\ UNCHANGED <<callerVars, ageVars, ch, req, debouncedEvents, free, freeCh, timer,
                 pushes, spawned, committed>>

-----------------------------------------------------------------------------
\* Variant with a bug: a push is counted as one update.
PushFnReturnsAddsOne(g) ==
  /\ g \in pushes
  /\ g.pc = "pushFn"
  /\ IF g.debounced
     THEN /\ committed' = committed + 1
          /\ pushes' = (pushes \ {g}) \cup {[g EXCEPT !.pc = "free"]}
     ELSE /\ pushes' = pushes \ {g}
          /\ UNCHANGED committed
  /\ UNCHANGED <<callerVars, loopVars, ageVars, ch, freeCh>>

(***************************************************************************)
(* The goroutines: func push (pushFn, then updateSent.Add, then the send   *)
(* to freeCh, of capacity 1) and the bare pushFn of an EDS push.           *)
(***************************************************************************)
PushFnReturns(g) ==
  /\ g \in pushes
  /\ g.pc = "pushFn"
  /\ IF g.debounced
     THEN /\ committed' = committed + g.events
          /\ pushes' = (pushes \ {g}) \cup {[g EXCEPT !.pc = "free"]}
     ELSE /\ pushes' = pushes \ {g}
          /\ UNCHANGED committed
  /\ UNCHANGED <<callerVars, loopVars, ageVars, ch, freeCh>>

SendFree(g) ==
  /\ g \in pushes
  /\ g.pc = "free"
  /\ freeCh < 1
  /\ freeCh' = freeCh + 1
  /\ pushes' = pushes \ {g}
  /\ UNCHANGED <<callerVars, loopVars, ageVars, ch, committed>>

(***************************************************************************)
(* One tick of the clock.                                                  *)
(***************************************************************************)
Older(age) == IF age < AgeCap THEN age + 1 ELSE age

LoopIdle == stopped \/ (freeCh = 0 /\ ch = <<>> /\ timer # 0)

Tick ==
  /\ Prompt => LoopIdle
  /\ sinceStart'  = Older(sinceStart)
  /\ sinceUpdate' = Older(sinceUpdate)
  /\ timer'       = IF timer > 0 THEN timer - 1 ELSE timer
  /\ UNCHANGED <<callerVars, ch, req, debouncedEvents, free, freeCh, pushes, spawned,
                 committed, stopped>>

DebounceNext ==
  \/ \E s \in Sources, r \in Inbound : CountInbound(s, r)
  \/ \E s \in Sources : SendToChannel(s)
  \/ ReceiveFree
  \/ ReceiveUpdate
  \/ ReceiveTimer
  \/ ReceiveStop
  \/ \E g \in pushes : PushFnReturns(g) \/ SendFree(g)
  \/ Tick

DebounceSpec == DebounceInit /\ [][DebounceNext]_debounceVars

(***************************************************************************)
(* Time passes, pushes end, ConfigUpdate calls proceed when they can, and  *)
(* the select loop serves each ready channel sooner or later: Go's select  *)
(* chooses at random among the ready cases, which is strong fairness.      *)
(* Nobody has to update or to stop.                                        *)
(***************************************************************************)
DebounceFairness ==
  /\ WF_debounceVars(Tick)
  /\ SF_debounceVars(ReceiveFree)
  /\ SF_debounceVars(ReceiveUpdate)
  /\ SF_debounceVars(ReceiveTimer)
  /\ \A s \in Sources : SF_debounceVars(SendToChannel(s))
  /\ WF_debounceVars(\E g \in pushes : PushFnReturns(g))
  /\ WF_debounceVars(\E g \in pushes : SendFree(g))

DebounceFairSpec == DebounceSpec /\ DebounceFairness

-----------------------------------------------------------------------------
DebounceTypeOK ==
  /\ sending         \in [Sources -> Inbound \cup {NoRequest}]
  /\ ch              \in Seq(Inbound) /\ Len(ch) <= ChanSize
  /\ req             \in Inbound \cup {NoRequest}
  /\ debouncedEvents \in 0..MaxUpdates
  /\ free            \in BOOLEAN
  /\ freeCh          \in 0..1
  /\ timer           \in Off..DebounceAfter
  /\ sinceStart      \in 0..AgeCap
  /\ sinceUpdate     \in 0..AgeCap
  /\ pushes          \in SUBSET Goroutines
  /\ spawned         \in 0..MaxUpdates
  /\ inbound         \in 0..MaxUpdates
  /\ committed       \in 0..MaxUpdates
  /\ stopped         \in BOOLEAN

Debounced == {g \in pushes : g.debounced}

(***************************************************************************)
(* At most one debounced push runs at a time, and only those may be full:  *)
(* initPushContext "should not be called in parallel".  The token in       *)
(* freeCh stands for the push that just ended, so the send to freeCh never *)
(* blocks and free is TRUE exactly when no push is running or ending.      *)
(***************************************************************************)
OnePushAtATime ==
  /\ \A g, h \in Debounced : g = h
  /\ \A g \in pushes : g.req.full => g.debounced
  /\ freeCh = 1 => Debounced = {}
  /\ free <=> (Debounced = {} /\ freeCh = 0)

(***************************************************************************)
(* A waiting request is never forgotten: while the loop holds one, either  *)
(* the timer is running or a push is still to report on freeCh, even       *)
(* though a timer that fires during a push is read and thrown away.        *)
(***************************************************************************)
SomethingWillWakeLoop ==
  req # NoRequest => timer # Off \/ ~free

(***************************************************************************)
(* Every update is counted once: what was received and not committed is on *)
(* its way to the channel, in it, in the merged request or in a running    *)
(* push.  Only stated with EDS debouncing on: without it, an EDS push is   *)
(* never added to CommittedUpdates, although "if this number is less than  *)
(* InboundUpdates, there are updates we have not yet processed"            *)
(* (discovery.go:100-101).                                                 *)
(***************************************************************************)
EventsRunning ==
  IF \E g \in Debounced : g.pc = "pushFn"
  THEN (CHOOSE g \in Debounced : g.pc = "pushFn").events
  ELSE 0

UpdatesAccounted ==
  EnableEDSDebounce =>
    inbound = committed + EventsRunning + debouncedEvents + Len(ch)
                + Cardinality({s \in Sources : sending[s] # NoRequest})

(***************************************************************************)
(* If the loop is prompt, a request waits less than DebounceMax plus one   *)
(* more quiet period while no push is running, however the updates are     *)
(* spaced: the last check before DebounceMax may re-arm the timer once     *)
(* more.  (The comment on handleUpdates, discovery.go:340, promises        *)
(* DebounceMax.)                                                           *)
(***************************************************************************)
DelayBounded ==
  Prompt /\ DebounceMax > 0 /\ free /\ req # NoRequest /\ ~stopped
    => sinceStart < DebounceMax + DebounceAfter

(***************************************************************************)
(* Every call of ConfigUpdate returns and every merged request reaches a   *)
(* push, until the loop is stopped.                                        *)
(***************************************************************************)
EveryUpdatePushed ==
  /\ \A s \in Sources :
       sending[s] # NoRequest ~> (sending[s] = NoRequest \/ stopped)
  /\ (req # NoRequest \/ ch # <<>>) ~> (stopped \/ (req = NoRequest /\ ch = <<>>))
=============================================================================
