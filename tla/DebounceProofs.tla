--------------------------- MODULE DebounceProofs ---------------------------
(***************************************************************************)
(* Proofs about Debounce, for every choice of callers, requests, channel   *)
(* capacity and debounce periods.                                          *)
(***************************************************************************)
EXTENDS Debounce, FiniteSetTheorems, TLAPS

(***************************************************************************)
(* The types the proofs need.  The bounds on the counters in               *)
(* DebounceTypeOK follow from the accounting and are not needed here.      *)
(***************************************************************************)
Started == [id : Nat, req : Inbound, events : Nat, debounced : BOOLEAN,
            pc : {"pushFn", "free"}]

Types ==
  /\ sending         \in [Sources -> Inbound \cup {NoRequest}]
  /\ ch              \in Seq(Inbound)
  /\ req             \in Inbound \cup {NoRequest}
  /\ debouncedEvents \in Nat
  /\ free            \in BOOLEAN
  /\ freeCh          \in 0..1
  /\ timer           \in Off..DebounceAfter
  /\ sinceStart      \in Nat
  /\ sinceUpdate     \in Nat
  /\ pushes          \in SUBSET Started
  /\ spawned         \in Nat
  /\ stopped         \in BOOLEAN

(***************************************************************************)
(* Only func push reports on freeCh, and it runs debounced pushes only.    *)
(***************************************************************************)
OnlyDebouncedReport == \A g \in pushes : g.pc = "free" => g.debounced

(***************************************************************************)
(* debouncedEvents counts what was merged into req: a new request starts a *)
(* new timer because the count is zero exactly when there is no request.   *)
(***************************************************************************)
CountMatchesRequest == debouncedEvents = 0 <=> req = NoRequest

(***************************************************************************)
(* Behind DelayBounded: whenever the timer runs for a waiting request, it  *)
(* will fire before DebounceMax + DebounceAfter.                           *)
(***************************************************************************)
TimerInTime ==
  Prompt /\ DebounceMax > 0 /\ req # NoRequest /\ timer # Off /\ ~stopped
    => sinceStart + timer < DebounceMax + DebounceAfter

IInv == /\ Types
        /\ OnlyDebouncedReport
        /\ OnePushAtATime
        /\ SomethingWillWakeLoop
        /\ CountMatchesRequest
        /\ TimerInTime

(***************************************************************************)
(* Merging an update into the waiting request, if any, yields a request.   *)
(***************************************************************************)
LEMMA MergeInbound ==
  ASSUME NEW a \in Inbound \cup {NoRequest}, NEW b \in Inbound
  PROVE  Merge(a, b) \in Inbound /\ Merge(a, b) # NoRequest
  BY RequestAssumption DEF Inbound, Requests, Merge

(***************************************************************************)
(* The loop starts with nothing waiting and nothing running.               *)
(***************************************************************************)
LEMMA InitIInv == DebounceInit => IInv
  <1> SUFFICES ASSUME DebounceInit PROVE IInv
    OBVIOUS
  <1>1. timer \in Off..DebounceAfter /\ sinceStart \in Nat /\ sinceUpdate \in Nat
    BY DebounceAssumption DEF DebounceInit, Off, AgeCap
  <1>2. sending \in [Sources -> Inbound \cup {NoRequest}]
    BY DEF DebounceInit
  <1>3. ch \in Seq(Inbound)
    BY DEF DebounceInit
  <1>4. free \in BOOLEAN /\ stopped \in BOOLEAN
    BY Zenon DEF DebounceInit
  <1>5. /\ debouncedEvents \in Nat /\ freeCh \in 0..1 /\ spawned \in Nat
        /\ req \in Inbound \cup {NoRequest} /\ pushes \in SUBSET Started
    BY DEF DebounceInit
  <1>6. Types
    BY <1>1, <1>2, <1>3, <1>4, <1>5, Zenon DEF Types
  <1> QED
    BY <1>6 DEF DebounceInit, IInv, OnePushAtATime, OnlyDebouncedReport, Debounced, SomethingWillWakeLoop,
       CountMatchesRequest, TimerInTime, Off

(***************************************************************************)
(* ConfigUpdate does not touch the loop.                                   *)
(***************************************************************************)
LEMMA ConfigUpdateIInv ==
  ASSUME IInv, NEW s \in Sources,
         (\E r \in Inbound : CountInbound(s, r)) \/ SendToChannel(s)
  PROVE  IInv'
  <1>1. UNCHANGED <<req, debouncedEvents, free, freeCh, timer, sinceStart, sinceUpdate,
                    pushes, spawned, stopped>>
    BY DEF CountInbound, SendToChannel, loopVars, ageVars
  <1>2. sending' \in [Sources -> Inbound \cup {NoRequest}] /\ ch' \in Seq(Inbound)
    <2>1. CASE \E r \in Inbound : CountInbound(s, r)
      BY <2>1 DEF IInv, Types, CountInbound
    <2>2. CASE SendToChannel(s)
      BY <2>2 DEF IInv, Types, SendToChannel
    <2> QED BY <2>1, <2>2
  <1>3. Types'
    BY <1>1, <1>2 DEF IInv, Types
  <1> QED
    BY <1>1, <1>3 DEF IInv, OnePushAtATime, OnlyDebouncedReport, Debounced, SomethingWillWakeLoop,
       CountMatchesRequest, TimerInTime

(***************************************************************************)
(* pushWorker, called when no debounced push is running or ending, starts  *)
(* at most one and never leaves a request without a timer.                 *)
(***************************************************************************)
LEMMA PushWorkerIInv ==
  ASSUME IInv, Debounced = {}, NEW t \in Off..DebounceAfter, PushWorker(TRUE, t),
         freeCh' = 0, sending' = sending, ch' = ch, stopped' = stopped,
         UNCHANGED ageVars
  PROVE  IInv'
  <1> USE DebounceAssumption DEF Off
  <1>1. CASE Settled /\ req # NoRequest
    <2> DEFINE g == [id |-> spawned + 1, req |-> req, events |-> debouncedEvents,
                     debounced |-> TRUE, pc |-> "pushFn"]
    <2>1. /\ free' = FALSE /\ req' = NoRequest /\ debouncedEvents' = 0 /\ timer' = t
          /\ spawned' = spawned + 1 /\ pushes' = pushes \cup {g}
      BY <1>1 DEF PushWorker, Go
    <2>2. g \in Started /\ g.debounced /\ g.pc = "pushFn"
      BY <1>1 DEF IInv, Types, Started
    <2> HIDE DEF g
    <2>3. Types'
      <3>1. free' \in BOOLEAN
        BY <2>1, Zenon
      <3>2. pushes' \in SUBSET Started
        BY <2>1, <2>2 DEF IInv, Types
      <3> QED BY <2>1, <3>1, <3>2 DEF IInv, Types, ageVars
    <2>4. Debounced' = {g}
      BY <2>1, <2>2 DEF Debounced
    <2>5. OnePushAtATime' /\ OnlyDebouncedReport'
      BY <2>1, <2>2, <2>4 DEF IInv, OnePushAtATime, OnlyDebouncedReport
    <2> QED
      BY <2>1, <2>3, <2>5 DEF IInv, SomethingWillWakeLoop, CountMatchesRequest, TimerInTime
  <1>2. CASE ~(Settled /\ req # NoRequest)
    <2>1. /\ free' = TRUE
          /\ UNCHANGED <<req, debouncedEvents, pushes, spawned>>
          /\ timer' = IF Settled THEN t ELSE DebounceAfter - sinceUpdate
      BY <1>2 DEF PushWorker
    <2>2. ~Settled => /\ DebounceAfter - sinceUpdate \in 1..DebounceAfter
                      /\ sinceStart < DebounceMax
      BY DEF Settled, IInv, Types
    <2>3. Types'
      BY <2>1, <2>2 DEF IInv, Types, ageVars
    <2>4. OnePushAtATime' /\ OnlyDebouncedReport'
      BY <2>1 DEF IInv, OnePushAtATime, OnlyDebouncedReport, Debounced
    <2>5. SomethingWillWakeLoop' /\ CountMatchesRequest'
      BY <1>2, <2>1, <2>2 DEF IInv, SomethingWillWakeLoop, CountMatchesRequest
    <2>6. TimerInTime'
      BY <1>2, <2>1, <2>2 DEF IInv, Types, TimerInTime, ageVars
    <2> QED BY <2>3, <2>4, <2>5, <2>6 DEF IInv
  <1> QED BY <1>1, <1>2

(***************************************************************************)
(* The cases of the select loop.                                           *)
(***************************************************************************)
LEMMA ReceiveFreeIInv == IInv /\ ReceiveFree => IInv'
  <1> SUFFICES ASSUME IInv, ReceiveFree PROVE IInv'
    OBVIOUS
  <1>1. freeCh = 1 /\ Debounced = {} /\ timer \in Off..DebounceAfter
    BY DEF IInv, Types, OnePushAtATime, ReceiveFree
  <1>2. PushWorker(TRUE, timer)
    BY Zenon DEF ReceiveFree
  <1>3. /\ freeCh' = 0 /\ UNCHANGED ageVars
        /\ sending' = sending /\ ch' = ch /\ stopped' = stopped
    BY <1>1 DEF ReceiveFree, callerVars, ageVars
  <1> QED
    BY <1>1, <1>2, <1>3, PushWorkerIInv

(***************************************************************************)
(* The timer: with a push running it is read and thrown away, but the push *)
(* is still to report.                                                     *)
(***************************************************************************)
LEMMA ReceiveTimerIInv == IInv /\ ReceiveTimer => IInv'
  <1> SUFFICES ASSUME IInv, ReceiveTimer PROVE IInv'
    OBVIOUS
  <1> USE DebounceAssumption DEF Off
  <1>1. CASE free
    <2>1. freeCh = 0 /\ Debounced = {} /\ Off \in Off..DebounceAfter /\ free = TRUE
      BY <1>1 DEF IInv, Types, OnePushAtATime
    <2> QED
      BY <1>1, <2>1, PushWorkerIInv DEF ReceiveTimer, callerVars
  <1>2. CASE ~free
    <2>1. timer' = Off /\ UNCHANGED <<req, debouncedEvents, free, freeCh, pushes, spawned,
                                      sending, ch, sinceStart, sinceUpdate, stopped>>
      BY <1>2 DEF ReceiveTimer, callerVars, ageVars
    <2>2. Types'
      BY <2>1 DEF IInv, Types
    <2> QED
      BY <1>2, <2>1, <2>2 DEF IInv, OnePushAtATime, OnlyDebouncedReport, Debounced, SomethingWillWakeLoop,
         CountMatchesRequest, TimerInTime
  <1> QED BY <1>1, <1>2

(***************************************************************************)
(* An update: pushed at once, or merged with what is waiting.              *)
(***************************************************************************)
LEMMA ReceiveUpdateIInv == IInv /\ ReceiveUpdate => IInv'
  <1> SUFFICES ASSUME IInv, ReceiveUpdate PROVE IInv'
    OBVIOUS
  <1> USE DebounceAssumption DEF Off
  <1> DEFINE r == Head(ch)
  <1>1. r \in Inbound /\ ch' \in Seq(Inbound)
    BY DEF IInv, Types, ReceiveUpdate
  <1>2. UNCHANGED <<sending, free, freeCh, stopped>>
    BY DEF ReceiveUpdate, callerVars
  <1>3. CASE ~EnableEDSDebounce /\ ~r.full
    <2> DEFINE g == [id |-> spawned + 1, req |-> r, events |-> 0,
                     debounced |-> FALSE, pc |-> "pushFn"]
    <2>1. /\ UNCHANGED <<req, debouncedEvents, timer, sinceStart, sinceUpdate>>
          /\ spawned' = spawned + 1 /\ pushes' = pushes \cup {g}
      BY <1>3 DEF ReceiveUpdate, PushEDSNow, Go, ageVars
    <2>2. g \in Started /\ ~g.debounced /\ ~g.req.full /\ g.pc = "pushFn"
      BY <1>1, <1>3 DEF IInv, Types, Started
    <2> HIDE DEF g
    <2>3. Types'
      BY <1>1, <1>2, <2>1, <2>2 DEF IInv, Types
    <2>4. Debounced' = Debounced
      BY <2>1, <2>2 DEF Debounced
    <2>5. OnePushAtATime' /\ OnlyDebouncedReport'
      BY <1>2, <2>1, <2>2, <2>4 DEF IInv, OnePushAtATime, OnlyDebouncedReport
    <2> QED
      BY <1>2, <2>1, <2>3, <2>5 DEF IInv, SomethingWillWakeLoop, CountMatchesRequest,
         TimerInTime
  <1>4. CASE ~(~EnableEDSDebounce /\ ~r.full)
    <2>1. Accumulate(r)
      BY <1>4 DEF ReceiveUpdate
    <2>2. req' \in Inbound /\ req' # NoRequest
      BY <1>1, <2>1, MergeInbound DEF Accumulate, IInv, Types
    <2>3. Types'
      BY <1>1, <1>2, <2>1, <2>2 DEF IInv, Types, Accumulate
    <2>4. OnePushAtATime' /\ OnlyDebouncedReport'
      BY <1>2, <2>1 DEF IInv, OnePushAtATime, OnlyDebouncedReport, Debounced, Accumulate
    <2>5. SomethingWillWakeLoop' /\ CountMatchesRequest'
      BY <1>2, <2>1, <2>2 DEF IInv, Types, SomethingWillWakeLoop, CountMatchesRequest,
         Accumulate
    <2>6. TimerInTime'
      BY <1>2, <2>1 DEF IInv, Types, TimerInTime, CountMatchesRequest, Accumulate
    <2> QED BY <2>3, <2>4, <2>5, <2>6 DEF IInv
  <1> QED BY <1>3, <1>4

(***************************************************************************)
(* The end of a push: it is still debounced until its token is in freeCh,  *)
(* which is then empty.                                                    *)
(***************************************************************************)
LEMMA PushFnReturnsIInv ==
  ASSUME IInv, NEW g \in pushes, PushFnReturns(g)
  PROVE  IInv'
  <1> DEFINE h == [g EXCEPT !.pc = "free"]
  <1>1. UNCHANGED <<sending, ch, req, debouncedEvents, free, freeCh, timer, sinceStart,
                    sinceUpdate, spawned, stopped>>
    BY DEF PushFnReturns, callerVars, loopVars, ageVars
  <1>2. g \in Started /\ h \in Started /\ h.debounced = g.debounced /\ h.req = g.req
    BY DEF IInv, Types, Started
  <1>3. CASE g.debounced
    <2>1. pushes' = (pushes \ {g}) \cup {h}
      BY <1>3 DEF PushFnReturns
    <2>2. Debounced = {g}
      BY <1>3 DEF IInv, OnePushAtATime, OnlyDebouncedReport, Debounced
    <2>3. Debounced' = {h}
      BY <1>2, <1>3, <2>1, <2>2 DEF Debounced
    <2>4. Types'
      BY <1>1, <1>2, <2>1 DEF IInv, Types
    <2>5. OnePushAtATime' /\ OnlyDebouncedReport'
      BY <1>1, <1>2, <1>3, <2>1, <2>2, <2>3 DEF IInv, OnePushAtATime, OnlyDebouncedReport
    <2> QED
      BY <1>1, <2>4, <2>5 DEF IInv, SomethingWillWakeLoop, CountMatchesRequest, TimerInTime
  <1>4. CASE ~g.debounced
    <2>1. pushes' = pushes \ {g}
      BY <1>4 DEF PushFnReturns
    <2>2. Debounced' = Debounced
      BY <1>4, <2>1 DEF Debounced
    <2>3. Types'
      BY <1>1, <2>1 DEF IInv, Types
    <2>4. OnePushAtATime' /\ OnlyDebouncedReport'
      BY <1>1, <2>1, <2>2 DEF IInv, OnePushAtATime, OnlyDebouncedReport
    <2> QED
      BY <1>1, <2>3, <2>4 DEF IInv, SomethingWillWakeLoop, CountMatchesRequest, TimerInTime
  <1> QED BY <1>3, <1>4

(***************************************************************************)
(* The token: freeCh was empty, so the send does not block, and nothing    *)
(* debounced is left.                                                      *)
(***************************************************************************)
LEMMA SendFreeIInv ==
  ASSUME IInv, NEW g \in pushes, SendFree(g)
  PROVE  IInv'
  <1>1. UNCHANGED <<sending, ch, req, debouncedEvents, free, timer, sinceStart,
                    sinceUpdate, spawned, stopped>>
    BY DEF SendFree, callerVars, loopVars, ageVars
  <1>2. freeCh' = 1 /\ pushes' = pushes \ {g}
    BY DEF SendFree, IInv, Types
  <1>3. Debounced = {g}
    BY DEF IInv, OnePushAtATime, OnlyDebouncedReport, Debounced, SendFree
  <1>4. Debounced' = {}
    BY <1>2, <1>3 DEF Debounced
  <1>5. Types'
    BY <1>1, <1>2 DEF IInv, Types
  <1>6. OnePushAtATime' /\ OnlyDebouncedReport'
    BY <1>1, <1>2, <1>3, <1>4 DEF IInv, OnePushAtATime, OnlyDebouncedReport
  <1> QED
    BY <1>1, <1>5, <1>6 DEF IInv, SomethingWillWakeLoop, CountMatchesRequest, TimerInTime

(***************************************************************************)
(* One tick takes from the countdown what it adds to the age.              *)
(***************************************************************************)
LEMMA EarlierStillInTime ==
  ASSUME NEW age \in Nat, NEW agePrime \in Nat, NEW t \in Nat, NEW tPrime \in Nat,
         agePrime <= age + 1, tPrime = t - 1, age + t < DebounceMax + DebounceAfter
  PROVE  agePrime + tPrime < DebounceMax + DebounceAfter
  BY DebounceAssumption

(***************************************************************************)
(* A tick: if the loop is prompt, a timer that has fired is served first.  *)
(***************************************************************************)
LEMMA TickIInv == IInv /\ Tick => IInv'
  <1> SUFFICES ASSUME IInv, Tick PROVE IInv'
    OBVIOUS
  <1> USE DebounceAssumption DEF Off
  <1>1. UNCHANGED <<sending, ch, req, debouncedEvents, free, freeCh, pushes, spawned, stopped>>
    BY DEF Tick, callerVars
  <1>2. /\ timer' \in Off..DebounceAfter /\ sinceStart' \in Nat /\ sinceUpdate' \in Nat
        /\ timer # Off => timer' # Off
    BY DEF Tick, Older, AgeCap, IInv, Types
  <1>3. Types'
    BY <1>1, <1>2 DEF IInv, Types
  <1>4. OnePushAtATime' /\ OnlyDebouncedReport'
    BY <1>1 DEF IInv, OnePushAtATime, OnlyDebouncedReport, Debounced
  <1>5. SomethingWillWakeLoop' /\ CountMatchesRequest'
    BY <1>1, <1>2 DEF IInv, SomethingWillWakeLoop, CountMatchesRequest
  <1>6. TimerInTime'
    <2>0. SUFFICES ASSUME Prompt, DebounceMax > 0, req # NoRequest, timer' # Off, ~stopped
                   PROVE  sinceStart' + timer' < DebounceMax + DebounceAfter
      BY <1>1 DEF TimerInTime
    <2>1. timer # Off /\ timer # 0
      BY <2>0 DEF Tick, LoopIdle
    <2>2. timer \in 1..DebounceAfter /\ timer' = timer - 1
      BY <2>1 DEF Tick, IInv, Types
    <2>3. sinceStart \in Nat /\ sinceStart' \in Nat /\ sinceStart' <= sinceStart + 1
      BY DEF Tick, Older, AgeCap, IInv, Types
    <2>4. sinceStart + timer < DebounceMax + DebounceAfter
      BY <2>0, <2>1 DEF IInv, TimerInTime
    <2>5. timer \in Nat /\ timer' \in Nat
      BY <2>2, SMT
    <2> QED BY <2>2, <2>3, <2>4, <2>5, EarlierStillInTime
  <1> QED BY <1>3, <1>4, <1>5, <1>6 DEF IInv

(***************************************************************************)
(* The invariant is inductive.                                             *)
(***************************************************************************)
LEMMA NextIInv == IInv /\ [DebounceNext]_debounceVars => IInv'
  <1> SUFFICES ASSUME IInv, [DebounceNext]_debounceVars PROVE IInv'
    OBVIOUS
  <1>1. CASE ReceiveStop
    <2>1. /\ stopped' = TRUE
          /\ UNCHANGED <<sending, ch, req, debouncedEvents, free, freeCh, timer, sinceStart,
                         sinceUpdate, pushes, spawned>>
      BY <1>1 DEF ReceiveStop, callerVars, ageVars
    <2>2. Types'
      BY <2>1 DEF IInv, Types
    <2> QED
      BY <2>1, <2>2 DEF IInv, OnePushAtATime, OnlyDebouncedReport, Debounced,
         SomethingWillWakeLoop, CountMatchesRequest, TimerInTime
  <1>2. CASE UNCHANGED debounceVars
    BY <1>2 DEF debounceVars, IInv, Types, OnePushAtATime, OnlyDebouncedReport, Debounced,
       SomethingWillWakeLoop, CountMatchesRequest, TimerInTime
  <1> QED
    BY <1>1, <1>2, ConfigUpdateIInv, ReceiveFreeIInv, ReceiveUpdateIInv, ReceiveTimerIInv,
       PushFnReturnsIInv, SendFreeIInv, TickIInv DEF DebounceNext

(***************************************************************************)
(* Everything above holds in every reachable state.                        *)
(***************************************************************************)
THEOREM DebounceSafe == DebounceSpec => []IInv
  BY InitIInv, NextIInv, PTL DEF DebounceSpec

(***************************************************************************)
(* Debounced pushes, and so all full pushes, never overlap (the contract   *)
(* initPushContext relies on), and the send to freeCh never blocks.        *)
(***************************************************************************)
THEOREM PushesNeverOverlap == DebounceSpec => []OnePushAtATime
  BY DebounceSafe, PTL DEF IInv

(***************************************************************************)
(* A waiting request is never forgotten by the select loop of debounce.    *)
(***************************************************************************)
THEOREM LoopWillWake == DebounceSpec => []SomethingWillWakeLoop
  BY DebounceSafe, PTL DEF IInv

(***************************************************************************)
(* A prompt loop delays a request by less than debounceMax plus            *)
(* debounceAfter while no push is running, for all positive settings.      *)
(***************************************************************************)
THEOREM DelayIsBounded == DebounceSpec => []DelayBounded
  <1>1. IInv => DelayBounded
    BY DebounceAssumption DEF IInv, Types, SomethingWillWakeLoop, TimerInTime, DelayBounded,
       Off
  <1> QED BY <1>1, DebounceSafe, PTL

-----------------------------------------------------------------------------
(***************************************************************************)
(* The accounts: where the updates are that were received and not          *)
(* committed, and how many goroutines they can have started.               *)
(***************************************************************************)
Senders == {s \in Sources : sending[s] # NoRequest}

Waiting == IF req = NoRequest THEN 0 ELSE 1

Received == committed + EventsRunning + debouncedEvents + Len(ch)

Accounts ==
  /\ IsFiniteSet(Senders)
  /\ inbound \in 0..MaxUpdates
  /\ committed \in Nat
  /\ Received + Cardinality(Senders) <= inbound
  /\ EnableEDSDebounce => Received + Cardinality(Senders) = inbound
  /\ spawned + Waiting + Len(ch) + Cardinality(Senders) <= inbound

(***************************************************************************)
(* Goroutines are told apart by their ids; a debounced one pushes at least *)
(* one update and no more than there were.                                 *)
(***************************************************************************)
GoroutinesNumbered ==
  /\ \A g \in pushes : g.id \in 1..spawned /\ g.events <= MaxUpdates
  /\ \A g, h \in pushes : g.id = h.id => g = h
  /\ \A g \in Debounced : g.events >= 1

Limits ==
  /\ Len(ch) <= ChanSize
  /\ sinceStart <= AgeCap
  /\ sinceUpdate <= AgeCap

AInv == IInv /\ Accounts /\ GoroutinesNumbered /\ Limits

(***************************************************************************)
(* EventsRunning is what the one debounced push in pushFn, if any, pushes. *)
(***************************************************************************)
LEMMA EventsOfRunning ==
  ASSUME IInv
  PROVE  /\ \A g \in Debounced : g.pc = "pushFn" => EventsRunning = g.events
         /\ (\A g \in Debounced : g.pc # "pushFn") => EventsRunning = 0
         /\ EventsRunning \in Nat
  <1>1. ASSUME NEW g \in Debounced, g.pc = "pushFn" PROVE EventsRunning = g.events
    <2>1. \A h \in Debounced : h = g
      BY DEF IInv, OnePushAtATime
    <2>2. (CHOOSE h \in Debounced : h.pc = "pushFn") = g
      BY <1>1, <2>1
    <2> QED BY <1>1, <2>2 DEF EventsRunning
  <1>2. ASSUME \A g \in Debounced : g.pc # "pushFn" PROVE EventsRunning = 0
    BY <1>2 DEF EventsRunning
  <1>3. \A g \in Debounced : g.events \in Nat
    BY DEF IInv, Types, Debounced, Started
  <1> QED BY <1>1, <1>2, <1>3

(***************************************************************************)
(* The same in the state after a step.                                     *)
(***************************************************************************)
LEMMA EventsOfRunningNext ==
  ASSUME IInv'
  PROVE  /\ \A g \in Debounced' : g.pc = "pushFn" => EventsRunning' = g.events
         /\ (\A g \in Debounced' : g.pc # "pushFn") => EventsRunning' = 0
         /\ EventsRunning' \in Nat
  <1>1. ASSUME NEW g \in Debounced', g.pc = "pushFn" PROVE EventsRunning' = g.events
    <2>1. \A h \in Debounced' : h = g
      BY DEF IInv, OnePushAtATime
    <2>2. (CHOOSE h \in Debounced' : h.pc = "pushFn") = g
      BY <1>1, <2>1
    <2> QED BY <1>1, <2>2 DEF EventsRunning
  <1>2. ASSUME \A g \in Debounced' : g.pc # "pushFn" PROVE EventsRunning' = 0
    BY <1>2 DEF EventsRunning
  <1>3. \A g \in Debounced' : g.events \in Nat
    BY DEF IInv, Types, Debounced, Started
  <1> QED BY <1>1, <1>2, <1>3

(***************************************************************************)
(* Before the first update every account is empty.                         *)
(***************************************************************************)
LEMMA InitAInv == DebounceInit => AInv
  <1> SUFFICES ASSUME DebounceInit PROVE AInv
    OBVIOUS
  <1>1. IInv
    BY InitIInv
  <1>2. Senders = {} /\ Debounced = {} /\ Waiting = 0 /\ Len(ch) = 0
    BY DEF DebounceInit, Senders, Debounced, Waiting
  <1>3. IsFiniteSet({}) /\ Cardinality({}) = 0
    BY FS_EmptySet
  <1>4. EventsRunning = 0
    BY <1>1, <1>2, EventsOfRunning
  <1>5. Accounts
    BY <1>2, <1>3, <1>4, DebounceAssumption DEF DebounceInit, Accounts, Received
  <1>6. GoroutinesNumbered /\ Limits
    BY <1>2, DebounceAssumption DEF DebounceInit, GoroutinesNumbered, Limits, AgeCap
  <1> QED BY <1>1, <1>5, <1>6 DEF AInv

(***************************************************************************)
(* The senders' count is a number, before and after a caller joins them or *)
(* leaves them.                                                            *)
(***************************************************************************)
LEMMA SendersJoin ==
  ASSUME AInv, NEW s \in Sources, NEW r \in Inbound, CountInbound(s, r)
  PROVE  /\ IsFiniteSet(Senders') /\ Cardinality(Senders) \in Nat
         /\ Cardinality(Senders') = Cardinality(Senders) + 1
  <1>1. s \notin Senders /\ Senders' = Senders \cup {s}
    BY RequestAssumption DEF CountInbound, Senders, AInv, IInv, Types, Inbound
  <1> QED BY <1>1, FS_AddElement, FS_CardinalityType DEF AInv, Accounts

(***************************************************************************)
(* A caller whose request the channel took is no longer one of the         *)
(* senders.                                                                *)
(***************************************************************************)
LEMMA SendersLeave ==
  ASSUME AInv, NEW s \in Sources, SendToChannel(s)
  PROVE  /\ IsFiniteSet(Senders') /\ Cardinality(Senders) \in Nat
         /\ Cardinality(Senders') \in Nat
         /\ Cardinality(Senders') = Cardinality(Senders) - 1
  <1>1. s \in Senders /\ Senders' = Senders \ {s}
    BY DEF SendToChannel, Senders, AInv, IInv, Types
  <1> QED BY <1>1, FS_RemoveElement, FS_CardinalityType DEF AInv, Accounts

(***************************************************************************)
(* Steps that leave the callers alone leave their number alone.            *)
(***************************************************************************)
LEMMA SendersStay ==
  ASSUME AInv, sending' = sending
  PROVE  /\ IsFiniteSet(Senders') /\ Cardinality(Senders) \in Nat
         /\ Cardinality(Senders') = Cardinality(Senders)
  BY FS_CardinalityType DEF AInv, Accounts, Senders

(***************************************************************************)
(* ConfigUpdate: the update is counted when it is received, and then moves *)
(* from the caller to the channel.                                         *)
(***************************************************************************)
LEMMA ConfigUpdateAInv ==
  ASSUME AInv, NEW s \in Sources,
         (\E r \in Inbound : CountInbound(s, r)) \/ SendToChannel(s)
  PROVE  AInv'
  <1> USE DebounceAssumption
  <1>1. IInv'
    BY ConfigUpdateIInv DEF AInv
  <1>2. /\ UNCHANGED <<req, debouncedEvents, sinceStart, sinceUpdate, pushes, spawned, committed>>
        /\ committed \in Nat /\ debouncedEvents \in Nat /\ spawned \in Nat /\ Len(ch) \in Nat
        /\ inbound \in 0..MaxUpdates /\ Waiting \in Nat /\ Waiting' = Waiting
        /\ EventsRunning' = EventsRunning /\ EventsRunning \in Nat
    BY EventsOfRunning, SMTT(40) DEF CountInbound, SendToChannel, loopVars, ageVars, AInv, IInv, Types, Accounts,
       Waiting, EventsRunning, Debounced
  <1>3. Accounts' /\ Len(ch') <= ChanSize
    <2>1. ASSUME NEW r \in Inbound, CountInbound(s, r) PROVE Accounts' /\ Len(ch') <= ChanSize
      <3>1. ch' = ch /\ inbound' = inbound + 1 /\ inbound < MaxUpdates
        BY <2>1 DEF CountInbound
      <3> QED BY <1>2, <2>1, <3>1, SendersJoin, SMTT(40) DEF AInv, Accounts, Received, Limits
    <2>2. ASSUME SendToChannel(s) PROVE Accounts' /\ Len(ch') <= ChanSize
      <3>1. Len(ch') = Len(ch) + 1 /\ Len(ch) < ChanSize /\ inbound' = inbound
        BY <2>2 DEF SendToChannel, AInv, IInv, Types
      <3> QED BY <1>2, <2>2, <3>1, SendersLeave, SMTT(40) DEF AInv, Accounts, Received
    <2> QED BY <2>1, <2>2
  <1>4. GoroutinesNumbered' /\ Limits'
    BY <1>2, <1>3 DEF AInv, GoroutinesNumbered, Limits, Debounced
  <1> QED BY <1>1, <1>3, <1>4 DEF AInv

(***************************************************************************)
(* A new goroutine has a number of its own.                                *)
(***************************************************************************)
LEMMA NewGoroutine ==
  ASSUME AInv, NEW r, NEW n \in 0..MaxUpdates, NEW d \in BOOLEAN, Go(r, n, d), d => n >= 1
  PROVE  GoroutinesNumbered'
  <1> DEFINE g == [id |-> spawned + 1, req |-> r, events |-> n, debounced |-> d, pc |-> "pushFn"]
  <1>1. pushes' = pushes \cup {g} /\ spawned' = spawned + 1 /\ spawned \in Nat
    BY DEF Go, AInv, IInv, Types
  <1>2. g.id = spawned + 1 /\ g.events = n /\ g.debounced = d
    OBVIOUS
  <1> HIDE DEF g
  <1>3. \A h \in pushes : h.id \in 1..spawned /\ h.events <= MaxUpdates
    BY DEF AInv, GoroutinesNumbered
  <1>4. \A h \in pushes' : h.id \in 1..spawned' /\ h.events <= MaxUpdates
    BY <1>1, <1>2, <1>3, DebounceAssumption
  <1>5. \A h, i \in pushes' : h.id = i.id => h = i
    <2>1. \A h \in pushes : h.id # g.id
      BY <1>1, <1>2, <1>3
    <2> QED BY <1>1, <2>1 DEF AInv, GoroutinesNumbered
  <1>6. \A h \in Debounced' : h.events >= 1
    BY <1>1, <1>2 DEF AInv, GoroutinesNumbered, Debounced
  <1> QED BY <1>4, <1>5, <1>6 DEF GoroutinesNumbered

(***************************************************************************)
(* pushWorker hands the debounced events over to the goroutine it starts.  *)
(***************************************************************************)
LEMMA PushWorkerAInv ==
  ASSUME AInv, Debounced = {}, NEW t, PushWorker(TRUE, t), IInv',
         UNCHANGED <<sending, ch, inbound, committed, sinceStart, sinceUpdate>>
  PROVE  AInv'
  <1>1. /\ committed \in Nat /\ debouncedEvents \in Nat /\ spawned \in Nat /\ Len(ch) \in Nat
        /\ inbound \in 0..MaxUpdates /\ EventsRunning = 0
    BY EventsOfRunning DEF AInv, IInv, Types, Accounts
  <1>2. Limits'
    BY DEF AInv, Limits
  <1>3. CASE Settled /\ req # NoRequest
    <2> DEFINE g == [id |-> spawned + 1, req |-> req, events |-> debouncedEvents,
                     debounced |-> TRUE, pc |-> "pushFn"]
    <2>1. /\ Go(req, debouncedEvents, TRUE) /\ req' = NoRequest /\ debouncedEvents' = 0
          /\ spawned' = spawned + 1 /\ pushes' = pushes \cup {g}
      BY <1>3 DEF PushWorker, Go
    <2>2. debouncedEvents \in 1..MaxUpdates
      BY <1>1, <1>3, SendersStay, DebounceAssumption
         DEF AInv, IInv, CountMatchesRequest, Accounts, Received
    <2>3. GoroutinesNumbered'
      <3>1. debouncedEvents \in 0..MaxUpdates /\ debouncedEvents >= 1
        BY <2>2, DebounceAssumption
      <3> QED BY <2>1, <3>1, NewGoroutine, Zenon
    <2>4. EventsRunning' = debouncedEvents
      <3>1. g \in Debounced' /\ g.pc = "pushFn" /\ g.events = debouncedEvents
        BY <2>1 DEF Debounced
      <3> QED BY <3>1, EventsOfRunningNext
    <2>5. Waiting = 1 /\ Waiting' = 0
      BY <1>3, <2>1 DEF Waiting
    <2>6. Accounts'
      BY <1>1, <2>1, <2>4, <2>5, SendersStay DEF AInv, Accounts, Received
    <2> QED BY <1>2, <2>3, <2>6 DEF AInv
  <1>4. CASE ~(Settled /\ req # NoRequest)
    <2>1. UNCHANGED <<req, debouncedEvents, pushes, spawned>>
      BY <1>4 DEF PushWorker
    <2>2. EventsRunning' = EventsRunning /\ Waiting' = Waiting
      BY <2>1 DEF EventsRunning, Debounced, Waiting
    <2>3. Accounts' /\ GoroutinesNumbered'
      BY <2>1, <2>2, SendersStay DEF AInv, Accounts, Received, GoroutinesNumbered, Debounced
    <2> QED BY <1>2, <2>3 DEF AInv
  <1> QED BY <1>3, <1>4

(***************************************************************************)
(* The loop takes an update from the channel: it moves from one account to *)
(* the next, or, an EDS update with debouncing off, to a push of its own.  *)
(***************************************************************************)
LEMMA ReceiveUpdateAInv == AInv /\ ReceiveUpdate => AInv'
  <1> SUFFICES ASSUME AInv, ReceiveUpdate PROVE AInv'
    OBVIOUS
  <1> USE DebounceAssumption
  <1> DEFINE r == Head(ch)
  <1>1. IInv'
    BY ReceiveUpdateIInv DEF AInv
  <1>2. /\ UNCHANGED <<sending, inbound, committed>>
        /\ r \in Inbound /\ Len(ch') = Len(ch) - 1 /\ Len(ch) \in Nat /\ Len(ch') \in Nat
        /\ committed \in Nat /\ debouncedEvents \in Nat /\ spawned \in Nat
        /\ inbound \in 0..MaxUpdates /\ Waiting \in Nat
    BY DEF ReceiveUpdate, callerVars, AInv, IInv, Types, Accounts, Waiting
  <1>3. EventsRunning \in Nat /\ EventsRunning' \in Nat
    BY <1>1, EventsOfRunning, EventsOfRunningNext DEF AInv
  <1>4. CASE ~EnableEDSDebounce /\ ~r.full
    <2>1. /\ Go(r, 0, FALSE) /\ UNCHANGED <<req, debouncedEvents, sinceStart, sinceUpdate>>
          /\ spawned' = spawned + 1
      BY <1>4 DEF ReceiveUpdate, PushEDSNow, Go, ageVars
    <2>2. GoroutinesNumbered'
      <3>1. 0 \in 0..MaxUpdates
        OBVIOUS
      <3> QED BY <2>1, <3>1, NewGoroutine, Zenon
    <2>3. Debounced' = Debounced
      BY <2>1 DEF Go, Debounced
    <2>4. EventsRunning' = EventsRunning /\ Waiting' = Waiting
      BY <2>1, <2>3 DEF EventsRunning, Waiting
    <2>5. Accounts'
      BY <1>2, <1>3, <1>4, <2>1, <2>4, SendersStay DEF AInv, Accounts, Received
    <2>6. Limits'
      BY <1>2, <2>1 DEF AInv, Limits
    <2> QED BY <1>1, <2>2, <2>5, <2>6 DEF AInv
  <1>5. CASE ~(~EnableEDSDebounce /\ ~r.full)
    <2>1. Accumulate(r)
      BY <1>5 DEF ReceiveUpdate
    <2>2. /\ UNCHANGED <<pushes, spawned>> /\ debouncedEvents' = debouncedEvents + 1
          /\ sinceUpdate' = 0 /\ sinceStart' \in {0, sinceStart}
      BY <2>1 DEF Accumulate
    <2>3. EventsRunning' = EventsRunning /\ Waiting' = 1
      <3>1. req' # NoRequest
        BY <1>2, <2>1, MergeInbound DEF Accumulate, AInv, IInv, Types
      <3> QED BY <2>2, <3>1 DEF EventsRunning, Debounced, Waiting
    <2>4. Waiting <= 1
      BY DEF Waiting
    <2>5. Accounts'
      BY <1>2, <1>3, <2>2, <2>3, <2>4, SendersStay DEF AInv, Accounts, Received
    <2>6. GoroutinesNumbered' /\ Limits'
      BY <1>2, <2>2 DEF AInv, GoroutinesNumbered, Debounced, Limits, AgeCap, IInv, Types
    <2> QED BY <1>1, <2>5, <2>6 DEF AInv
  <1> QED BY <1>4, <1>5

(***************************************************************************)
(* The end of a debounced push commits the updates it was started with.    *)
(***************************************************************************)
LEMMA PushFnReturnsAInv ==
  ASSUME AInv, NEW g \in pushes, PushFnReturns(g)
  PROVE  AInv'
  <1> DEFINE h == [g EXCEPT !.pc = "free"]
  <1>1. IInv'
    BY PushFnReturnsIInv DEF AInv
  <1>2. /\ UNCHANGED <<sending, inbound, ch, req, debouncedEvents, sinceStart, sinceUpdate, spawned>>
        /\ committed \in Nat /\ debouncedEvents \in Nat /\ Len(ch) \in Nat /\ inbound \in Nat
        /\ g.pc = "pushFn"
    BY DEF PushFnReturns, callerVars, loopVars, ageVars, AInv, IInv, Types, Accounts
  <1>3. Waiting' = Waiting /\ Limits'
    BY <1>2 DEF Waiting, AInv, Limits
  <1>4. CASE g.debounced
    <2>1. committed' = committed + g.events /\ pushes' = (pushes \ {g}) \cup {h}
      BY <1>4 DEF PushFnReturns
    <2>2. /\ g \in Started /\ h.pc = "free" /\ h.id = g.id /\ h.events = g.events
          /\ h.debounced = g.debounced /\ g.events \in Nat
      BY DEF AInv, IInv, Types, Started
    <2> HIDE DEF h
    <2>3. Debounced = {g} /\ Debounced' = {h}
      <3>1. Debounced = {g}
        BY <1>4 DEF AInv, IInv, OnePushAtATime, Debounced
      <3> QED BY <1>4, <2>1, <2>2, <3>1 DEF Debounced
    <2>4. EventsRunning = g.events /\ EventsRunning' = 0
      BY <1>1, <1>2, <2>2, <2>3, EventsOfRunning, EventsOfRunningNext DEF AInv
    <2>5. Received' = Received
      BY <1>2, <2>1, <2>2, <2>4 DEF Received
    <2>6. Accounts'
      <3>1. committed' \in Nat
        BY <1>2, <2>1, <2>2
      <3> QED BY <1>2, <1>3, <2>5, <3>1, SendersStay DEF AInv, Accounts
    <2>7. GoroutinesNumbered'
      BY <1>2, <2>1, <2>2, <2>3 DEF AInv, GoroutinesNumbered
    <2> QED BY <1>1, <1>3, <2>6, <2>7 DEF AInv
  <1>5. CASE ~g.debounced
    <2>1. committed' = committed /\ pushes' = pushes \ {g}
      BY <1>5 DEF PushFnReturns
    <2>2. Debounced' = Debounced
      BY <1>5, <2>1 DEF Debounced
    <2>3. EventsRunning' = EventsRunning
      BY <2>2 DEF EventsRunning
    <2>4. Accounts' /\ GoroutinesNumbered'
      BY <1>2, <1>3, <2>1, <2>2, <2>3, SendersStay DEF AInv, Accounts, Received, GoroutinesNumbered
    <2> QED BY <1>1, <1>3, <2>4 DEF AInv
  <1> QED BY <1>4, <1>5

(***************************************************************************)
(* A push that has returned reports to the loop and is gone.               *)
(***************************************************************************)
LEMMA SendFreeAInv ==
  ASSUME AInv, NEW g \in pushes, SendFree(g)
  PROVE  AInv'
  <1>1. IInv'
    BY SendFreeIInv DEF AInv
  <1>2. /\ UNCHANGED <<sending, inbound, committed, ch, req, debouncedEvents, sinceStart,
                       sinceUpdate, spawned>>
        /\ g.pc = "free" /\ pushes' = pushes \ {g}
    BY DEF SendFree, callerVars, loopVars, ageVars
  <1>3. \A h \in Debounced : h = g
    BY <1>2 DEF AInv, IInv, OnePushAtATime, OnlyDebouncedReport, Debounced
  <1>4. EventsRunning = 0 /\ EventsRunning' = 0
    <2>1. Debounced' = {}
      BY <1>2, <1>3 DEF Debounced
    <2> QED BY <1>1, <1>2, <1>3, <2>1, EventsOfRunning, EventsOfRunningNext DEF AInv
  <1>5. Accounts' /\ GoroutinesNumbered' /\ Limits'
    BY <1>2, <1>4, SendersStay DEF AInv, Accounts, Received, Waiting, GoroutinesNumbered, Debounced,
       Limits
  <1> QED BY <1>1, <1>5 DEF AInv

(***************************************************************************)
(* The other steps move no update.                                         *)
(***************************************************************************)
LEMMA TickAInv == AInv /\ Tick => AInv'
  <1> SUFFICES ASSUME AInv, Tick PROVE AInv'
    OBVIOUS
  <1>1. IInv'
    BY TickIInv DEF AInv
  <1>2. UNCHANGED <<sending, inbound, committed, ch, req, debouncedEvents, pushes, spawned>>
    BY DEF Tick, callerVars
  <1>3. Accounts' /\ GoroutinesNumbered'
    BY <1>2 DEF AInv, Accounts, Received, EventsRunning, Debounced, Waiting, Senders,
       GoroutinesNumbered
  <1>4. Limits'
    BY <1>2, DebounceAssumption DEF AInv, Limits, Tick, Older, AgeCap, IInv, Types
  <1> QED BY <1>1, <1>3, <1>4 DEF AInv

(***************************************************************************)
(* Every step keeps the accounts.                                          *)
(***************************************************************************)
LEMMA NextAInv == AInv /\ [DebounceNext]_debounceVars => AInv'
  <1> SUFFICES ASSUME AInv, [DebounceNext]_debounceVars PROVE AInv'
    OBVIOUS
  <1>0. IInv'
    BY NextIInv DEF AInv
  <1>1. CASE ReceiveFree
    <2>1. Debounced = {}
      BY <1>1 DEF ReceiveFree, AInv, IInv, Types, OnePushAtATime
    <2> QED BY <1>0, <1>1, <2>1, PushWorkerAInv DEF ReceiveFree, callerVars, ageVars
  <1>2. CASE ReceiveTimer
    <2>1. CASE free
      <3>1. Debounced = {} /\ free = TRUE
        BY <2>1 DEF AInv, IInv, Types, OnePushAtATime
      <3> QED BY <1>0, <1>2, <2>1, <3>1, PushWorkerAInv DEF ReceiveTimer, callerVars, ageVars
    <2>2. CASE ~free
      BY <1>0, <1>2, <2>2 DEF ReceiveTimer, callerVars, ageVars, AInv, Accounts, Received,
         EventsRunning, Debounced, Waiting, Senders, GoroutinesNumbered, Limits
    <2> QED BY <2>1, <2>2
  <1>3. CASE ReceiveStop
    BY <1>0, <1>3 DEF ReceiveStop, callerVars, ageVars, AInv, Accounts, Received, EventsRunning,
       Debounced, Waiting, Senders, GoroutinesNumbered, Limits
  <1>4. CASE UNCHANGED debounceVars
    BY <1>0, <1>4 DEF debounceVars, AInv, Accounts, Received, EventsRunning, Debounced, Waiting,
       Senders, GoroutinesNumbered, Limits
  <1> QED
    BY <1>1, <1>2, <1>3, <1>4, ConfigUpdateAInv, ReceiveUpdateAInv, PushFnReturnsAInv,
       SendFreeAInv, TickAInv DEF DebounceNext

(***************************************************************************)
(* The accounts hold in every reachable state.                             *)
(***************************************************************************)
LEMMA AccountsKept == DebounceSpec => []AInv
  BY InitAInv, NextAInv, PTL DEF DebounceSpec

(***************************************************************************)
(* InboundUpdates and CommittedUpdates agree about every update: with EDS  *)
(* debouncing on, none is lost or counted twice, whatever the callers, the *)
(* capacity of the channel and the timing of the pushes.                   *)
(***************************************************************************)
THEOREM UpdatesAlwaysAccounted == DebounceSpec => []UpdatesAccounted
  <1>1. AInv => UpdatesAccounted
    BY DEF AInv, Accounts, Received, Senders, UpdatesAccounted
  <1> QED BY <1>1, AccountsKept, PTL

(***************************************************************************)
(* The types of Debounce, with the bounds of its counters: the loop starts *)
(* no more goroutines than ConfigUpdate was called, and no more updates    *)
(* are committed than were received.                                       *)
(***************************************************************************)
THEOREM DebounceTypeCorrect == DebounceSpec => []DebounceTypeOK
  <1>1. ASSUME AInv PROVE DebounceTypeOK
    <2> USE <1>1, DebounceAssumption
    <2>1. /\ committed \in Nat /\ debouncedEvents \in Nat /\ spawned \in Nat /\ Len(ch) \in Nat
          /\ inbound \in 0..MaxUpdates /\ Waiting \in Nat /\ Cardinality(Senders) \in Nat
          /\ EventsRunning \in Nat
      BY EventsOfRunning, FS_CardinalityType DEF AInv, IInv, Types, Accounts, Waiting
    <2>2. /\ debouncedEvents \in 0..MaxUpdates /\ spawned \in 0..MaxUpdates
          /\ committed \in 0..MaxUpdates
      BY <2>1 DEF AInv, Accounts, Received
    <2>3. pushes \in SUBSET Goroutines
      <3>1. SUFFICES ASSUME NEW g \in pushes PROVE g \in Goroutines
        OBVIOUS
      <3>2. g \in Started /\ g.id \in 1..spawned /\ g.events <= MaxUpdates
        BY DEF AInv, IInv, Types, GoroutinesNumbered
      <3>3. g.id \in 1..MaxUpdates /\ g.events \in 0..MaxUpdates
        BY <2>2, <3>2 DEF Started
      <3> QED BY <3>2, <3>3 DEF Started, Goroutines
    <2>4. /\ Len(ch) <= ChanSize /\ sinceStart \in 0..AgeCap /\ sinceUpdate \in 0..AgeCap
      BY DEF AInv, Limits, IInv, Types, AgeCap
    <2> QED BY <2>1, <2>2, <2>3, <2>4 DEF AInv, IInv, Types, DebounceTypeOK
  <1> QED BY <1>1, AccountsKept, PTL
=============================================================================
