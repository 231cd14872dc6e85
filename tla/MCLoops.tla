------------------------------ MODULE MCLoops -------------------------------
(***************************************************************************)
(* For TLC, three loops that must get something done in the end: federated *)
(* discovery between two meshes, the clean-up of WorkloadEntries and the   *)
(* exchange of an ADS stream.  Every behaviour runs one of them, chosen in *)
(* the initial state, and the others stand still.                          *)
(***************************************************************************)
EXTENDS Federation, WorkloadEntries, AdsStream

CONSTANTS Parts, i1, i2, h1, h2

VARIABLE part

loopsVars == <<fedVars, wleVars, streamVars, part>>

InFederation(A) == part = "federation" /\ A /\ UNCHANGED <<wleVars, streamVars, part>>
InWorkloads(A)  == part = "workloads" /\ A /\ UNCHANGED <<fedVars, streamVars, part>>
InStream(A)     == part = "stream" /\ A /\ UNCHANGED <<fedVars, wleVars, part>>

(***************************************************************************)
(* The set-up of the stream is chosen only where the stream runs.          *)
(***************************************************************************)
LoopsInit ==
  /\ part \in Parts
  /\ FedInit /\ WleInit /\ StreamInit
  /\ part # "stream" => TRUE \notin {setup[f] : f \in DOMAIN setup} /\ client.nonce = 0

LoopsNext ==
  \/ InFederation(FedNext)
  \/ InWorkloads(WleNext)
  \/ InStream(StreamNext)

NextConnection(c) == c <= Len(conns) /\ ConnectionStep(c)

(***************************************************************************)
(* The steps that are taken sooner or later, in each part.  Only one part  *)
(* runs, so a disjunction of steps of different parts is fair to each.     *)
(*                                                                         *)
(* Federation: the goroutines and handlers of both meshes run, a broken    *)
(* watch is made again, and Run's select, of which the ticker is another   *)
(* case, does not ignore an event for ever.                                *)
(* WorkloadEntries: caches catch up, streams, tasks and retries are        *)
(* served, and the periodic cleanup does not for ever miss the moments     *)
(* when its cache is up to date.                                           *)
(* AdsStream: its own fairness.                                            *)
(*                                                                         *)
(* Nobody has to update, connect, disconnect, crash or stop.               *)
(***************************************************************************)
LoopsFairness ==
  /\ WF_loopsVars(\/ InFederation(ExporterStep)
                  \/ InWorkloads(Propagate(i1))
                  \/ InStream(ProcessRequest))
  /\ WF_loopsVars(\/ InFederation(\E h \in Handlers : Connect(h))
                  \/ InWorkloads(Propagate(i2))
                  \/ InStream(PushConnection))
  /\ WF_loopsVars(\/ InFederation(ReadEvent)
                  \/ InWorkloads(CleanupTask(i1))
                  \/ InStream(\E nack \in BOOLEAN : Reply(nack)))
  /\ WF_loopsVars(InFederation(ResyncStep) \/ InWorkloads(CleanupTask(i2)))
  /\ WF_loopsVars(InFederation(Refresh) \/ InWorkloads(NextConnection(1)))
  /\ WF_loopsVars(InFederation(HandlerStep(h1)) \/ InWorkloads(NextConnection(2)))
  /\ WF_loopsVars(InFederation(HandlerStep(h2)))
  /\ SF_loopsVars(InFederation(HandleEvent) \/ InWorkloads(PeriodicCleanup(i1)))
  /\ SF_loopsVars(InWorkloads(PeriodicCleanup(i2)))

LoopsSpec == LoopsInit /\ [][LoopsNext]_loopsVars /\ LoopsFairness
=============================================================================
