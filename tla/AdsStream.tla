------------------------------ MODULE AdsStream ------------------------------
(***************************************************************************)
(* The ACK/NACK protocol of one ADS stream (pilot/pkg/xds/ads.go and       *)
(* gen.go): processRequest, shouldRespond, pushConnection, pushXds, send   *)
(* and Synced, with the proxy's side of xDS as the environment.            *)
(*                                                                         *)
(* The server keeps all this state per resource type and never mixes two   *)
(* types, so one type is modelled.  All the server's steps run in the      *)
(* goroutine of Stream, one at a time.                                     *)
(*                                                                         *)
(* A nonce is a number, 0 is the empty one.  Generated resources are       *)
(* represented by the context they come from and the names asked for.      *)
(***************************************************************************)
EXTENDS PushRequest, Sequences, FiniteSets

CONSTANTS Names,        \* resource names
          Relevant,     \* the configurations the type's generator looks at
          MaxContexts,  \* bound: push contexts published
          MaxNonce,     \* bound: responses sent
          MaxNameChanges    \* bound: times the proxy changes its names

ASSUME StreamAssumption ==
  /\ Relevant \in SUBSET Configs
  /\ {MaxContexts, MaxNonce, MaxNameChanges} \subseteq Nat /\ MaxContexts > 0
  /\ Versions = 0..MaxContexts

VARIABLES setup,       \* fixed: the sort of type and the features in force
          ctx,         \* the global push context
          changedAt,   \* the context that first had the last relevant change
          owed,        \* the request the push queue holds for the connection
          watch,       \* WatchedResources[type]
          blocked,     \* blockedPushes[type]
          nextNonce,   \* the last nonce handed out
          toClient,    \* responses under way
          toServer,    \* requests under way
          client,      \* the proxy
          panicked     \* the server dereferenced a nil WatchedResource

serverVars == <<watch, blocked, nextNonce, panicked>>
streamVars == <<setup, ctx, changedAt, owed, watch, blocked, nextNonce, toClient, toServer, client,
          panicked>>

NotWatched == [names |-> {}, watching |-> FALSE, nonceSent |-> 0, nonceAcked |-> 0,
               nonceNacked |-> 0]

(***************************************************************************)
(* isWildcardTypeURL, features.EnableFlowControl, and whether              *)
(* features.FlowControlTimeout, which only flow control looks at, may pass  *)
(* before a reply.                                                         *)
(***************************************************************************)
Setups == {s \in [wildcard : BOOLEAN, flowControl : BOOLEAN, timeouts : BOOLEAN] :
             s.timeouts => s.flowControl}

(***************************************************************************)
(* What a proxy may ask for, and the nonce it keeps from an earlier stream *)
(* when it reconnects.                                                     *)
(***************************************************************************)
NameLists == IF setup.wildcard THEN {{}} ELSE SUBSET Names

ReconnectNonce == MaxNonce + 1

Nonces == 0..ReconnectNonce

StreamInit ==
  /\ setup     \in Setups
  /\ ctx       = 1
  /\ changedAt = 1
  /\ owed      = NoRequest
  /\ watch     = NotWatched
  /\ blocked   = NoRequest
  /\ nextNonce = 0
  /\ toClient  = <<>>
  /\ toServer  = <<>>
  /\ panicked  = FALSE
  /\ \E n \in {0, ReconnectNonce} :
       client = [subscribed |-> FALSE, names |-> {}, nonce |-> n, ver |-> 0, got |-> {},
                 changes |-> 0, nacked |-> FALSE]

-----------------------------------------------------------------------------
(***************************************************************************)
(* A new push context; its request is merged into what the queue holds.    *)
(***************************************************************************)
Publish(ks) ==
  /\ ctx < MaxContexts
  /\ ctx' = ctx + 1
  /\ changedAt' = IF ks = {} \/ ks \cap Relevant # {} THEN ctx + 1 ELSE changedAt
  /\ owed' = Merge(owed, [full |-> TRUE, push |-> ctx + 1, configs |-> ks])
  /\ UNCHANGED <<setup, serverVars, toClient, toServer, client>>

-----------------------------------------------------------------------------
(***************************************************************************)
(* pushXds(con, push, w, req), with w the watch given: nothing for a nil   *)
(* watch or when the generator has nothing to send, else a response with a *)
(* fresh nonce, which send records.                                        *)
(***************************************************************************)
GeneratesSomething(r) == r.configs = {} \/ r.configs \cap Relevant # {}

PushXds(w, ver, r) ==
  IF w.watching /\ GeneratesSomething(r)
  THEN /\ nextNonce < MaxNonce
       /\ nextNonce' = nextNonce + 1
       /\ watch'     = [w EXCEPT !.nonceSent = nextNonce + 1]
       /\ toClient'  = Append(toClient, [nonce |-> nextNonce + 1, ver |-> ver, names |-> w.names])
  ELSE watch' = w /\ UNCHANGED <<nextNonce, toClient>>

(***************************************************************************)
(* shouldRespond: the watch after a request, and whether to answer it.     *)
(***************************************************************************)
NewWatch(q) == [NotWatched EXCEPT !.watching = TRUE, !.names = q.names]

ShouldUnsubscribe(q) == q.names = {} /\ ~setup.wildcard

WatchAfter(q) ==
  IF q.nack THEN [watch EXCEPT !.nonceNacked = q.nonce]
  ELSE IF ShouldUnsubscribe(q) THEN NotWatched
  ELSE IF q.nonce = 0 \/ ~watch.watching THEN NewWatch(q)
  ELSE IF q.nonce # watch.nonceSent THEN [watch EXCEPT !.nonceNacked = 0]
  ELSE [watch EXCEPT !.nonceAcked = q.nonce, !.nonceNacked = 0, !.names = q.names]

\* Variant with a bug: an ACK with other names than before is not answered.
ShouldRespondFirstOnly(q) ==
  /\ ~q.nack
  /\ ~ShouldUnsubscribe(q)
  /\ q.nonce = 0 \/ ~watch.watching

ShouldRespond(q) ==
  /\ ~q.nack
  /\ ~ShouldUnsubscribe(q)
  /\ \/ q.nonce = 0
     \/ ~watch.watching
     \/ q.nonce = watch.nonceSent /\ q.names # watch.names

(***************************************************************************)
(* processRequest: answer the request with a full push, or else release a  *)
(* blocked push, or else do nothing.  Either way the blocked push is gone. *)
(***************************************************************************)
ProcessRequest ==
  LET q == Head(toServer)
      w == WatchAfter(q)
  IN  /\ ~panicked
      /\ toServer # <<>>
      /\ toServer' = Tail(toServer)
      /\ IF q.nack /\ ~watch.watching
         THEN panicked' = TRUE /\ UNCHANGED <<watch, blocked, nextNonce, toClient>>
         ELSE /\ blocked' = NoRequest
              /\ IF ShouldRespond(q)
                 THEN PushXds(w, ctx, [full |-> TRUE, push |-> 0, configs |-> {}])
                 ELSE IF blocked # NoRequest
                 THEN PushXds(w, ctx, blocked)
                 ELSE watch' = w /\ UNCHANGED <<nextNonce, toClient>>
              /\ UNCHANGED panicked
      /\ UNCHANGED <<setup, ctx, changedAt, owed, client>>

\* Variants with a bug: a NACK does not count as a reply, and any ACK counts as one
\* of the last response.
SyncedOnAckOnly == watch.nonceAcked = watch.nonceSent

SyncedAfterAnyAck == watch.nonceNacked # 0 \/ watch.nonceAcked # 0

(***************************************************************************)
(* pushConnection, for the type modelled.  Every configuration concerns    *)
(* the proxy here; requests that do not are dropped by ProxyNeedsPush.     *)
(***************************************************************************)
Synced == watch.nonceNacked # 0 \/ watch.nonceAcked = watch.nonceSent

PushConnection ==
  /\ ~panicked
  /\ owed # NoRequest
  /\ owed' = NoRequest
  /\ \/ /\ \/ ~watch.watching
           \/ ~setup.flowControl
           \/ Synced
           \/ setup.timeouts
        /\ PushXds(watch, owed.push, owed)
        /\ UNCHANGED blocked
     \/ /\ watch.watching /\ setup.flowControl /\ ~Synced
        /\ blocked' = Merge(blocked, owed)
        /\ UNCHANGED <<watch, nextNonce, toClient>>
  /\ UNCHANGED <<setup, ctx, changedAt, toServer, client, panicked>>

-----------------------------------------------------------------------------
(***************************************************************************)
(* The proxy: it subscribes, replies to every response with the names it   *)
(* wants at that time, and may change them at any time.                    *)
(***************************************************************************)
Request(nonce, names, nack, reply) ==
  [nonce |-> nonce, names |-> names, nack |-> nack, reply |-> reply]

Subscribe(names) ==
  /\ ~client.subscribed
  /\ client' = [client EXCEPT !.subscribed = TRUE, !.names = names]
  /\ toServer' = Append(toServer, Request(client.nonce, names, FALSE, FALSE))
  /\ UNCHANGED <<setup, ctx, changedAt, owed, serverVars, toClient>>

ChangeNames(names) ==
  /\ client.subscribed
  /\ names # client.names
  /\ client.changes < MaxNameChanges
  /\ client' = [client EXCEPT !.names = names, !.changes = @ + 1]
  /\ toServer' = Append(toServer, Request(client.nonce, names, FALSE, FALSE))
  /\ UNCHANGED <<setup, ctx, changedAt, owed, serverVars, toClient>>

Reply(nack) ==
  LET m == Head(toClient)
  IN  /\ toClient # <<>>
      /\ toClient' = Tail(toClient)
      /\ client' = IF nack THEN [client EXCEPT !.nonce = m.nonce, !.nacked = TRUE]
                   ELSE [client EXCEPT !.nonce = m.nonce, !.ver = m.ver, !.got = m.names]
      /\ toServer' = Append(toServer, Request(m.nonce, client.names, nack, TRUE))
      /\ UNCHANGED <<setup, ctx, changedAt, owed, serverVars>>

-----------------------------------------------------------------------------
StreamNext ==
  \/ \E ks \in SUBSET Configs : Publish(ks)
  \/ ProcessRequest
  \/ PushConnection
  \/ \E names \in NameLists : Subscribe(names) \/ ChangeNames(names)
  \/ \E nack \in BOOLEAN : Reply(nack)

StreamSpec == StreamInit /\ [][StreamNext]_streamVars

(***************************************************************************)
(* The server goes on serving and the proxy goes on replying.              *)
(***************************************************************************)
StreamFairness ==
  /\ WF_streamVars(ProcessRequest)
  /\ WF_streamVars(PushConnection)
  /\ WF_streamVars(\E nack \in BOOLEAN : Reply(nack))

StreamFairSpec == StreamSpec /\ StreamFairness

-----------------------------------------------------------------------------
Responses == [nonce : 1..MaxNonce, ver : 1..MaxContexts, names : SUBSET Names]

RequestsUnderWay == [nonce : Nonces, names : SUBSET Names, nack : BOOLEAN, reply : BOOLEAN]

StreamTypeOK ==
  /\ setup     \in Setups
  /\ ctx       \in 1..MaxContexts
  /\ changedAt \in 1..MaxContexts
  /\ owed      \in MaybeRequests
  /\ watch     \in [names : SUBSET Names, watching : BOOLEAN, nonceSent : 0..MaxNonce,
                    nonceAcked : 0..MaxNonce, nonceNacked : Nonces]
  /\ blocked   \in MaybeRequests
  /\ nextNonce \in 0..MaxNonce
  /\ toClient  \in Seq(Responses)
  /\ toServer  \in Seq(RequestsUnderWay)
  /\ client    \in [subscribed : BOOLEAN, names : SUBSET Names, nonce : Nonces,
                    ver : 0..MaxContexts, got : SUBSET Names, changes : 0..MaxNameChanges,
                    nacked : BOOLEAN]
  /\ panicked  \in BOOLEAN

(***************************************************************************)
(* Nothing is under way and the proxy wants resources of this type.        *)
(***************************************************************************)
StreamQuiet ==
  /\ toClient = <<>> /\ toServer = <<>> /\ owed = NoRequest
  /\ client.subscribed /\ (client.names # {} \/ setup.wildcard)

(***************************************************************************)
(* When nothing is under way, the proxy has what it asked for, as of the   *)
(* last relevant change, and the server knows what it wants: although a    *)
(* request with a stale nonce is dropped, names included, and although a   *)
(* push may be blocked and merged.  It relies on the proxy accepting what  *)
(* it is sent: a NACK's names are dropped for good.  Nor does the server   *)
(* panic on the way, except in one case: shouldRespond dereferences the    *)
(* WatchedResource of a NACK unchecked, and there is none if the proxy     *)
(* dropped all names of the type with the rejected response still under    *)
(* way.                                                                    *)
(***************************************************************************)
Converges ==
  /\ panicked => ~setup.wildcard /\ client.changes > 0
  /\ StreamQuiet /\ ~client.nacked =>
       /\ watch.watching
       /\ watch.names = client.names
       /\ client.got = client.names
       /\ client.ver >= changedAt

(***************************************************************************)
(* A blocked push is never stranded: while there is one, it is for a       *)
(* watched type whose last response is not acknowledged, and a response or *)
(* a request is under way whose processing will release it.                *)
(***************************************************************************)
BlockedPushReleased ==
  blocked # NoRequest /\ ~panicked =>
    /\ setup.flowControl
    /\ watch.watching
    /\ watch.nonceAcked # watch.nonceSent
    /\ toClient # <<>> \/ toServer # <<>>

(***************************************************************************)
(* Responses the proxy has and whose reply the server has not processed.   *)
(***************************************************************************)
Outstanding ==
  Len(toClient) + Cardinality({i \in 1..Len(toServer) : toServer[i].reply})

(***************************************************************************)
(* With flow control, "we will only push if we got an ACK for the previous *)
(* response" (ads.go:674): at most one response is without its reply.  It  *)
(* takes a proxy that neither rejects a response (NonceNacked makes Synced *)
(* true until the next ACK) nor changes its names (any request of the type *)
(* releases a blocked push), and no timeout.                               *)
(***************************************************************************)
OneOutstanding ==
  setup.flowControl /\ ~setup.timeouts /\ ~client.nacked /\ client.changes = 0
    => Outstanding <= 1

(***************************************************************************)
(* Every relevant change reaches a proxy that accepts what it is sent and  *)
(* goes on wanting the type.                                               *)
(***************************************************************************)
ChangesReachProxy ==
  (client.subscribed /\ client.ver < changedAt)
    ~> \/ client.ver >= changedAt
       \/ client.names = {} /\ ~setup.wildcard
       \/ client.nacked
=============================================================================
