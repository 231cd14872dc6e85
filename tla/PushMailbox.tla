----------------------------- MODULE PushMailbox -----------------------------
(***************************************************************************)
(* What the push queue promises its users, with no queue in it: one        *)
(* mailbox per connection.  Everything asked of a connection accumulates   *)
(* in its mailbox until it is handed out in one piece, and a connection    *)
(* whose previous request is still in flight is not handed another one.    *)
(***************************************************************************)
EXTENDS PushRequest

CONSTANT Connections

VARIABLES owed,      \* owed[c]: the merge of everything asked and not handed out
          inFlight   \* inFlight[c]: the request handed out and not marked done

mailboxVars == <<owed, inFlight>>

Init ==
  /\ owed     = [c \in Connections |-> NoRequest]
  /\ inFlight = [c \in Connections |-> NoRequest]

Ask(c, r) ==
  /\ owed' = [owed EXCEPT ![c] = Merge(@, r)]
  /\ UNCHANGED inFlight

Hand(c) ==
  /\ owed[c] # NoRequest
  /\ inFlight[c] = NoRequest
  /\ inFlight' = [inFlight EXCEPT ![c] = owed[c]]
  /\ owed'     = [owed EXCEPT ![c] = NoRequest]

Done(c) ==
  /\ inFlight[c] # NoRequest
  /\ inFlight' = [inFlight EXCEPT ![c] = NoRequest]
  /\ UNCHANGED owed

Next ==
  \E c \in Connections :
    \/ \E r \in Requests : Ask(c, r)
    \/ Hand(c)
    \/ Done(c)

Spec == Init /\ [][Next]_mailboxVars
=============================================================================
