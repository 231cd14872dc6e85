-------------------------- MODULE DelayQueueProofs --------------------------
(***************************************************************************)
(* Proofs about the delay queue: no task is lost or duplicated on its way  *)
(* through the channels, the heap, Run and the workers, for any number of  *)
(* tasks and workers and any capacities.                                   *)
(***************************************************************************)
EXTENDS DelayQueue, FiniteSetTheorems, TLAPS

DelayedTasks == [id : DelayTasks, left : 0..MaxDelay]

DelayTypes ==
  /\ enqueue \in Seq(DelayedTasks) /\ execute \in Seq(DelayedTasks)
  /\ heap \in SUBSET DelayedTasks /\ pushing \in SUBSET DelayedTasks
  /\ head \in DelayedTasks \cup {NoTask}
  /\ running \in [DelayWorkers -> DelayTasks \cup {NoTask}]
  /\ pushed \in SUBSET DelayTasks /\ done \in SUBSET pushed

(***************************************************************************)
(* The places where a task can be.  A worker that pushes a retry has put   *)
(* its task in another place already.                                      *)
(***************************************************************************)
Places == {"enqueue", "execute", "heap", "pushing", "head", "worker"}

SeqHas(s, t) == \E i \in DOMAIN s : s[i].id = t
SetHas(S, t) == \E task \in S : task.id = t

In(p, t) ==
  \/ p = "enqueue" /\ SeqHas(enqueue, t)
  \/ p = "execute" /\ SeqHas(execute, t)
  \/ p = "heap"    /\ SetHas(heap, t)
  \/ p = "pushing" /\ SetHas(pushing, t)
  \/ p = "head"    /\ head # NoTask /\ head.id = t
  \/ p = "worker"  /\ \E w \in DelayWorkers : Busy(w) /\ running[w] = t

Placed(t) ==
  /\ t \in pushed \ done <=> \E p \in Places : In(p, t)
  /\ \A p, q \in Places : In(p, t) /\ In(q, t) => p = q

AllPlaced == \A t \in DelayTasks : Placed(t)

(***************************************************************************)
(* No place has a task twice.                                              *)
(***************************************************************************)
SeqOnce(s) == \A i, j \in DOMAIN s : s[i].id = s[j].id => i = j
SetOnce(S) == \A u, v \in S : u.id = v.id => u = v

PlacesOnce ==
  /\ SeqOnce(enqueue) /\ SeqOnce(execute)
  /\ SetOnce(heap) /\ SetOnce(pushing)
  /\ \A v, w \in DelayWorkers : running[v] = running[w] /\ running[v] # NoTask => v = w

(***************************************************************************)
(* Run has put its task somewhere when it looks for the next one, and has  *)
(* one to send.                                                            *)
(***************************************************************************)
HeadOK == /\ runPC = "peek" => head = NoTask
          /\ runPC = "send" => head # NoTask

DelayInv == DelayTypes /\ AllPlaced /\ PlacesOnce /\ HeadOK

-----------------------------------------------------------------------------
(***************************************************************************)
(* What a channel holds after a receive and after a send.                  *)
(***************************************************************************)
LEMMA SeqReceive ==
  ASSUME NEW s \in Seq(DelayedTasks), s # <<>>, SeqOnce(s)
  PROVE  /\ Tail(s) \in Seq(DelayedTasks) /\ Head(s) \in DelayedTasks
         /\ SeqOnce(Tail(s)) /\ SeqHas(s, Head(s).id)
         /\ \A t : SeqHas(Tail(s), t) <=> SeqHas(s, t) /\ t # Head(s).id
<1>1. /\ DOMAIN s = 1..Len(s) /\ Len(s) \in Nat /\ Len(s) > 0
      /\ DOMAIN Tail(s) = 1..(Len(s) - 1)
      /\ \A i \in 1..(Len(s) - 1) : Tail(s)[i] = s[i+1]
      /\ Head(s) = s[1] /\ Tail(s) \in Seq(DelayedTasks) /\ Head(s) \in DelayedTasks
  OBVIOUS
<1> DEFINE u == Tail(s)
           h == Head(s)
<1> HIDE DEF u, h
<1>2. /\ DOMAIN u = 1..(Len(s) - 1) /\ \A i \in 1..(Len(s) - 1) : u[i] = s[i+1]
      /\ h = s[1] /\ DOMAIN s = 1..Len(s) /\ Len(s) \in Nat /\ Len(s) > 0
  BY <1>1 DEF u, h
<1>3. SeqOnce(u)
  BY <1>2, SMTT(40) DEF SeqOnce
<1>4. SeqHas(s, h.id)
  BY <1>2 DEF SeqHas
<1>5. ASSUME NEW t, SeqHas(u, t) PROVE SeqHas(s, t) /\ t # h.id
  <2>1. PICK i \in 1..(Len(s) - 1) : s[i+1].id = t
    BY <1>2, <1>5 DEF SeqHas
  <2>2. i+1 \in DOMAIN s /\ 1 \in DOMAIN s /\ i+1 # 1
    BY <1>2
  <2> QED
    BY <2>1, <2>2, <1>2 DEF SeqHas, SeqOnce
<1>6. ASSUME NEW t, SeqHas(s, t), t # h.id PROVE SeqHas(u, t)
  <2>1. PICK i \in 1..Len(s) : s[i].id = t
    BY <1>2, <1>6 DEF SeqHas
  <2>2. i # 1
    BY <2>1, <1>2, <1>6
  <2>3. i - 1 \in 1..(Len(s) - 1) /\ (i - 1) + 1 = i
    BY <2>2, <1>2
  <2> QED
    BY <2>1, <2>3, <1>2 DEF SeqHas
<1> QED
  BY <1>1, <1>3, <1>4, <1>5, <1>6 DEF u, h

(***************************************************************************)
(* A send adds one task at the end of a channel.                           *)
(***************************************************************************)
LEMMA SeqSend ==
  ASSUME NEW s \in Seq(DelayedTasks), NEW x \in DelayedTasks, SeqOnce(s), ~SeqHas(s, x.id)
  PROVE  /\ Append(s, x) \in Seq(DelayedTasks)
         /\ SeqOnce(Append(s, x))
         /\ \A t : SeqHas(Append(s, x), t) <=> SeqHas(s, t) \/ t = x.id
<1>1. /\ DOMAIN s = 1..Len(s) /\ Len(s) \in Nat
      /\ DOMAIN Append(s, x) = 1..(Len(s) + 1)
      /\ \A i \in 1..Len(s) : Append(s, x)[i] = s[i]
      /\ Append(s, x)[Len(s) + 1] = x
      /\ Append(s, x) \in Seq(DelayedTasks)
  OBVIOUS
<1> DEFINE u == Append(s, x)
<1> HIDE DEF u
<1>2. /\ DOMAIN u = 1..(Len(s) + 1) /\ \A i \in 1..Len(s) : u[i] = s[i]
      /\ u[Len(s) + 1] = x /\ DOMAIN s = 1..Len(s) /\ Len(s) \in Nat
  BY <1>1 DEF u
<1>3. \A i \in DOMAIN u : i \in 1..Len(s) \/ i = Len(s) + 1
  BY <1>2
<1>4. SeqOnce(u)
  BY <1>2, <1>3 DEF SeqOnce, SeqHas
<1>5. ASSUME NEW t PROVE SeqHas(u, t) <=> SeqHas(s, t) \/ t = x.id
  <2>1. 1..Len(s) \subseteq DOMAIN u /\ Len(s) + 1 \in DOMAIN u
    BY <1>2
  <2> QED
    BY <2>1, <1>2, <1>3 DEF SeqHas
<1> QED
  BY <1>1, <1>4, <1>5 DEF u

(***************************************************************************)
(* Where a task is, place by place: a worker has the task it runs, unless  *)
(* it is pushing it again.                                                 *)
(***************************************************************************)
Runs(t) == \E w \in DelayWorkers : running[w] = t
AtHead(t) == head # NoTask /\ head.id = t

(***************************************************************************)
(* What it is for a task to be in each place.                              *)
(***************************************************************************)
LEMMA InPlaces ==
  ASSUME NEW t \in DelayTasks
  PROVE  /\ In("enqueue", t) <=> SeqHas(enqueue, t)
         /\ In("execute", t) <=> SeqHas(execute, t)
         /\ In("heap", t)    <=> SetHas(heap, t)
         /\ In("pushing", t) <=> SetHas(pushing, t)
         /\ In("head", t)    <=> AtHead(t)
         /\ In("worker", t)  <=> Runs(t) /\ ~SetHas(pushing, t)
         /\ In("enqueue", t)' <=> SeqHas(enqueue', t)
         /\ In("execute", t)' <=> SeqHas(execute', t)
         /\ In("heap", t)'    <=> SetHas(heap', t)
         /\ In("pushing", t)' <=> SetHas(pushing', t)
         /\ In("head", t)'    <=> AtHead(t)'
         /\ In("worker", t)'  <=> Runs(t)' /\ ~SetHas(pushing', t)
<1>1. t # NoTask
  BY DelayAssumption
<1> QED
  BY <1>1 DEF In, Busy, Runs, SetHas, AtHead

(***************************************************************************)
(* A step that moves a task from one place to another, or leaves it where  *)
(* it is, keeps it in one place.                                           *)
(***************************************************************************)
Stays(t) == \A p \in Places : In(p, t)' <=> In(p, t)

Moves(a, b, t) == In(a, t) /\ \A p \in Places : In(p, t)' <=> p = b

(***************************************************************************)
(* A task that stays, or moves from one place to another, is still in      *)
(* exactly one.                                                            *)
(***************************************************************************)
LEMMA PlacedKept ==
  ASSUME NEW t, Placed(t), (t \in pushed \ done)' <=> t \in pushed \ done,
         Stays(t) \/ \E a, b \in Places : Moves(a, b, t)
  PROVE  Placed(t)'
<1> HIDE DEF Places
<1>1. CASE Stays(t)
  BY <1>1 DEF Placed, Stays
<1>2. CASE \E a, b \in Places : Moves(a, b, t)
  BY <1>2 DEF Placed, Moves
<1> QED
  BY <1>1, <1>2

(***************************************************************************)
(* The same for all tasks, where none is pushed and none is done.          *)
(***************************************************************************)
LEMMA AllPlacedKept ==
  ASSUME AllPlaced, UNCHANGED <<pushed, done>>,
         \A t \in DelayTasks : Stays(t) \/ \E a, b \in Places : Moves(a, b, t)
  PROVE  AllPlaced'
BY PlacedKept DEF AllPlaced

(***************************************************************************)
(* A task that is in one place is in no other.                             *)
(***************************************************************************)
LEMMA OnlyThere ==
  ASSUME AllPlaced, NEW t \in DelayTasks, NEW a \in Places, In(a, t)
  PROVE  \A p \in Places : In(p, t) => p = a
BY DEF AllPlaced, Placed

(***************************************************************************)
(* The send of PushDelayed: the task is in the channel or on its way to    *)
(* the heap.                                                               *)
(***************************************************************************)
LEMMA SendPlaces ==
  ASSUME DelayTypes, PlacesOnce, NEW x \in DelayedTasks, SendOrDefault(x),
         ~SeqHas(enqueue, x.id), ~SetHas(pushing, x.id)
  PROVE  /\ enqueue' \in Seq(DelayedTasks) /\ SeqOnce(enqueue')
         /\ pushing' \in SUBSET DelayedTasks /\ SetOnce(pushing')
         /\ \A t : SeqHas(enqueue', t) <=> SeqHas(enqueue, t) \/ (CanSend /\ t = x.id)
         /\ \A t : SetHas(pushing', t) <=> SetHas(pushing, t) \/ (~CanSend /\ t = x.id)
<1>0. enqueue \in Seq(DelayedTasks) /\ pushing \in SUBSET DelayedTasks
      /\ SeqOnce(enqueue) /\ SetOnce(pushing)
  BY DEF DelayTypes, PlacesOnce
<1>1. CASE CanSend
  <2>1. enqueue' = Append(enqueue, x) /\ pushing' = pushing
    BY <1>1 DEF SendOrDefault
  <2> QED
    BY <1>0, <1>1, <2>1, SeqSend
<1>2. CASE ~CanSend
  <2>1. enqueue' = enqueue /\ pushing' = pushing \cup {x}
    BY <1>2 DEF SendOrDefault
  <2>2. SetOnce(pushing') /\ \A t : SetHas(pushing', t) <=> SetHas(pushing, t) \/ t = x.id
    BY <1>0, <2>1 DEF SetOnce, SetHas
  <2> QED
    BY <1>0, <1>2, <2>1, <2>2
<1> QED
  BY <1>1, <1>2

(***************************************************************************)
(* A caller pushes a task with a delay.                                    *)
(***************************************************************************)
LEMMA PushDelayedInv ==
  ASSUME DelayInv, NEW t0 \in DelayTasks, NEW d \in 0..MaxDelay, PushDelayed(t0, d)
  PROVE  DelayInv'
<1> DEFINE x == [id |-> t0, left |-> d]
<1>1. /\ t0 \notin pushed /\ pushed' = pushed \cup {t0} /\ SendOrDefault(x)
      /\ UNCHANGED <<running, gone, done, heap, execute, runPC, head>>
  BY DEF PushDelayed, workVars
<1>2. x \in DelayedTasks /\ x.id = t0
  BY DEF DelayedTasks
<1>3. \A p \in Places : ~In(p, t0)
  BY <1>1 DEF DelayInv, AllPlaced, Placed
<1>4. ~SeqHas(enqueue, t0) /\ ~SeqHas(execute, t0) /\ ~SetHas(heap, t0) /\ ~SetHas(pushing, t0)
      /\ ~AtHead(t0) /\ ~Runs(t0)
  BY <1>3, InPlaces DEF Places
<1> HIDE DEF x
<1>5. /\ enqueue' \in Seq(DelayedTasks) /\ SeqOnce(enqueue')
      /\ pushing' \in SUBSET DelayedTasks /\ SetOnce(pushing')
      /\ \A t : SeqHas(enqueue', t) <=> SeqHas(enqueue, t) \/ (CanSend /\ t = t0)
      /\ \A t : SetHas(pushing', t) <=> SetHas(pushing, t) \/ (~CanSend /\ t = t0)
  BY <1>1, <1>2, <1>4, SendPlaces DEF DelayInv
<1>6. DelayTypes' /\ PlacesOnce' /\ HeadOK'
  BY <1>1, <1>5 DEF DelayInv, DelayTypes, PlacesOnce, HeadOK
<1>7. ASSUME NEW t \in DelayTasks, t # t0 PROVE Placed(t)'
  <2>1. Stays(t)
    BY <1>1, <1>5, <1>7, InPlaces DEF Stays, Places, AtHead, Runs
  <2>2. Placed(t) /\ ((t \in pushed \ done)' <=> t \in pushed \ done)
    BY <1>1, <1>7 DEF DelayInv, AllPlaced
  <2> QED
    BY <2>1, <2>2, PlacedKept
<1>8. Placed(t0)'
  <2>1. \A p \in Places : In(p, t0)' <=> p = IF CanSend THEN "enqueue" ELSE "pushing"
    BY <1>1, <1>4, <1>5, InPlaces DEF Places, AtHead, Runs
  <2>2. t0 \in pushed' \ done'
    BY <1>1 DEF DelayInv, DelayTypes
  <2>3. "enqueue" \in Places /\ "pushing" \in Places
    BY DEF Places
  <2> HIDE DEF Places
  <2> QED
    BY <2>1, <2>2, <2>3 DEF Placed
<1> QED
  BY <1>6, <1>7, <1>8 DEF DelayInv, AllPlaced

(***************************************************************************)
(* A push whose send would block puts the task into the heap itself.       *)
(***************************************************************************)
LEMMA PushToHeapInv ==
  ASSUME DelayInv, NEW task \in pushing, PushToHeap(task)
  PROVE  DelayInv'
<1> DEFINE t0 == task.id
<1>1. /\ pushing' = pushing \ {task} /\ heap' = heap \cup {task}
      /\ running' = [w \in DelayWorkers |-> IF running[w] = t0 THEN NoTask ELSE running[w]]
      /\ UNCHANGED <<enqueue, execute, runPC, head, pushed, done>>
  BY DEF PushToHeap
<1>2. task \in DelayedTasks /\ t0 \in DelayTasks /\ t0 # NoTask
  BY DelayAssumption DEF DelayInv, DelayTypes, DelayedTasks
<1>3. SetHas(pushing, t0)
  BY DEF SetHas
<1>4. ~SeqHas(enqueue, t0) /\ ~SeqHas(execute, t0) /\ ~SetHas(heap, t0) /\ ~AtHead(t0)
  <2>1. In("pushing", t0)
    BY <1>2, <1>3, InPlaces
  <2>2. \A p \in Places : In(p, t0) => p = "pushing"
    BY <2>1, <1>2, OnlyThere DEF DelayInv, Places
  <2> QED
    BY <2>2, <1>2, InPlaces DEF Places
<1> HIDE DEF t0
<1>5. /\ SetOnce(pushing') /\ SetOnce(heap')
      /\ \A t : SetHas(pushing', t) <=> SetHas(pushing, t) /\ t # t0
      /\ \A t : SetHas(heap', t) <=> SetHas(heap, t) \/ t = t0
  BY <1>1, <1>4 DEF DelayInv, PlacesOnce, SetOnce, SetHas, t0
<1>6. \A t \in DelayTasks : Runs(t)' <=> Runs(t) /\ t # t0
  BY <1>1, <1>2, DelayAssumption DEF Runs
<1>7. DelayTypes' /\ HeadOK'
  <2>1. running' \in [DelayWorkers -> DelayTasks \cup {NoTask}]
    BY <1>1 DEF DelayInv, DelayTypes
  <2> QED
    BY <2>1, <1>1, <1>2 DEF DelayInv, DelayTypes, HeadOK
<1>8. PlacesOnce'
  <2>1. \A v, w \in DelayWorkers : running'[v] = running'[w] /\ running'[v] # NoTask => v = w
    BY <1>1 DEF DelayInv, PlacesOnce
  <2> QED
    BY <2>1, <1>1, <1>5 DEF DelayInv, PlacesOnce
<1>9. ASSUME NEW t \in DelayTasks PROVE Stays(t) \/ Moves("pushing", "heap", t)
  <2>1. CASE t # t0
    BY <2>1, <1>1, <1>5, <1>6, InPlaces DEF Stays, Places, AtHead
  <2>2. CASE t = t0
    BY <2>2, <1>1, <1>3, <1>4, <1>5, <1>6, InPlaces DEF Moves, Places, AtHead
  <2> QED
    BY <2>1, <2>2
<1> QED
  BY <1>1, <1>7, <1>8, <1>9, AllPlacedKept DEF DelayInv, Places

(***************************************************************************)
(* Run takes the first task of the heap, due or not.                       *)
(***************************************************************************)
LEMMA PeekAndPopInv ==
  ASSUME DelayInv, NEW task \in heap, PeekAndPop(task)
  PROVE  DelayInv'
<1> DEFINE t0 == task.id
<1>1. /\ head = NoTask /\ head' = task /\ heap' = heap \ {task} /\ runPC' \in {"send", "select"}
      /\ UNCHANGED <<running, done, enqueue, execute, pushing, pushed>>
  BY DEF PeekAndPop, workVars, DelayInv, HeadOK
<1>2. task \in DelayedTasks /\ t0 \in DelayTasks /\ task # NoTask
  BY DelayAssumption DEF DelayInv, DelayTypes, DelayedTasks
<1>3. SetHas(heap, t0) /\ \A t : ~AtHead(t)
  BY <1>1 DEF SetHas, AtHead
<1>4. ~SeqHas(enqueue, t0) /\ ~SeqHas(execute, t0) /\ ~SetHas(pushing, t0) /\ ~Runs(t0)
  <2>1. In("heap", t0)
    BY <1>2, <1>3, InPlaces
  <2>2. \A p \in Places : In(p, t0) => p = "heap"
    BY <2>1, <1>2, OnlyThere DEF DelayInv, Places
  <2> QED
    BY <2>2, <1>2, InPlaces DEF Places
<1> HIDE DEF t0
<1>5. /\ SetOnce(heap') /\ \A t : SetHas(heap', t) <=> SetHas(heap, t) /\ t # t0
      /\ \A t : AtHead(t)' <=> t = t0
  BY <1>1, <1>2 DEF DelayInv, PlacesOnce, SetOnce, SetHas, AtHead, t0
<1>6. DelayTypes' /\ HeadOK' /\ PlacesOnce'
  BY <1>1, <1>2, <1>5 DEF DelayInv, DelayTypes, HeadOK, PlacesOnce
<1>7. ASSUME NEW t \in DelayTasks PROVE Stays(t) \/ Moves("heap", "head", t)
  <2>1. CASE t # t0
    BY <2>1, <1>1, <1>3, <1>5, InPlaces DEF Stays, Places, Runs
  <2>2. CASE t = t0
    BY <2>2, <1>1, <1>3, <1>4, <1>5, InPlaces DEF Moves, Places, Runs
  <2> QED
    BY <2>1, <2>2
<1> QED
  BY <1>1, <1>6, <1>7, AllPlacedKept DEF DelayInv, Places

(***************************************************************************)
(* Run receives a task and puts it into the heap, the popped one back with *)
(* it.                                                                     *)
(***************************************************************************)
LEMMA ReceiveEnqueueInv ==
  ASSUME DelayInv, ReceiveEnqueue
  PROVE  DelayInv'
<1> DEFINE e == Head(enqueue)
<1>1. /\ enqueue # <<>> /\ enqueue' = Tail(enqueue)
      /\ heap' = heap \cup {e} \cup ({head} \ {NoTask})
      /\ head' = NoTask /\ runPC' = "peek"
      /\ UNCHANGED <<running, done, execute, pushing, pushed>>
  BY DEF ReceiveEnqueue, workVars
<1>2. /\ enqueue' \in Seq(DelayedTasks) /\ e \in DelayedTasks
      /\ SeqOnce(enqueue') /\ SeqHas(enqueue, e.id)
      /\ \A t : SeqHas(enqueue', t) <=> SeqHas(enqueue, t) /\ t # e.id
  BY <1>1, SeqReceive DEF DelayInv, DelayTypes, PlacesOnce
<1> HIDE DEF e
<1>3. e.id \in DelayTasks /\ (head # NoTask => head \in DelayedTasks /\ head.id \in DelayTasks)
  BY <1>2 DEF DelayedTasks, DelayInv, DelayTypes
<1>4. \A t \in DelayTasks : SeqHas(enqueue, t) =>
        ~SeqHas(execute, t) /\ ~SetHas(heap, t) /\ ~SetHas(pushing, t) /\ ~AtHead(t) /\ ~Runs(t)
  <2> SUFFICES ASSUME NEW t \in DelayTasks, SeqHas(enqueue, t)
               PROVE  ~SeqHas(execute, t) /\ ~SetHas(heap, t) /\ ~SetHas(pushing, t)
                      /\ ~AtHead(t) /\ ~Runs(t)
    OBVIOUS
  <2>1. In("enqueue", t)
    BY InPlaces
  <2>2. \A p \in Places : In(p, t) => p = "enqueue"
    BY <2>1, OnlyThere DEF DelayInv, Places
  <2> QED
    BY <2>2, InPlaces DEF Places
<1>5. \A t \in DelayTasks : AtHead(t) =>
        ~SeqHas(execute, t) /\ ~SetHas(heap, t) /\ ~SetHas(pushing, t) /\ ~Runs(t)
  <2> SUFFICES ASSUME NEW t \in DelayTasks, AtHead(t)
               PROVE  ~SeqHas(execute, t) /\ ~SetHas(heap, t) /\ ~SetHas(pushing, t) /\ ~Runs(t)
    OBVIOUS
  <2>1. In("head", t)
    BY InPlaces
  <2>2. \A p \in Places : In(p, t) => p = "head"
    BY <2>1, OnlyThere DEF DelayInv, Places
  <2> QED
    BY <2>2, InPlaces DEF Places
<1>6. \A t : SetHas(heap', t) <=> SetHas(heap, t) \/ t = e.id \/ AtHead(t)
  BY <1>1 DEF SetHas, AtHead
<1>7. SetOnce(heap')
  <2>1. ~SetHas(heap, e.id) /\ ~AtHead(e.id)
    BY <1>2, <1>3, <1>4
  <2>2. head # NoTask => ~SetHas(heap, head.id) /\ head.id # e.id
    BY <2>1, <1>3, <1>5 DEF AtHead
  <2> QED
    BY <2>1, <2>2, <1>1 DEF DelayInv, PlacesOnce, SetOnce, SetHas
<1>8. DelayTypes' /\ HeadOK' /\ PlacesOnce'
  BY <1>1, <1>2, <1>3, <1>7 DEF DelayInv, DelayTypes, HeadOK, PlacesOnce
<1>9. ASSUME NEW t \in DelayTasks
      PROVE  Stays(t) \/ Moves("enqueue", "heap", t) \/ Moves("head", "heap", t)
  <2>0. ~AtHead(t)'
    BY <1>1 DEF AtHead
  <2>1. CASE t = e.id
    BY <2>0, <2>1, <1>1, <1>2, <1>4, <1>6, InPlaces, ZenonT(60) DEF Moves, Places, Runs
  <2>2. CASE t # e.id /\ AtHead(t)
    <3>1. ~SeqHas(enqueue, t)
      BY <2>2, <1>4
    <3> QED
      BY <3>1, <2>0, <2>2, <1>1, <1>2, <1>5, <1>6, InPlaces, ZenonT(60) DEF Moves, Places, Runs
  <2>3. CASE t # e.id /\ ~AtHead(t)
    BY <2>0, <2>3, <1>1, <1>2, <1>6, InPlaces, ZenonT(60) DEF Stays, Places, Runs
  <2> QED
    BY <2>1, <2>2, <2>3
<1> QED
  BY <1>1, <1>8, <1>9, AllPlacedKept DEF DelayInv, Places

(***************************************************************************)
(* Run hands the popped task to a worker.                                  *)
(***************************************************************************)
LEMMA SendTaskInv ==
  ASSUME DelayInv, SendTask
  PROVE  DelayInv'
<1> DEFINE t0 == head.id
<1>1. /\ head # NoTask /\ head' = NoTask /\ runPC' = "peek" /\ execute' = Append(execute, head)
      /\ UNCHANGED <<running, done, enqueue, heap, pushing, pushed>>
  BY DEF SendTask, workVars, DelayInv, HeadOK
<1>2. head \in DelayedTasks /\ t0 \in DelayTasks
  BY <1>1 DEF DelayInv, DelayTypes, DelayedTasks
<1>3. (\A t : AtHead(t) <=> t = t0) /\ \A t : ~AtHead(t)'
  BY <1>1 DEF AtHead
<1>4. /\ ~SeqHas(enqueue, t0) /\ ~SeqHas(execute, t0) /\ ~SetHas(heap, t0)
      /\ ~SetHas(pushing, t0) /\ ~Runs(t0)
  <2>1. In("head", t0)
    BY <1>2, <1>3, InPlaces
  <2>2. \A p \in Places : In(p, t0) => p = "head"
    BY <2>1, <1>2, OnlyThere DEF DelayInv, Places
  <2> QED
    BY <2>2, <1>2, InPlaces DEF Places
<1>5. /\ execute' \in Seq(DelayedTasks) /\ SeqOnce(execute')
      /\ \A t : SeqHas(execute', t) <=> SeqHas(execute, t) \/ t = t0
  BY <1>1, <1>2, <1>4, SeqSend DEF DelayInv, DelayTypes, PlacesOnce
<1> HIDE DEF t0
<1>6. DelayTypes' /\ HeadOK' /\ PlacesOnce'
  BY <1>1, <1>5 DEF DelayInv, DelayTypes, HeadOK, PlacesOnce
<1>7. ASSUME NEW t \in DelayTasks PROVE Stays(t) \/ Moves("head", "execute", t)
  <2>1. CASE t # t0
    BY <2>1, <1>1, <1>3, <1>5, InPlaces DEF Stays, Places, Runs
  <2>2. CASE t = t0
    BY <2>2, <1>1, <1>3, <1>4, <1>5, InPlaces DEF Moves, Places, Runs
  <2> QED
    BY <2>1, <2>2
<1> QED
  BY <1>1, <1>6, <1>7, AllPlacedKept DEF DelayInv, Places

(***************************************************************************)
(* A worker takes a task.                                                  *)
(***************************************************************************)
LEMMA TakeTaskInv ==
  ASSUME DelayInv, NEW w \in DelayWorkers, TakeTask(w)
  PROVE  DelayInv'
<1> DEFINE h  == Head(execute)
           t0 == h.id
<1>1. /\ execute # <<>> /\ execute' = Tail(execute) /\ running[w] = NoTask
      /\ running' = [running EXCEPT ![w] = t0]
      /\ UNCHANGED <<done, enqueue, heap, pushing, pushed, head, runPC>>
  BY DEF TakeTask
<1>2. /\ execute' \in Seq(DelayedTasks) /\ h \in DelayedTasks
      /\ SeqOnce(execute') /\ SeqHas(execute, t0)
      /\ \A t : SeqHas(execute', t) <=> SeqHas(execute, t) /\ t # t0
  BY <1>1, SeqReceive DEF DelayInv, DelayTypes, PlacesOnce
<1>3. t0 \in DelayTasks /\ NoTask \notin DelayTasks
  BY <1>2, DelayAssumption DEF DelayedTasks
<1>4. /\ ~SeqHas(enqueue, t0) /\ ~SetHas(heap, t0) /\ ~SetHas(pushing, t0) /\ ~Runs(t0)
      /\ ~AtHead(t0)
  <2>1. In("execute", t0)
    BY <1>2, <1>3, InPlaces
  <2>2. \A p \in Places : In(p, t0) => p = "execute"
    BY <2>1, <1>3, OnlyThere DEF DelayInv, Places
  <2> QED
    BY <2>2, <1>3, InPlaces DEF Places
<1> HIDE DEF h, t0
<1>5. running \in [DelayWorkers -> DelayTasks \cup {NoTask}]
  BY DEF DelayInv, DelayTypes
<1>6. \A t \in DelayTasks : Runs(t)' <=> Runs(t) \/ t = t0
  BY <1>1, <1>3, <1>5 DEF Runs
<1>7. DelayTypes' /\ HeadOK'
  <2>1. running' \in [DelayWorkers -> DelayTasks \cup {NoTask}]
    BY <1>1, <1>3, <1>5
  <2> QED
    BY <2>1, <1>1, <1>2 DEF DelayInv, DelayTypes, HeadOK
<1>8. PlacesOnce'
  <2>1. \A u, v \in DelayWorkers : running'[u] = running'[v] /\ running'[u] # NoTask => u = v
    BY <1>1, <1>4, <1>5 DEF DelayInv, PlacesOnce, Runs
  <2> QED
    BY <2>1, <1>1, <1>2 DEF DelayInv, PlacesOnce
<1>9. ASSUME NEW t \in DelayTasks PROVE Stays(t) \/ Moves("execute", "worker", t)
  <2>1. CASE t # t0
    BY <2>1, <1>1, <1>2, <1>6, InPlaces DEF Stays, Places, AtHead
  <2>2. CASE t = t0
    BY <2>2, <1>1, <1>2, <1>4, <1>6, InPlaces DEF Moves, Places, AtHead
  <2> QED
    BY <2>1, <2>2
<1> QED
  BY <1>1, <1>7, <1>8, <1>9, AllPlacedKept DEF DelayInv, Places

(***************************************************************************)
(* The task of a busy worker is nowhere else, and no other worker has it.  *)
(***************************************************************************)
LEMMA BusyAlone ==
  ASSUME DelayInv, NEW w \in DelayWorkers, Busy(w)
  PROVE  LET t0 == running[w]
         IN  /\ t0 \in DelayTasks /\ In("worker", t0) /\ Runs(t0)
             /\ ~SeqHas(enqueue, t0) /\ ~SeqHas(execute, t0) /\ ~SetHas(heap, t0)
             /\ ~SetHas(pushing, t0) /\ ~AtHead(t0)
             /\ \A v \in DelayWorkers : running[v] = t0 => v = w
<1> DEFINE t0 == running[w]
<1>1. t0 \in DelayTasks /\ t0 # NoTask
  BY DEF DelayInv, DelayTypes, Busy
<1>2. In("worker", t0) /\ Runs(t0)
  BY DEF In, Runs
<1>3. \A p \in Places : In(p, t0) => p = "worker"
  BY <1>1, <1>2, OnlyThere DEF DelayInv, Places
<1>4. /\ ~SeqHas(enqueue, t0) /\ ~SeqHas(execute, t0) /\ ~SetHas(heap, t0)
      /\ ~SetHas(pushing, t0) /\ ~AtHead(t0)
  BY <1>1, <1>3, InPlaces DEF Places
<1>5. \A v \in DelayWorkers : running[v] = t0 => v = w
  BY <1>1 DEF DelayInv, PlacesOnce
<1> QED
  BY <1>1, <1>2, <1>4, <1>5

(***************************************************************************)
(* A task is done, and is nowhere any more.                                *)
(***************************************************************************)
LEMMA TaskSucceedsInv ==
  ASSUME DelayInv, NEW w \in DelayWorkers, TaskSucceeds(w)
  PROVE  DelayInv'
<1>0. PICK t0 \in DelayTasks : t0 = running[w]
  BY BusyAlone DEF TaskSucceeds
<1>1. /\ Busy(w) /\ done' = done \cup {t0} /\ running' = [running EXCEPT ![w] = NoTask]
      /\ UNCHANGED <<enqueue, heap, execute, pushing, runPC, head, pushed>>
  BY <1>0 DEF TaskSucceeds
<1>2. /\ t0 \in DelayTasks /\ In("worker", t0) /\ Runs(t0)
      /\ ~SeqHas(enqueue, t0) /\ ~SeqHas(execute, t0) /\ ~SetHas(heap, t0)
      /\ ~SetHas(pushing, t0) /\ ~AtHead(t0)
      /\ \A v \in DelayWorkers : running[v] = t0 => v = w
  BY <1>0, <1>1, BusyAlone
<1>3. NoTask \notin DelayTasks /\ running \in [DelayWorkers -> DelayTasks \cup {NoTask}]
  BY DelayAssumption DEF DelayInv, DelayTypes
<1>4. t0 \in pushed
  BY <1>2 DEF DelayInv, AllPlaced, Placed, Places
<1>5. \A t \in DelayTasks : Runs(t)' <=> Runs(t) /\ t # t0
  BY <1>1, <1>2, <1>3 DEF Runs
<1>6. DelayTypes' /\ HeadOK'
  <2>1. running' \in [DelayWorkers -> DelayTasks \cup {NoTask}]
    BY <1>1, <1>3
  <2>2. done' \in SUBSET pushed
    BY <1>1, <1>4 DEF DelayInv, DelayTypes
  <2> QED
    BY <2>1, <2>2, <1>1 DEF DelayInv, DelayTypes, HeadOK
<1>7. PlacesOnce'
  <2>1. \A u, v \in DelayWorkers : running'[u] = running'[v] /\ running'[u] # NoTask => u = v
    BY <1>1, <1>3 DEF DelayInv, PlacesOnce
  <2> QED
    BY <2>1, <1>1 DEF DelayInv, PlacesOnce
<1>8. ASSUME NEW t \in DelayTasks, t # t0 PROVE Placed(t)'
  <2>1. Stays(t)
    BY <1>1, <1>5, <1>8, InPlaces DEF Stays, Places, AtHead
  <2>2. Placed(t) /\ ((t \in pushed \ done)' <=> t \in pushed \ done)
    BY <1>1, <1>8 DEF DelayInv, AllPlaced
  <2> QED
    BY <2>1, <2>2, PlacedKept
<1>9. Placed(t0)'
  <2>1. \A p \in Places : ~In(p, t0)'
    BY <1>1, <1>2, <1>5, InPlaces DEF Places, AtHead
  <2>2. t0 \in done'
    BY <1>1
  <2> HIDE DEF Places
  <2> QED
    BY <2>1, <2>2 DEF Placed
<1> QED
  BY <1>6, <1>7, <1>8, <1>9 DEF DelayInv, AllPlaced

(***************************************************************************)
(* A failed task is pushed again, with no delay.                           *)
(***************************************************************************)
LEMMA TaskFailsInv ==
  ASSUME DelayInv, NEW w \in DelayWorkers, TaskFails(w)
  PROVE  DelayInv'
<1> DEFINE t0 == running[w]
           x  == [id |-> t0, left |-> 0]
<1>1. /\ Busy(w) /\ SendOrDefault(x)
      /\ running' = [running EXCEPT ![w] = IF CanSend THEN NoTask ELSE t0]
      /\ UNCHANGED <<heap, execute, runPC, head, pushed, done>>
  BY DEF TaskFails
<1>2. /\ t0 \in DelayTasks /\ In("worker", t0) /\ Runs(t0)
      /\ ~SeqHas(enqueue, t0) /\ ~SeqHas(execute, t0) /\ ~SetHas(heap, t0)
      /\ ~SetHas(pushing, t0) /\ ~AtHead(t0)
      /\ \A v \in DelayWorkers : running[v] = t0 => v = w
  BY <1>1, BusyAlone
<1>3. NoTask \notin DelayTasks /\ running \in [DelayWorkers -> DelayTasks \cup {NoTask}]
  BY DelayAssumption DEF DelayInv, DelayTypes
<1>4. x \in DelayedTasks /\ x.id = t0
  BY <1>2, DelayAssumption DEF DelayedTasks
<1>5. /\ enqueue' \in Seq(DelayedTasks) /\ SeqOnce(enqueue')
      /\ pushing' \in SUBSET DelayedTasks /\ SetOnce(pushing')
      /\ \A t : SeqHas(enqueue', t) <=> SeqHas(enqueue, t) \/ (CanSend /\ t = t0)
      /\ \A t : SetHas(pushing', t) <=> SetHas(pushing, t) \/ (~CanSend /\ t = t0)
  <2> HIDE DEF x
  <2> QED
    BY <1>1, <1>2, <1>4, SendPlaces DEF DelayInv
<1>6. \A t \in DelayTasks : Runs(t)' <=> Runs(t) /\ (CanSend => t # t0)
  BY <1>1, <1>2, <1>3 DEF Runs
<1>7. DelayTypes' /\ HeadOK'
  <2>1. running' \in [DelayWorkers -> DelayTasks \cup {NoTask}]
    BY <1>1, <1>2, <1>3
  <2> QED
    BY <2>1, <1>1, <1>5 DEF DelayInv, DelayTypes, HeadOK
<1>8. PlacesOnce'
  <2>1. \A u, v \in DelayWorkers : running'[u] = running'[v] /\ running'[u] # NoTask => u = v
    BY <1>1, <1>3 DEF DelayInv, PlacesOnce
  <2> QED
    BY <2>1, <1>1, <1>5 DEF DelayInv, PlacesOnce
<1> HIDE DEF t0, x
<1>9. ASSUME NEW t \in DelayTasks
      PROVE  \/ Stays(t) \/ Moves("worker", "enqueue", t) \/ Moves("worker", "pushing", t)
  <2>1. CASE t # t0
    BY <2>1, <1>1, <1>5, <1>6, InPlaces DEF Stays, Places, AtHead
  <2>2. CASE t = t0 /\ CanSend
    BY <2>2, <1>1, <1>2, <1>5, <1>6, InPlaces DEF Moves, Places, AtHead
  <2>3. CASE t = t0 /\ ~CanSend
    BY <2>3, <1>1, <1>2, <1>5, <1>6, InPlaces DEF Moves, Places, AtHead
  <2> QED
    BY <2>1, <2>2, <2>3
<1> QED
  BY <1>1, <1>7, <1>8, <1>9, AllPlacedKept DEF DelayInv, Places

(***************************************************************************)
(* Time passes for one task.                                               *)
(***************************************************************************)
LEMMA SoonerTask ==
  ASSUME NEW task \in DelayedTasks
  PROVE  Sooner(task) \in DelayedTasks /\ Sooner(task).id = task.id
BY DelayAssumption DEF Sooner, DelayedTasks

(***************************************************************************)
(* Time passes for the tasks of a set.                                     *)
(***************************************************************************)
LEMMA SoonerSet ==
  ASSUME NEW S \in SUBSET DelayedTasks, SetOnce(S), NEW U, U = {Sooner(task) : task \in S}
  PROVE  U \in SUBSET DelayedTasks /\ SetOnce(U) /\ \A t : SetHas(U, t) <=> SetHas(S, t)
<1>1. \A task \in S : Sooner(task) \in DelayedTasks /\ Sooner(task).id = task.id
  BY SoonerTask
<1>2. SetOnce(U)
  BY <1>1 DEF SetOnce
<1>3. \A t : SetHas(U, t) <=> SetHas(S, t)
  BY <1>1 DEF SetHas
<1> QED
  BY <1>1, <1>2, <1>3

(***************************************************************************)
(* Time passes: no task moves.                                             *)
(***************************************************************************)
LEMMA DelayTickInv ==
  ASSUME DelayInv, DelayTick
  PROVE  DelayInv'
<1>1. /\ heap' = {Sooner(task) : task \in heap} /\ pushing' = {Sooner(task) : task \in pushing}
      /\ enqueue' = [i \in DOMAIN enqueue |-> Sooner(enqueue[i])]
      /\ head' = (IF head = NoTask THEN NoTask ELSE Sooner(head))
      /\ UNCHANGED <<running, done, execute, runPC, pushed>>
  BY DEF DelayTick, workVars
<1>2. /\ heap' \in SUBSET DelayedTasks /\ SetOnce(heap')
      /\ pushing' \in SUBSET DelayedTasks /\ SetOnce(pushing')
      /\ \A t : SetHas(heap', t) <=> SetHas(heap, t)
      /\ \A t : SetHas(pushing', t) <=> SetHas(pushing, t)
  BY <1>1, SoonerSet DEF DelayInv, DelayTypes, PlacesOnce
<1>3. /\ enqueue' \in Seq(DelayedTasks) /\ SeqOnce(enqueue')
      /\ \A t : SeqHas(enqueue', t) <=> SeqHas(enqueue, t)
  <2>1. enqueue \in Seq(DelayedTasks) /\ SeqOnce(enqueue)
    BY DEF DelayInv, DelayTypes, PlacesOnce
  <2>2. \A i \in DOMAIN enqueue : enqueue[i] \in DelayedTasks
    BY <2>1
  <2>3. DOMAIN enqueue' = DOMAIN enqueue /\ \A i \in DOMAIN enqueue : enqueue'[i].id = enqueue[i].id
    BY <1>1, <2>2, SoonerTask
  <2>4. enqueue' \in Seq(DelayedTasks)
    <3>1. enqueue' = [i \in 1..Len(enqueue) |-> Sooner(enqueue[i])] /\ Len(enqueue) \in Nat
      BY <1>1, <2>1
    <3>2. \A i \in 1..Len(enqueue) : Sooner(enqueue[i]) \in DelayedTasks
      BY <2>1, <2>2, SoonerTask
    <3> QED
      BY <3>1, <3>2
  <2> QED
    BY <2>1, <2>3, <2>4 DEF SeqOnce, SeqHas
<1>4. /\ head' \in DelayedTasks \cup {NoTask} /\ (head' = NoTask <=> head = NoTask)
      /\ \A t : AtHead(t)' <=> AtHead(t)
  <2>1. CASE head = NoTask
    BY <2>1, <1>1 DEF AtHead
  <2>2. CASE head # NoTask
    <3>1. head \in DelayedTasks
      BY <2>2 DEF DelayInv, DelayTypes
    <3>2. head' \in DelayedTasks /\ head'.id = head.id /\ head' # NoTask
      BY <3>1, <2>2, <1>1, SoonerTask, DelayAssumption DEF DelayedTasks
    <3> QED
      BY <3>2, <2>2 DEF AtHead
  <2> QED
    BY <2>1, <2>2
<1>5. DelayTypes' /\ HeadOK' /\ PlacesOnce'
  BY <1>1, <1>2, <1>3, <1>4 DEF DelayInv, DelayTypes, HeadOK, PlacesOnce
<1>6. \A t \in DelayTasks : Stays(t)
  BY <1>1, <1>2, <1>3, <1>4, InPlaces DEF Stays, Places, Runs
<1> QED
  BY <1>1, <1>5, <1>6, AllPlacedKept DEF DelayInv

(***************************************************************************)
(* The other steps leave every task where it is.                           *)
(***************************************************************************)
LEMMA StandsStill ==
  ASSUME DelayInv, HeadOK',
         UNCHANGED <<enqueue, execute, heap, pushing, head, running, pushed, done>>
  PROVE  DelayInv'
<1>1. DelayTypes' /\ PlacesOnce'
  BY DEF DelayInv, DelayTypes, PlacesOnce
<1>2. \A t \in DelayTasks : Stays(t)
  BY InPlaces DEF Stays, Places, AtHead, Runs
<1> QED
  BY <1>1, <1>2, AllPlacedKept DEF DelayInv

(***************************************************************************)
(* The queue starts empty.                                                 *)
(***************************************************************************)
LEMMA DelayInitInv == DelayInit => DelayInv
<1> SUFFICES ASSUME DelayInit PROVE DelayInv
  OBVIOUS
<1>1. /\ enqueue = <<>> /\ execute = <<>> /\ heap = {} /\ pushing = {} /\ head = NoTask
      /\ running = [w \in DelayWorkers |-> NoTask] /\ pushed = {} /\ done = {} /\ runPC = "peek"
  BY DEF DelayInit
<1>2. DelayTypes /\ HeadOK
  BY <1>1 DEF DelayTypes, HeadOK
<1>3. PlacesOnce
  BY <1>1 DEF PlacesOnce, SeqOnce, SetOnce
<1>4. \A t \in DelayTasks, p \in Places : ~In(p, t)
  <2>1. \A t : ~SeqHas(<<>>, t) /\ ~SetHas({}, t)
    BY DEF SeqHas, SetHas
  <2> QED
    BY <2>1, <1>1 DEF In, Busy
<1>5. AllPlaced
  BY <1>1, <1>4 DEF AllPlaced, Placed
<1> QED
  BY <1>2, <1>3, <1>5 DEF DelayInv

(***************************************************************************)
(* Every step keeps every task in one place.                               *)
(***************************************************************************)
LEMMA DelayNextInv == DelayInv /\ [DelayNext]_delayVars => DelayInv'
<1> SUFFICES ASSUME DelayInv, [DelayNext]_delayVars PROVE DelayInv'
  OBVIOUS
<1>1. CASE UNCHANGED delayVars
  BY <1>1, StandsStill DEF delayVars, DelayInv, HeadOK
<1>2. ASSUME PeekEmpty PROVE DelayInv'
  BY <1>2, StandsStill DEF PeekEmpty, workVars, DelayInv, HeadOK
<1>3. ASSUME Park \/ TimerFires \/ ReturnOnStop PROVE DelayInv'
  BY <1>3, StandsStill DEF Park, TimerFires, ReturnOnStop, workVars, HeadOK
<1>4. ASSUME NEW w \in DelayWorkers, WorkerReturns(w) PROVE DelayInv'
  BY <1>4, StandsStill DEF WorkerReturns, DelayInv, HeadOK
<1>5. ASSUME CloseDelayStop PROVE DelayInv'
  BY <1>5, StandsStill DEF CloseDelayStop, workVars, DelayInv, HeadOK
<1> QED
  BY <1>1, <1>2, <1>3, <1>4, <1>5, PushDelayedInv, PushToHeapInv, PeekAndPopInv,
     ReceiveEnqueueInv, SendTaskInv, TakeTaskInv, TaskSucceedsInv, TaskFailsInv, DelayTickInv
  DEF DelayNext, RunStep, WorkStep

(***************************************************************************)
(* A set that has at most one element has 0 or 1.                          *)
(***************************************************************************)
LEMMA AtMostOne ==
  ASSUME NEW S, \A a, b \in S : a = b
  PROVE  Cardinality(S) = IF S = {} THEN 0 ELSE 1
<1>1. CASE S = {}
  BY <1>1, FS_EmptySet
<1>2. CASE S # {}
  <2>1. PICK a : a \in S
    BY <1>2
  <2>2. S = {a}
    BY <2>1
  <2>3. Cardinality({a}) = 1
    BY FS_Singleton
  <2> QED
    BY <1>2, <2>2, <2>3
<1> QED
  BY <1>1, <1>2

(***************************************************************************)
(* Every task that was pushed to the delay queue and has not succeeded is  *)
(* in exactly one place, through enqueue or past it, however often it      *)
(* failed (PushDelayed, Run and work), for any number of tasks, workers    *)
(* and failures and any capacities of the channels.                        *)
(***************************************************************************)
THEOREM NoTaskEverLost == DelaySpec => []NoTaskLost
<1>1. DelayInv => NoTaskLost
  <2> SUFFICES ASSUME DelayInv, NEW t \in DelayTasks
               PROVE  InPlace(t) = IF t \in pushed \ done THEN 1 ELSE 0
    BY DEF NoTaskLost
  <2> DEFINE E == {i \in DOMAIN enqueue : enqueue[i].id = t}
             X == {i \in DOMAIN execute : execute[i].id = t}
             H == {task \in heap \cup pushing : task.id = t}
             W == {w \in DelayWorkers : Busy(w) /\ running[w] = t}
             F == IF head # NoTask /\ head.id = t THEN 1 ELSE 0
  <2>1. Placed(t)
    BY DEF DelayInv, AllPlaced
  <2>2. (E # {} <=> In("enqueue", t)) /\ Cardinality(E) = IF E = {} THEN 0 ELSE 1
    <3>1. \A a, b \in E : a = b
      BY DEF DelayInv, PlacesOnce, SeqOnce
    <3>2. E # {} <=> In("enqueue", t)
      BY InPlaces DEF SeqHas
    <3> HIDE DEF E
    <3> QED
      BY <3>1, <3>2, AtMostOne
  <2>3. (X # {} <=> In("execute", t)) /\ Cardinality(X) = IF X = {} THEN 0 ELSE 1
    <3>1. \A a, b \in X : a = b
      BY DEF DelayInv, PlacesOnce, SeqOnce
    <3>2. X # {} <=> In("execute", t)
      BY InPlaces DEF SeqHas
    <3> HIDE DEF X
    <3> QED
      BY <3>1, <3>2, AtMostOne
  <2>4. (H # {} <=> In("heap", t) \/ In("pushing", t)) /\ Cardinality(H) = IF H = {} THEN 0 ELSE 1
    <3>0. ~(In("heap", t) /\ In("pushing", t))
      BY <2>1 DEF Placed, Places
    <3>1. \A a, b \in H : a = b
      BY <3>0, InPlaces DEF DelayInv, PlacesOnce, SetOnce, SetHas
    <3>2. H # {} <=> In("heap", t) \/ In("pushing", t)
      BY InPlaces DEF SetHas
    <3> HIDE DEF H
    <3> QED
      BY <3>1, <3>2, AtMostOne
  <2>5. (W # {} <=> In("worker", t)) /\ Cardinality(W) = IF W = {} THEN 0 ELSE 1
    <3>1. \A a, b \in W : a = b
      BY DEF DelayInv, PlacesOnce, Busy
    <3>2. W # {} <=> In("worker", t)
      BY DEF In
    <3> HIDE DEF W
    <3> QED
      BY <3>1, <3>2, AtMostOne
  <2>6. F = IF In("head", t) THEN 1 ELSE 0
    BY DEF In
  <2>7. InPlace(t) = Cardinality(E) + Cardinality(X) + Cardinality(H) + Cardinality(W) + F
    BY DEF InPlace
  <2> HIDE DEF E, X, H, W, F
  <2>8. /\ t \in pushed \ done <=> \/ In("enqueue", t) \/ In("execute", t) \/ In("heap", t)
                                   \/ In("pushing", t) \/ In("head", t) \/ In("worker", t)
        /\ \A p, q \in Places : p # q => ~(In(p, t) /\ In(q, t))
    BY <2>1 DEF Placed, Places
  <2>9. CASE t \notin pushed \ done
    BY <2>2, <2>3, <2>4, <2>5, <2>6, <2>7, <2>8, <2>9
  <2>10. CASE t \in pushed \ done
    <3>1. /\ In("enqueue", t) => ~In("execute", t) /\ ~In("heap", t) /\ ~In("pushing", t)
                                 /\ ~In("head", t) /\ ~In("worker", t)
          /\ In("execute", t) => ~In("heap", t) /\ ~In("pushing", t) /\ ~In("head", t)
                                 /\ ~In("worker", t)
          /\ In("heap", t) \/ In("pushing", t) => ~In("head", t) /\ ~In("worker", t)
          /\ In("head", t) => ~In("worker", t)
      BY <2>8 DEF Places
    <3> QED
      BY <3>1, <2>2, <2>3, <2>4, <2>5, <2>6, <2>7, <2>8, <2>10
  <2> QED
    BY <2>9, <2>10
<1> QED
  BY DelayInitInv, DelayNextInv, <1>1, PTL DEF DelaySpec
=============================================================================
