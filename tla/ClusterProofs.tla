--------------------------- MODULE ClusterProofs ---------------------------
(***************************************************************************)
(* Proofs about Cluster, for every set of nodes, clients, callers and      *)
(* channels: it implements EventBus, and what one sender sends on one      *)
(* channel reaches a subscriber in order.                                  *)
(*                                                                         *)
(* Both rest on one account of where an event can be: with its sender,     *)
(* with at most one relay of each other node, or in the queue of a client; *)
(* and of when: published only once its sender has cast it at home.        *)
(***************************************************************************)
EXTENDS Cluster, TLAPS

Typed ==
  /\ channels \in [Nodes -> [Channels -> SUBSET Clients]]
  /\ state \in [Subs -> {"free", "asked", "active", "closed"}]
  /\ inbox \in [Subs -> Seq(Events)]
  /\ pc \in [Threads -> {"idle", "check", "cast", "send", "publish"}]
  /\ event \in [Threads -> Events \cup {NoEvent}]
  /\ rcpts \in [Threads -> SUBSET Clients]
  /\ sent \in [Senders -> Nat]
  /\ since \in [Clients -> [Channels -> [Senders -> Nat]]]
  /\ log \in [Clients -> Seq(Events)]

(* Redis has, or will have, the subscription.                              *)
Listening(s) == state[s] \in {"asked", "active"}

(* Subscribers are at their own node, and a channel that has some there    *)
(* has at most one subscription that listens; one that has none, none.     *)
OneSubscription ==
  /\ \A n \in Nodes, k \in Channels : \A c \in channels[n][k] : NodeFor[c] = n
  /\ \A s, r \in Subs :
       s[1] = r[1] /\ s[2] = r[2] /\ Listening(s) /\ Listening(r) => s = r
  /\ \A s \in Subs : Listening(s) => channels[s[1]][s[2]] # {}

(* An event its sender no longer works on.                                 *)
Published(e) == e.nr <= sent[e.by] /\ event[e.by] # e

SenderInv ==
  \A x \in Senders :
    /\ pc[x] = "idle" <=> event[x] = NoEvent
    /\ event[x] # NoEvent => event[x].by = x /\ event[x].nr = sent[x]

Waiting(s) == {inbox[s][i] : i \in 1..Len(inbox[s])}

Holding(s) == Waiting(s) \cup ({event[s]} \ {NoEvent})

(* What a relay holds are published events of its channel, those of one    *)
(* sender in the order of sending; what it casts comes from another node.  *)
RelayInv ==
  \A s \in Subs :
    /\ pc[s] \in {"idle", "cast", "send"}
    /\ pc[s] = "idle" <=> event[s] = NoEvent
    /\ event[s] # NoEvent => NodeFor[event[s].by] # s[1]
    /\ state[s] \in {"free", "asked"} => Holding(s) = {}
    /\ \A e \in Holding(s) : e.on = s[2] /\ Published(e)
    /\ \A i, j \in 1..Len(inbox[s]) :
         i < j /\ inbox[s][i].by = inbox[s][j].by
           => inbox[s][i].nr < inbox[s][j].nr
    /\ event[s] # NoEvent => \A i \in 1..Len(inbox[s]) :
         inbox[s][i].by = event[s].by => event[s].nr < inbox[s][i].nr

(* No two relays of a node hold the same event.                            *)
OneRelay ==
  \A s, r \in Subs : s[1] = r[1] /\ s # r => Holding(s) \cap Holding(r) = {}

(* The recipients BroadcastLocal has copied.                               *)
CopyInv ==
  \A x \in Threads : \A d \in rcpts[x] :
    pc[x] = "send" /\ NodeFor[d] = NodeOf(x) /\ d # ExcludedSocket(event[x])

GivenTo(d) == {log[d][i] : i \in 1..Len(log[d])}

(* A client was given only what was sent, and at another node than the     *)
(* sender's only what was published.                                       *)
GivenInv ==
  \A d \in Clients : \A e \in GivenTo(d) :
    e.nr <= sent[e.by] /\ (NodeFor[e.by] # NodeFor[d] => Published(e))

(* What thread x may still give to client d of its node.                   *)
ToCome(x, d) ==
  {e \in {event[x]} : pc[x] \in {"check", "cast"} \/ d \in rcpts[x]}
    \cup {e \in Events : x \in Subs /\ e \in Waiting(x) /\ NodeFor[e.by] # NodeOf(x)}

(* It has not been given to d yet.                                         *)
Fresh ==
  \A x \in Threads, d \in Clients :
    NodeFor[d] = NodeOf(x) => ToCome(x, d) \cap GivenTo(d) = {}

(* What a relay holds of a closed subscription is older than any           *)
(* subscriber the channel has now.                                         *)
RestIsOld ==
  \A s \in Subs : state[s] = "closed" =>
    \A d \in channels[s[1]][s[2]] : \A e \in Holding(s) :
      e.nr <= since[d][s[2]][e.by]

(* Of what the relay of the other one will give to a subscriber, nothing   *)
(* that was sent since it joined is older than what it was given.          *)
InTurn ==
  \A s \in Subs : Listening(s) =>
    \A d \in channels[s[1]][s[2]] : \A e \in ToCome(s, d) :
      e.nr > since[d][s[2]][e.by] =>
        \A g \in GivenTo(d) : g.by = e.by /\ g.on = e.on => g.nr < e.nr

EventInv ==
  /\ Typed /\ OneSubscription /\ SenderInv /\ RelayInv /\ OneRelay
  /\ CopyInv /\ GivenInv /\ Fresh /\ RestIsOld /\ InTurn

----------------------------------------------------------------------------
(* What the parts of a subscription, a sender and an event are.            *)

(* A subscription is a node and a channel, and a thread beside the         *)
(* senders.                                                                *)
LEMMA SubParts ==
  ASSUME NEW s \in Subs
  PROVE  /\ s[1] \in Nodes /\ s[2] \in Channels
         /\ s \in Threads /\ s \notin Senders
         /\ NodeOf(s) = s[1]
<1>1. s[1] \in Nodes /\ s[2] \in Channels
  BY DEF Subs
<1>2. s \notin Senders
  BY ClusterKinds
<1> QED
  BY <1>1, <1>2 DEF Threads, NodeOf

(* A sender runs at its own node and is no subscription.                   *)
LEMMA SenderParts ==
  ASSUME NEW x \in Senders
  PROVE  /\ x \in Threads /\ x \notin Subs /\ x # Nobody
         /\ NodeOf(x) = NodeFor[x] /\ NodeFor[x] \in Nodes
  BY ClusterKinds DEF Threads, NodeOf

(* A client is a sender.                                                   *)
LEMMA ClientParts ==
  ASSUME NEW c \in Clients
  PROVE  c \in Senders /\ NodeFor[c] \in Nodes
  BY ClusterKinds DEF Senders

(* An event is its sender, its number and its channel.                     *)
LEMMA EventParts ==
  ASSUME NEW e \in Events
  PROVE  /\ e.by \in Senders /\ e.nr \in Nat \ {0} /\ e.on \in Channels
         /\ e = [by |-> e.by, nr |-> e.nr, on |-> e.on]
         /\ e # NoEvent
<1>1. PICK x \in Senders : e \in [by : {x}, nr : 1..MaxEvents[x], on : Channels]
  BY DEF Events
<1>2. e.by = x /\ e.nr \in 1..MaxEvents[x] /\ e.on \in Channels
      /\ e = [by |-> e.by, nr |-> e.nr, on |-> e.on]
  BY <1>1
<1>3. MaxEvents[x] \in Nat
  BY ClusterBounds
<1>4. e # NoEvent
  BY <1>2, SenderParts DEF NoEvent
<1> QED
  BY <1>2, <1>3, <1>4

(* The event a sender begins to send next.                                 *)
LEMMA NextIsEvent ==
  ASSUME NEW x \in Senders, NEW k \in Channels, sent[x] \in Nat, sent[x] < MaxEvents[x]
  PROVE  [by |-> x, nr |-> sent[x] + 1, on |-> k] \in Events
<1>1. sent[x] + 1 \in 1..MaxEvents[x]
  BY ClusterBounds
<1>2. [by |-> x, nr |-> sent[x] + 1, on |-> k]
        \in [by : {x}, nr : 1..MaxEvents[x], on : Channels]
  BY <1>1
<1> QED
  BY <1>2 DEF Events

(* A table of tables with one entry changed.                               *)
LEMMA OneEntry ==
  ASSUME NEW A, NEW B, NEW V, NEW f \in [A -> [B -> V]], NEW a \in A, NEW b \in B, NEW v \in V
  PROVE  /\ [f EXCEPT ![a][b] = v] \in [A -> [B -> V]]
         /\ \A i \in A, j \in B :
              [f EXCEPT ![a][b] = v][i][j] = IF i = a /\ j = b THEN v ELSE f[i][j]
  OBVIOUS

(* Two events of the same sender, number and channel are the same.         *)
LEMMA SameEvent ==
  ASSUME NEW e \in Events, NEW f \in Events, e.by = f.by, e.nr = f.nr, e.on = f.on
  PROVE  e = f
  BY EventParts

(* What Append does to the members and the places of a sequence.           *)
LEMMA Appended ==
  ASSUME NEW S, NEW q \in Seq(S), NEW e \in S
  PROVE  /\ Append(q, e) \in Seq(S) /\ Len(Append(q, e)) = Len(q) + 1
         /\ Len(q) \in Nat
         /\ \A i \in 1..Len(q) : Append(q, e)[i] = q[i]
         /\ Append(q, e)[Len(q) + 1] = e
         /\ {Append(q, e)[i] : i \in 1..Len(Append(q, e))} = {q[i] : i \in 1..Len(q)} \cup {e}
<1>1. /\ Append(q, e) \in Seq(S) /\ Len(Append(q, e)) = Len(q) + 1
      /\ Len(q) \in Nat
      /\ \A i \in 1..Len(q) : Append(q, e)[i] = q[i]
      /\ Append(q, e)[Len(q) + 1] = e
  OBVIOUS
<1>2. \A n \in Nat : 1..(n + 1) = 1..n \cup {n + 1}
  OBVIOUS
<1>3. 1..Len(Append(q, e)) = 1..Len(q) \cup {Len(q) + 1}
  BY ONLY <1>1, <1>2
<1> QED
  BY <1>1, <1>3

(* The first of a queue and the rest of it.                                *)
LEMMA HeadAndTail ==
  ASSUME NEW S, NEW q \in Seq(S), q # <<>>
  PROVE  /\ Head(q) \in S /\ Head(q) = q[1] /\ 1 \in 1..Len(q)
         /\ Tail(q) \in Seq(S) /\ Len(Tail(q)) + 1 = Len(q)
         /\ Len(Tail(q)) \in Nat
         /\ \A i \in 1..Len(Tail(q)) : i + 1 \in 1..Len(q) /\ Tail(q)[i] = q[i + 1]
  OBVIOUS

(* A prefix is a sequence of the same elements in the same places.         *)
LEMMA PrefixParts ==
  ASSUME NEW S, NEW q \in Seq(S), NEW p \in Prefixes(q)
  PROVE  /\ p \in Seq(S) /\ Len(p) \in Nat /\ Len(p) <= Len(q)
         /\ \A i \in 1..Len(p) : i \in 1..Len(q) /\ p[i] = q[i]
<1>1. PICK l \in 0..Len(q) : p = SubSeq(q, 1, l)
  BY DEF Prefixes
<1>2. l \in Nat /\ l <= Len(q) /\ Len(q) \in Nat
  OBVIOUS
<1>3. Len(p) = l /\ p \in Seq(S) /\ \A i \in 1..l : p[i] = q[i]
  BY <1>1, <1>2
<1> QED
  BY <1>2, <1>3

----------------------------------------------------------------------------
(* Initially nothing was sent and nobody is subscribed.                    *)
LEMMA InitEvents == Init => EventInv
<1> SUFFICES ASSUME Init PROVE EventInv
  OBVIOUS
<1> USE DEF Init
<1>1. Typed
  BY DEF Typed
<1>2. OneSubscription
  BY SubParts DEF OneSubscription, Listening
<1>3. SenderInv
  BY SenderParts DEF SenderInv
<1>4. \A s \in Subs : Waiting(s) = {} /\ Holding(s) = {}
  BY SubParts DEF Waiting, Holding
<1>5. RelayInv
  BY <1>4, SubParts DEF RelayInv
<1>6. OneRelay
  BY <1>4 DEF OneRelay
<1>7. CopyInv
  BY DEF CopyInv
<1>8. \A d \in Clients : GivenTo(d) = {}
  BY DEF GivenTo
<1> QED
  BY <1>1, <1>2, <1>3, <1>5, <1>6, <1>7, <1>8
  DEF EventInv, GivenInv, Fresh, RestIsOld, InTurn, Listening

(* The last subscriber leaves, and s is the subscription this closes.      *)
LastLeaves(c, k, s) ==
  channels[NodeFor[c]][k] = {c} /\ s[1] = NodeFor[c] /\ s[2] = k /\ Listening(s)

(* What Leave does to the subscriptions: only the one the node had for the *)
(* channel can be closed, and then its inbox is cut short.                 *)
LEMMA LeaveParts ==
  ASSUME Typed, OneSubscription, NEW c \in Clients, NEW k \in Channels, Leave(c, k)
  PROVE  /\ c \in channels[NodeFor[c]][k]
         /\ channels' = [channels EXCEPT ![NodeFor[c]][k] = @ \ {c}]
         /\ \A s \in Subs : LastLeaves(c, k, s) => state'[s] = "closed"
         /\ \A s \in Subs : ~LastLeaves(c, k, s) => state'[s] = state[s]
         /\ state' \in [Subs -> {"free", "asked", "active", "closed"}]
         /\ \A s \in Subs : inbox'[s] \in Prefixes(inbox[s])
         /\ inbox' \in [Subs -> Seq(Events)]
         /\ UNCHANGED <<up, pc, event, rcpts, sent, joins, since, log>>
<1> DEFINE n == NodeFor[c]
           closed == IF channels[n][k] = {c} THEN Current(n, k) ELSE {}
<1>1. Leaving(c, k, closed)
  BY DEF Leave
<1>2. \A s \in Subs : s \in closed <=> /\ channels[n][k] = {c}
                                       /\ s[1] = n /\ s[2] = k /\ Listening(s)
  BY DEF Current, Listening
<1>3. closed \subseteq Subs /\ \A s, r \in closed : s = r
  BY <1>2 DEF OneSubscription, Current
<1> HIDE DEF closed
<1>4. PICK kept \in (UNION {Prefixes(inbox[s]) : s \in closed}) \cup {<<>>} :
        inbox' = [s \in Subs |-> IF s \in closed THEN kept ELSE inbox[s]]
  BY <1>1 DEF Leaving
<1>5. \A q \in Seq(Events) : q \in Prefixes(q) /\ <<>> \in Prefixes(q)
  <2> TAKE q \in Seq(Events)
  <2>1. SubSeq(q, 1, 0) = <<>> /\ SubSeq(q, 1, Len(q)) = q /\ Len(q) \in Nat
    OBVIOUS
  <2>2. \A l \in 0..Len(q) : SubSeq(q, 1, l) \in Prefixes(q)
    BY DEF Prefixes
  <2>3. 0 \in 0..Len(q) /\ Len(q) \in 0..Len(q)
    BY <2>1
  <2> QED
    BY ONLY <2>1, <2>2, <2>3
<1>6. \A s \in Subs : inbox'[s] \in Prefixes(inbox[s])
  <2> TAKE s \in Subs
  <2>1. CASE s \notin closed
    BY <2>1, <1>4, <1>5 DEF Typed
  <2>2. CASE s \in closed
    <3>1. inbox'[s] = kept /\ inbox[s] \in Seq(Events)
      BY <2>2, <1>4 DEF Typed
    <3>2. CASE kept = <<>>
      BY <3>1, <3>2, <1>5
    <3>3. CASE kept # <<>>
      <4>1. PICK r \in closed : kept \in Prefixes(inbox[r])
        BY <1>4, <3>3
      <4> QED
        BY <2>2, <3>1, <4>1, <1>3
    <3> QED
      BY <3>2, <3>3
  <2> QED
    BY <2>1, <2>2
<1>7. \A s \in Subs : inbox'[s] \in Seq(Events)
  BY <1>6, PrefixParts DEF Typed
<1>8. inbox' \in [Subs -> Seq(Events)]
  BY <1>4, <1>7
<1> QED
  BY <1>1, <1>2, <1>6, <1>8 DEF Leaving, Typed, LastLeaves

(* Every step keeps the types.                                             *)
LEMMA TypedStep ==
  ASSUME Typed, OneSubscription, SenderInv, RelayInv, Next
  PROVE  Typed'
<1> USE DEF Goto
<1>1. ASSUME NEW c \in Clients, NEW k \in Channels, Join(c, k) PROVE Typed'
  <2>1. NodeFor[c] \in Nodes
    BY ClientParts
  <2>2. since' \in [Clients -> [Channels -> [Senders -> Nat]]]
    <3>1. since' = since \/ since' = [since EXCEPT ![c][k] = sent]
      BY <1>1 DEF Join
    <3>2. /\ c \in Clients /\ k \in Channels /\ sent \in [Senders -> Nat]
          /\ since \in [Clients -> [Channels -> [Senders -> Nat]]]
      BY DEF Typed
    <3>3. [since EXCEPT ![c][k] = sent] \in [Clients -> [Channels -> [Senders -> Nat]]]
      BY ONLY <3>2, OneEntry
    <3> QED
      BY <3>1, <3>2, <3>3
  <2>3. state' \in [Subs -> {"free", "asked", "active", "closed"}]
    BY <1>1 DEF Join, Typed
  <2>4. channels' \in [Nodes -> [Channels -> SUBSET Clients]]
    BY <1>1, <2>1 DEF Join, Typed
  <2> QED
    BY <1>1, <2>2, <2>3, <2>4 DEF Join, Typed
<1>2. ASSUME NEW s \in Subs, Confirm(s) PROVE Typed'
  BY <1>2 DEF Confirm, Typed
<1>3. ASSUME NEW c \in Clients, NEW k \in Channels, Leave(c, k) PROVE Typed'
  <2>1. channels' \in [Nodes -> [Channels -> SUBSET Clients]]
    <3>1. NodeFor[c] \in Nodes /\ channels[NodeFor[c]][k] \ {c} \in SUBSET Clients
      BY ClientParts DEF Typed
    <3>2. channels' = [channels EXCEPT ![NodeFor[c]][k] = channels[NodeFor[c]][k] \ {c}]
      BY <1>3, LeaveParts
    <3> HIDE DEF Leave
    <3> QED
      BY <3>1, <3>2, OneEntry DEF Typed
  <2> QED
    BY <1>3, <2>1, LeaveParts DEF Typed
<1>4. ASSUME NEW x \in Senders, NEW k \in Channels, NEW label \in {"check", "cast"},
             Begin(x, k, label)
      PROVE  Typed'
  <2>1. [by |-> x, nr |-> sent[x] + 1, on |-> k] \in Events
    BY <1>4, NextIsEvent DEF Begin, Typed
  <2>2. x \in Threads
    BY SenderParts
  <2> QED
    BY <1>4, <2>1, <2>2 DEF Begin, Typed
<1>5. ASSUME NEW c \in Clients, AcceptClientEvent(c) \/ RefuseClientEvent(c) PROVE Typed'
  BY <1>5, ClientParts, SenderParts DEF AcceptClientEvent, RefuseClientEvent, Typed
<1>6. ASSUME NEW x \in Threads, Cast(x) PROVE Typed'
  <2>1. NodeOf(x) \in Nodes
    BY SubParts, SenderParts DEF Threads
  <2>2. event[x].on \in Channels
    BY <1>6, EventParts, SenderParts, SubParts DEF Cast, Typed, SenderInv, RelayInv, Threads
  <2>3. Audience(NodeOf(x), event[x].on) \subseteq Clients
    BY <2>1, <2>2 DEF Audience, Typed
  <2>4. Recipients(NodeOf(x), event[x]) \subseteq Clients
    BY <2>3 DEF Recipients
  <2> QED
    BY <1>6, <2>4 DEF Cast, Typed
<1>7. ASSUME NEW x \in Threads, Enqueue(x) PROVE Typed'
  <2>1. PICK d \in rcpts[x] :
          /\ rcpts' = [rcpts EXCEPT ![x] = @ \ {d}]
          /\ log' = [log EXCEPT ![d] = Append(@, event[x])] \/ log' = log
    BY <1>7 DEF Enqueue
  <2>2. d \in Clients
    BY DEF Typed
  <2>3. event[x] \in Events
    BY <1>7 DEF Enqueue, Typed, SenderInv, RelayInv, Threads
  <2>4. log' \in [Clients -> Seq(Events)]
    <3>1. Append(log[d], event[x]) \in Seq(Events)
      BY <2>2, <2>3, Appended DEF Typed
    <3> QED
      BY <2>1, <2>2, <3>1 DEF Typed
  <2> QED
    BY <1>7, <2>1, <2>4 DEF Enqueue, Typed
<1>8. ASSUME NEW x \in Senders, SenderCastDone(x) PROVE Typed'
  BY <1>8, SenderParts DEF SenderCastDone, Typed
<1>9. ASSUME NEW x \in Senders, Publish(x) PROVE Typed'
  <2>1. event[x] \in Events
    BY <1>9, SenderParts DEF Publish, SenderInv, Typed
  <2>2. inbox' \in [Subs -> Seq(Events)]
    <3>1. PICK reached : inbox' = [s \in Subs |-> IF s \in reached THEN Append(inbox[s], event[x])
                                                                  ELSE inbox[s]]
      BY <1>9 DEF Publish
    <3>2. \A s \in Subs : inbox[s] \in Seq(Events) /\ Append(inbox[s], event[x]) \in Seq(Events)
      BY <2>1, Appended DEF Typed
    <3> QED
      BY <3>1, <3>2
  <2> QED
    BY <1>9, <2>1, <2>2, SenderParts DEF Publish, Typed
<1>10. ASSUME NEW s \in Subs, RelaySkip(s) \/ RelayTake(s) PROVE Typed'
  <2>1. Head(inbox[s]) \in Events /\ Tail(inbox[s]) \in Seq(Events)
    BY <1>10, HeadAndTail DEF RelaySkip, RelayTake, Typed
  <2>2. CASE RelaySkip(s)
    BY <2>1, <2>2 DEF RelaySkip, Typed
  <2>3. CASE RelayTake(s)
    BY <2>1, <2>3, SubParts DEF RelayTake, Typed
  <2> QED
    BY <1>10, <2>2, <2>3
<1>11. ASSUME NEW s \in Subs, RelayCastDone(s) PROVE Typed'
  BY <1>11, SubParts DEF RelayCastDone, Typed
<1>12. ASSUME NEW n \in Nodes, Crash(n) PROVE Typed'
  <2>1. inbox' \in [Subs -> Seq(Events)]
    BY <1>12 DEF Crash, Typed
  <2> QED
    BY <1>12, <2>1 DEF Crash, Typed
<1> QED
  BY <1>1, <1>2, <1>3, <1>4, <1>5, <1>6, <1>7, <1>8, <1>9, <1>10, <1>11, <1>12
  DEF Next, ClientEvent, TriggerEvent, SenderStep, RelayStep, Threads, Senders

(* Every step keeps a node's listening subscriptions one per channel that  *)
(* has subscribers.                                                        *)
LEMMA OneSubscriptionStep ==
  ASSUME Typed, OneSubscription, Next
  PROVE  OneSubscription'
<1> USE DEF OneSubscription, Listening
<1>1. ASSUME NEW c \in Clients, NEW k \in Channels, Join(c, k) PROVE OneSubscription'
  <2> DEFINE n == NodeFor[c]
  <2>1. n \in Nodes
    BY ClientParts
  <2>2. channels' = [channels EXCEPT ![n][k] = @ \cup {c}]
    BY <1>1 DEF Join
  <2>3. \A m \in Nodes, l \in Channels :
          channels'[m][l] = channels[m][l] \cup (IF m = n /\ l = k THEN {c} ELSE {})
    BY <2>1, <2>2 DEF Typed
  <2>4. CASE channels[n][k] = {}
    <3>1. PICK s \in Subs : s[1] = n /\ s[2] = k /\ state' = [state EXCEPT ![s] = "asked"]
      BY <1>1, <2>4 DEF Join, NewSub
    <3>2. \A r \in Subs : r[1] = n /\ r[2] = k => ~ Listening(r)
      BY <2>4
    <3>3. \A r \in Subs : state'[r] = IF r = s THEN "asked" ELSE state[r]
      BY <3>1 DEF Typed
    <3> QED
      BY <2>3, <3>1, <3>2, <3>3, SubParts
  <2>5. CASE channels[n][k] # {}
    <3>1. state' = state
      BY <1>1, <2>5 DEF Join
    <3> QED
      BY <2>3, <3>1, SubParts
  <2> QED
    BY <2>4, <2>5
<1>2. ASSUME NEW s \in Subs, Confirm(s) PROVE OneSubscription'
  <2>1. \A r \in Subs : Listening(r)' <=> Listening(r)
    BY <1>2 DEF Confirm, Typed
  <2> QED
    BY <1>2, <2>1 DEF Confirm
<1>3. ASSUME NEW c \in Clients, NEW k \in Channels, Leave(c, k) PROVE OneSubscription'
  <2> DEFINE n == NodeFor[c]
  <2>1. n \in Nodes
    BY ClientParts
  <2>2. \A m \in Nodes, l \in Channels :
          channels'[m][l] = channels[m][l] \ (IF m = n /\ l = k THEN {c} ELSE {})
    <3>1. channels' = [channels EXCEPT ![n][k] = channels[n][k] \ {c}]
      BY <1>3, LeaveParts
    <3> QED
      BY <2>1, <3>1 DEF Typed
  <2>3. \A s \in Subs : Listening(s)' =>
          Listening(s) /\ ~(channels[n][k] = {c} /\ s[1] = n /\ s[2] = k)
    <3> TAKE s \in Subs
    <3>1. IF LastLeaves(c, k, s) THEN state'[s] = "closed" ELSE state'[s] = state[s]
      <4> HIDE DEF OneSubscription, Listening
      <4> QED
        BY <1>3, LeaveParts
    <3> QED
      BY <3>1 DEF LastLeaves
  <2> QED
    BY <2>2, <2>3, SubParts
<1>4. ASSUME NEW n \in Nodes, Crash(n) PROVE OneSubscription'
  <2>1. \A m \in Nodes, l \in Channels :
          channels'[m][l] = IF m = n THEN {} ELSE channels[m][l]
    BY <1>4 DEF Crash, Typed
  <2>2. \A s \in Subs : Listening(s)' => Listening(s) /\ s[1] # n
    BY <1>4 DEF Crash
  <2> QED
    BY <2>1, <2>2, SubParts
<1>5. ASSUME UNCHANGED <<channels, state>> PROVE OneSubscription'
  BY <1>5
<1> QED
  BY <1>1, <1>2, <1>3, <1>4, <1>5
  DEF Next, ClientEvent, TriggerEvent, Begin, SenderStep, RelayStep, AcceptClientEvent,
      RefuseClientEvent, Cast, Enqueue, SenderCastDone, Publish, RelaySkip, RelayTake,
      RelayCastDone

----------------------------------------------------------------------------
(* What a relay may still give is what it holds.                           *)
LEMMA ToComeIsHeld ==
  ASSUME Typed, RelayInv, CopyInv, NEW s \in Subs, NEW d \in Clients
  PROVE  ToCome(s, d) \subseteq Holding(s)
<1>1. pc[s] \in {"check", "cast"} \/ d \in rcpts[s] => event[s] # NoEvent
  BY SubParts DEF RelayInv, CopyInv
<1> QED
  BY <1>1 DEF ToCome, Holding

(* What is held is events.                                                 *)
LEMMA HeldAreEvents ==
  ASSUME Typed, NEW s \in Subs
  PROVE  Waiting(s) \subseteq Events /\ Holding(s) \subseteq Events
<1>1. \A i \in 1..Len(inbox[s]) : inbox[s][i] \in Events
  BY DEF Typed
<1>2. event[s] \in Events \cup {NoEvent}
  BY SubParts DEF Typed
<1> QED
  BY <1>1, <1>2 DEF Waiting, Holding

(* A client's log holds events.                                            *)
LEMMA GivenAreEvents ==
  ASSUME Typed, NEW d \in Clients
  PROVE  GivenTo(d) \subseteq Events
<1>1. \A i \in 1..Len(log[d]) : log[d][i] \in Events
  BY DEF Typed
<1> QED
  BY <1>1 DEF GivenTo

(* A step that sends nothing and gives nothing: what is held and to come   *)
(* can only get less.                                                      *)
Receding ==
  /\ sent' = sent /\ log' = log
  /\ \A x \in Senders : event'[x] \in {event[x], NoEvent}
  /\ \A s \in Subs : Holding(s)' \subseteq Holding(s)
  /\ \A x \in Threads, d \in Clients : ToCome(x, d)' \subseteq ToCome(x, d)

(* Where nobody is given anything and nothing more is to come, no event is *)
(* to come twice.                                                          *)
LEMMA RecedingKeepsEvents ==
  ASSUME Typed, OneRelay, GivenInv, Fresh, Receding
  PROVE  OneRelay' /\ GivenInv' /\ Fresh'
<1>1. \A d \in Clients : GivenTo(d)' = GivenTo(d)
  BY DEF Receding, GivenTo
<1>2. OneRelay'
  BY DEF Receding, OneRelay
<1>3. Fresh'
  BY <1>1 DEF Receding, Fresh
<1>4. ASSUME NEW d \in Clients, NEW e \in GivenTo(d)
      PROVE  e.nr <= sent[e.by] /\ (NodeFor[e.by] # NodeFor[d] => Published(e)')
  <2>1. e.by \in Senders /\ e # NoEvent
    BY <1>4, GivenAreEvents, EventParts
  <2> QED
    BY <1>4, <2>1 DEF Receding, GivenInv, Published
<1>5. GivenInv'
  BY <1>1, <1>4 DEF GivenInv, Receding
<1> QED
  BY <1>2, <1>3, <1>5

(* And the order of what is to come stays as it was.                       *)
LEMMA RecedingKeepsOrder ==
  ASSUME Typed, RestIsOld, InTurn, Receding, UNCHANGED <<channels, state, since>>
  PROVE  RestIsOld' /\ InTurn'
<1>1. \A d \in Clients : GivenTo(d)' = GivenTo(d)
  BY DEF Receding, GivenTo
<1>2. \A s \in Subs : Listening(s)' = Listening(s)
  BY DEF Listening
<1>3. RestIsOld'
  BY DEF RestIsOld, Receding
<1>4. ASSUME NEW s \in Subs, Listening(s), NEW d \in channels[s[1]][s[2]]
      PROVE  ToCome(s, d)' \subseteq ToCome(s, d)
  <2>1. s \in Threads /\ d \in Clients
    BY SubParts DEF Typed
  <2> QED
    BY <2>1 DEF Receding
<1>5. ASSUME NEW s \in Subs, Listening(s), NEW d \in channels[s[1]][s[2]], NEW e \in ToCome(s, d)',
             e.nr > since[d][s[2]][e.by]
      PROVE  \A g \in GivenTo(d)' : g.by = e.by /\ g.on = e.on => g.nr < e.nr
  <2>1. d \in Clients
    BY SubParts DEF Typed
  <2>2. e \in ToCome(s, d)
    BY <1>4, <1>5
  <2> QED
    BY <1>1, <1>5, <2>1, <2>2 DEF InTurn
<1>6. InTurn'
  BY <1>2, <1>5 DEF InTurn
<1> QED
  BY <1>3, <1>6

(* A step that at most takes events away from the inboxes, as closing a    *)
(* subscription, a crash and an event of the own node do.                  *)
Shrunk(s) ==
  \E o \in Nat :
    /\ Len(inbox'[s]) + o <= Len(inbox[s])
    /\ \A i \in 1..Len(inbox'[s]) : inbox'[s][i] = inbox[s][i + o]

Quiet ==
  /\ UNCHANGED <<pc, event, rcpts, sent, log>>
  /\ \A s \in Subs : Shrunk(s)
  /\ \A s \in Subs : state'[s] \in {"free", "asked"} => Holding(s) = {}

(* A step of subscribers and brokers only, which gives and sends nothing,  *)
(* leaves less to come.                                                    *)
LEMMA QuietKeepsEvents ==
  ASSUME Typed, Typed', SenderInv, RelayInv, CopyInv, Quiet
  PROVE  SenderInv' /\ RelayInv' /\ CopyInv' /\ Receding
<1>1. SenderInv' /\ CopyInv'
  BY DEF Quiet, SenderInv, CopyInv
<1>2. \A s \in Subs : Waiting(s)' \subseteq Waiting(s)
  <2> TAKE s \in Subs
  <2>1. PICK o \in Nat :
          /\ Len(inbox'[s]) + o <= Len(inbox[s])
          /\ \A i \in 1..Len(inbox'[s]) : inbox'[s][i] = inbox[s][i + o]
    BY DEF Quiet, Shrunk
  <2>2. Len(inbox'[s]) \in Nat /\ Len(inbox[s]) \in Nat
    BY DEF Typed
  <2>3. \A i \in 1..Len(inbox'[s]) : i + o \in 1..Len(inbox[s])
    BY <2>1, <2>2
  <2> QED
    BY <2>1, <2>3 DEF Waiting
<1>3. \A s \in Subs : Holding(s)' \subseteq Holding(s)
  BY <1>2 DEF Quiet, Holding
<1>4. Receding
  BY <1>2, <1>3 DEF Quiet, Receding, ToCome
<1>5. ASSUME NEW s \in Subs
      PROVE  /\ \A i, j \in 1..Len(inbox'[s]) :
                  i < j /\ inbox'[s][i].by = inbox'[s][j].by
                    => inbox'[s][i].nr < inbox'[s][j].nr
             /\ event[s] # NoEvent => \A i \in 1..Len(inbox'[s]) :
                  inbox'[s][i].by = event[s].by => event[s].nr < inbox'[s][i].nr
  <2>1. PICK o \in Nat :
          /\ Len(inbox'[s]) + o <= Len(inbox[s])
          /\ \A i \in 1..Len(inbox'[s]) : inbox'[s][i] = inbox[s][i + o]
    BY DEF Quiet, Shrunk
  <2>2. Len(inbox'[s]) \in Nat /\ Len(inbox[s]) \in Nat
    BY DEF Typed
  <2>3. \A i \in 1..Len(inbox'[s]) : i + o \in 1..Len(inbox[s])
    BY <2>1, <2>2
  <2>4. \A i, j \in 1..Len(inbox'[s]) : i < j => i + o < j + o
    BY <2>2
  <2>5. \A i, j \in 1..Len(inbox[s]) :
          i < j /\ inbox[s][i].by = inbox[s][j].by => inbox[s][i].nr < inbox[s][j].nr
    BY DEF RelayInv
  <2>6. event[s] # NoEvent => \A i \in 1..Len(inbox[s]) :
          inbox[s][i].by = event[s].by => event[s].nr < inbox[s][i].nr
    BY DEF RelayInv
  <2>7. \A i, j \in 1..Len(inbox'[s]) :
          i < j /\ inbox'[s][i].by = inbox'[s][j].by => inbox'[s][i].nr < inbox'[s][j].nr
    <3> TAKE i, j \in 1..Len(inbox'[s])
    <3>1. i + o \in 1..Len(inbox[s]) /\ j + o \in 1..Len(inbox[s])
      BY <2>3
    <3> QED
      BY <2>1, <2>4, <2>5, <3>1
  <2>8. event[s] # NoEvent => \A i \in 1..Len(inbox'[s]) :
          inbox'[s][i].by = event[s].by => event[s].nr < inbox'[s][i].nr
    BY <2>1, <2>3, <2>6
  <2> QED
    BY <2>7, <2>8
<1>6. RelayInv'
  <2> SUFFICES ASSUME NEW s \in Subs
               PROVE  /\ state'[s] \in {"free", "asked"} => Holding(s)' = {}
                      /\ \A e \in Holding(s)' : e.on = s[2] /\ Published(e)'
    BY <1>5 DEF RelayInv, Quiet
  <2>1. state'[s] \in {"free", "asked"} => Holding(s)' = {}
    BY <1>3 DEF Quiet
  <2>2. \A e \in Holding(s)' : e.on = s[2] /\ Published(e)'
    BY <1>3 DEF Quiet, RelayInv, Published
  <2> QED
    BY <2>1, <2>2
<1> QED
  BY <1>1, <1>4, <1>6

(* An inbox cut short has shrunk, and so has one that lost its first.      *)
LEMMA PrefixIsShrunk ==
  ASSUME Typed, NEW s \in Subs, inbox'[s] \in Prefixes(inbox[s])
  PROVE  Shrunk(s)
<1>1. /\ Len(inbox'[s]) \in Nat /\ Len(inbox'[s]) <= Len(inbox[s])
      /\ \A i \in 1..Len(inbox'[s]) : inbox'[s][i] = inbox[s][i]
  BY PrefixParts DEF Typed
<1>2. /\ Len(inbox'[s]) + 0 <= Len(inbox[s])
      /\ \A i \in 1..Len(inbox'[s]) : inbox'[s][i] = inbox[s][i + 0]
  BY <1>1
<1> QED
  BY <1>2 DEF Shrunk

(* The queue after its first event was taken.                              *)
LEMMA TailIsShrunk ==
  ASSUME Typed, NEW s \in Subs, inbox[s] # <<>>, inbox'[s] = Tail(inbox[s])
  PROVE  Shrunk(s)
<1>1. /\ Len(inbox'[s]) + 1 <= Len(inbox[s])
      /\ \A i \in 1..Len(inbox'[s]) : inbox'[s][i] = inbox[s][i + 1]
  BY HeadAndTail DEF Typed
<1> QED
  BY <1>1 DEF Shrunk

(* The queue of a subscription that was lost or opened anew.               *)
LEMMA EmptyIsShrunk ==
  ASSUME Typed, NEW s \in Subs, inbox'[s] = <<>>
  PROVE  Shrunk(s)
<1>1. /\ Len(inbox'[s]) + 0 <= Len(inbox[s])
      /\ \A i \in 1..Len(inbox'[s]) : inbox'[s][i] = inbox[s][i + 0]
  BY DEF Typed
<1> QED
  BY <1>1 DEF Shrunk

(* A queue left alone.                                                     *)
LEMMA SameIsShrunk ==
  ASSUME Typed, NEW s \in Subs, inbox'[s] = inbox[s]
  PROVE  Shrunk(s)
<1>1. Len(inbox[s]) \in Nat
  BY DEF Typed
<1>2. /\ Len(inbox'[s]) + 0 <= Len(inbox[s])
      /\ \A i \in 1..Len(inbox'[s]) : inbox'[s][i] = inbox[s][i + 0]
  BY <1>1
<1> QED
  BY <1>2 DEF Shrunk

----------------------------------------------------------------------------
(* The steps of subscribers, brokers and nodes.                            *)

(* A quiet step keeps the invariant once the two parts about subscribers   *)
(* are shown.                                                              *)
LEMMA QuietStep ==
  ASSUME EventInv, Typed', OneSubscription', Quiet, RestIsOld', InTurn'
  PROVE  EventInv'
  BY QuietKeepsEvents, RecedingKeepsEvents DEF EventInv

(* hub.go:167-182, 425-452: who joins counts from what was sent so far, so *)
(* nothing is owed to it.                                                  *)
LEMMA JoinKeeps ==
  ASSUME EventInv, Typed', OneSubscription', NEW c \in Clients, NEW k \in Channels, Join(c, k)
  PROVE  EventInv'
<1> DEFINE n == NodeFor[c]
<1> USE DEF EventInv
<1>1. n \in Nodes
  BY ClientParts
<1>2. /\ UNCHANGED <<inbox, pc, event, rcpts, sent, log>>
      /\ channels' = [channels EXCEPT ![n][k] = @ \cup {c}]
  BY DEF Join
<1>3. \A s \in Subs : state'[s] = state[s] \/ (state[s] = "free" /\ state'[s] = "asked")
  <2>1. state' = state \/ \E s \in NewSub(n, k) : state' = [state EXCEPT ![s] = "asked"]
    BY DEF Join
  <2>2. \A s \in NewSub(n, k) : state[s] = "free"
    BY DEF NewSub
  <2>3. state \in [Subs -> {"free", "asked", "active", "closed"}]
    BY DEF Typed
  <2> QED
    BY <2>1, <2>2, <2>3
<1>4. Quiet
  <2>1. \A s \in Subs : Shrunk(s)
    BY <1>2, SameIsShrunk
  <2>2. \A s \in Subs : state'[s] \in {"free", "asked"} => Holding(s) = {}
    BY <1>3 DEF RelayInv
  <2> QED
    BY <1>2, <2>1, <2>2 DEF Quiet
<1>5. \A m \in Nodes, l \in Channels :
        channels'[m][l] = IF m = n /\ l = k THEN channels[m][l] \cup {c} ELSE channels[m][l]
  BY <1>1, <1>2 DEF Typed
<1>6. \A d \in Clients, l \in Channels, x \in Senders :
        \/ since'[d][l][x] = since[d][l][x]
        \/ d = c /\ l = k /\ since'[d][l][x] = sent[x]
  <2>1. since' = since \/ since' = [since EXCEPT ![c][k] = sent]
    BY DEF Join
  <2>2. since \in [Clients -> [Channels -> [Senders -> Nat]]]
    BY DEF Typed
  <2> QED
    BY <2>1, <2>2
<1>7. c \notin channels[n][k] => \A x \in Senders : since'[c][k][x] = sent[x]
  BY DEF Join, Typed
<1>8. \A s \in Subs : \A e \in Holding(s) :
        e \in Events /\ e.nr <= sent[e.by] /\ e.by \in Senders
  BY HeldAreEvents, EventParts DEF RelayInv, Published
<1>9. \A s \in Subs : Holding(s)' = Holding(s)
  BY <1>2 DEF Holding, Waiting
<1>10. ASSUME NEW s \in Subs, NEW d \in channels'[s[1]][s[2]], NEW e \in Holding(s)
       PROVE  \/ d \in channels[s[1]][s[2]] /\ since'[d][s[2]][e.by] = since[d][s[2]][e.by]
              \/ e.nr <= since'[d][s[2]][e.by]
  <2>1. d \in Clients /\ s[1] \in Nodes /\ s[2] \in Channels
    BY SubParts DEF Typed
  <2>2. CASE d \in channels[s[1]][s[2]]
    BY <1>6, <1>8, <2>1, <2>2
  <2>3. CASE d \notin channels[s[1]][s[2]]
    <3>1. d \in channels'[s[1]][s[2]]
             /\ channels'[s[1]][s[2]] = IF s[1] = n /\ s[2] = k THEN channels[s[1]][s[2]] \cup {c}
                                                                ELSE channels[s[1]][s[2]]
      BY <1>5, <1>10, <2>1
    <3>2. d = c /\ s[1] = n /\ s[2] = k
      BY <2>3, <3>1
    <3> QED
      BY <1>7, <1>8, <2>3, <3>2
  <2> QED
    BY <2>2, <2>3
<1>11. RestIsOld'
  BY <1>3, <1>9, <1>10 DEF RestIsOld
<1>12. InTurn'
  <2> SUFFICES ASSUME NEW s \in Subs, Listening(s)', NEW d \in channels'[s[1]][s[2]],
                      NEW e \in ToCome(s, d)', e.nr > since'[d][s[2]][e.by]
               PROVE  \A g \in GivenTo(d)' : g.by = e.by /\ g.on = e.on => g.nr < e.nr
    BY DEF InTurn
  <2>1. d \in Clients
    BY SubParts DEF Typed
  <2>2. e \in ToCome(s, d) /\ GivenTo(d)' = GivenTo(d)
    BY <1>2 DEF ToCome, Waiting, GivenTo
  <2>3. e \in Holding(s)
    BY <2>1, <2>2, ToComeIsHeld
  <2>4. ~(e.nr <= since'[d][s[2]][e.by])
    <3>1. e \in Events /\ e.nr \in Nat /\ e.by \in Senders /\ s[2] \in Channels
      BY <2>3, SubParts, HeldAreEvents, EventParts
    <3>2. since'[d][s[2]][e.by] \in Nat
      <4>1. since' \in [Clients -> [Channels -> [Senders -> Nat]]]
        BY DEF Typed
      <4> QED
        BY <2>1, <3>1, <4>1
    <3> QED
      BY <3>1, <3>2
  <2>5. d \in channels[s[1]][s[2]] /\ e.nr > since[d][s[2]][e.by]
    BY <1>10, <2>3, <2>4
  <2>6. Listening(s)
    <3>1. state[s] # "free"
      BY <2>3 DEF RelayInv
    <3> QED
      BY <1>3, <3>1 DEF Listening
  <2> QED
    BY <2>2, <2>5, <2>6 DEF InTurn
<1> QED
  BY <1>4, <1>11, <1>12, QuietStep

(* A step after which fewer clients are subscribed, the others since the   *)
(* same moment, and a subscription that is newly closed has none of them.  *)
LEMMA FewerSubscribers ==
  ASSUME EventInv, Typed', OneSubscription', Quiet, since' = since,
         \A s \in Subs : channels'[s[1]][s[2]] \subseteq channels[s[1]][s[2]],
         \A s \in Subs : Listening(s)' => Listening(s),
         \A s \in Subs : state'[s] = "closed" => state[s] = "closed" \/ channels'[s[1]][s[2]] = {}
  PROVE  EventInv'
<1>1. Receding
  BY QuietKeepsEvents DEF EventInv
<1>2. RestIsOld'
  BY <1>1 DEF RestIsOld, Receding, EventInv
<1>3. InTurn'
  <2> SUFFICES ASSUME NEW s \in Subs, Listening(s)', NEW d \in channels'[s[1]][s[2]],
                      NEW e \in ToCome(s, d)', e.nr > since[d][s[2]][e.by]
               PROVE  \A g \in GivenTo(d)' : g.by = e.by /\ g.on = e.on => g.nr < e.nr
    BY DEF InTurn
  <2>1. d \in Clients /\ d \in channels[s[1]][s[2]] /\ s \in Threads
    BY SubParts DEF Typed, EventInv
  <2>2. e \in ToCome(s, d) /\ GivenTo(d)' = GivenTo(d)
    BY <1>1, <2>1 DEF Receding, GivenTo
  <2> QED
    BY <2>1, <2>2 DEF InTurn, EventInv
<1> QED
  BY <1>2, <1>3, QuietStep

(* hub.go:284-300: the last to leave closes the subscription, whose rest   *)
(* is then older than anyone who comes.                                    *)
LEMMA LeaveKeeps ==
  ASSUME EventInv, Typed', OneSubscription', NEW c \in Clients, NEW k \in Channels, Leave(c, k)
  PROVE  EventInv'
<1> DEFINE n == NodeFor[c]
<1> USE DEF EventInv
<1>1. n \in Nodes
  BY ClientParts
<1>2. \A m \in Nodes, l \in Channels :
        channels'[m][l] = IF m = n /\ l = k THEN channels[m][l] \ {c} ELSE channels[m][l]
  <2>1. channels' = [channels EXCEPT ![n][k] = channels[n][k] \ {c}]
    BY LeaveParts
  <2> QED
    BY <1>1, <2>1 DEF Typed
<1>3. \A s \in Subs :
        /\ Listening(s)' => Listening(s)
        /\ state'[s] = "closed" => state[s] = "closed" \/ channels'[s[1]][s[2]] = {}
        /\ state'[s] \in {"free", "asked"} => state[s] = state'[s]
  <2> TAKE s \in Subs
  <2>1. IF LastLeaves(c, k, s) THEN state'[s] = "closed" ELSE state'[s] = state[s]
    BY LeaveParts
  <2>2. LastLeaves(c, k, s) => channels'[s[1]][s[2]] = {}
    BY <1>1, <1>2 DEF LastLeaves
  <2> QED
    BY <2>1, <2>2 DEF Listening
<1>4. Quiet
  <2>1. \A s \in Subs : Shrunk(s)
    BY LeaveParts, PrefixIsShrunk
  <2>2. \A s \in Subs : state'[s] \in {"free", "asked"} => Holding(s) = {}
    BY <1>3 DEF RelayInv
  <2> QED
    BY <2>1, <2>2, LeaveParts DEF Quiet
<1>5. since' = since
  BY LeaveParts
<1>6. \A s \in Subs : channels'[s[1]][s[2]] \subseteq channels[s[1]][s[2]]
  BY <1>2, SubParts
<1> QED
  BY <1>3, <1>4, <1>5, <1>6, FewerSubscribers

(* redis.go:62: Redis registers a subscription, and nobody is given        *)
(* anything yet.                                                           *)
LEMMA ConfirmKeeps ==
  ASSUME EventInv, Typed', OneSubscription', NEW s \in Subs, Confirm(s)
  PROVE  EventInv'
<1> USE DEF EventInv
<1>1. /\ UNCHANGED <<channels, inbox, pc, event, rcpts, sent, since, log>>
      /\ state[s] = "asked" /\ state' = [state EXCEPT ![s] = "active"]
  BY DEF Confirm
<1>2. \A r \in Subs : state'[r] = state[r] \/ (state[r] = "asked" /\ state'[r] = "active")
  <2>1. state \in [Subs -> {"free", "asked", "active", "closed"}]
    BY DEF Typed
  <2> QED
    BY <1>1, <2>1
<1>3. Quiet
  <2>1. \A r \in Subs : Shrunk(r)
    BY <1>1, SameIsShrunk
  <2>2. \A r \in Subs : state'[r] \in {"free", "asked"} => Holding(r) = {}
    BY <1>2 DEF RelayInv
  <2> QED
    BY <1>1, <2>1, <2>2 DEF Quiet
<1>4. \A r \in Subs : Listening(r)' => Listening(r)
  BY <1>2 DEF Listening
<1> QED
  BY <1>1, <1>2, <1>3, <1>4, FewerSubscribers

(* A crash takes the node's subscribers, and with them what its relays     *)
(* would give.                                                             *)
LEMMA CrashKeeps ==
  ASSUME EventInv, Typed', OneSubscription', NEW n \in Nodes, Crash(n)
  PROVE  EventInv'
<1> USE DEF EventInv
<1>1. UNCHANGED <<pc, event, rcpts, sent, since, log>>
  BY DEF Crash
<1>2. \A s \in Subs : channels'[s[1]][s[2]] = IF s[1] = n THEN {} ELSE channels[s[1]][s[2]]
  BY SubParts DEF Crash, Typed
<1>3. \A s \in Subs : /\ state'[s] = IF s[1] = n THEN "closed" ELSE state[s]
                      /\ inbox'[s] = IF s[1] = n THEN <<>> ELSE inbox[s]
  BY DEF Crash
<1>4. Quiet
  <2>1. \A s \in Subs : Shrunk(s)
    BY <1>3, SameIsShrunk, EmptyIsShrunk
  <2>2. \A s \in Subs : state'[s] \in {"free", "asked"} => Holding(s) = {}
    BY <1>3 DEF RelayInv
  <2> QED
    BY <1>1, <2>1, <2>2 DEF Quiet
<1> QED
  BY <1>1, <1>2, <1>3, <1>4, FewerSubscribers DEF Listening

(* The relay drops an event of its own node, which its sender casts.       *)
LEMMA RelaySkipKeeps ==
  ASSUME EventInv, Typed', OneSubscription', NEW s \in Subs, RelaySkip(s)
  PROVE  EventInv'
<1> USE DEF EventInv
<1>1. /\ UNCHANGED <<channels, state, pc, event, rcpts, sent, since, log>>
      /\ inbox[s] # <<>> /\ inbox' = [inbox EXCEPT ![s] = Tail(@)]
  BY DEF RelaySkip
<1>2. \A r \in Subs : Shrunk(r)
  BY <1>1, SameIsShrunk, TailIsShrunk DEF Typed
<1>3. Quiet
  BY <1>1, <1>2 DEF Quiet, RelayInv
<1> QED
  BY <1>1, <1>3, FewerSubscribers DEF Listening

----------------------------------------------------------------------------
(* The steps of senders and relays that give nothing.                      *)

(* A step of a sender leaves the relays as they are.                       *)
LEMMA RelaysUntouched ==
  ASSUME Typed, RelayInv, UNCHANGED <<state, inbox>>,
         \A s \in Subs : pc'[s] = pc[s] /\ event'[s] = event[s],
         \A e \in Events : Published(e) => Published(e)'
  PROVE  RelayInv' /\ \A s \in Subs : Holding(s)' = Holding(s) /\ Waiting(s)' = Waiting(s)
<1>1. \A s \in Subs : Holding(s)' = Holding(s) /\ Waiting(s)' = Waiting(s)
  BY DEF Holding, Waiting
<1>2. \A s \in Subs : \A e \in Holding(s) : e.on = s[2] /\ Published(e)'
  BY HeldAreEvents DEF RelayInv
<1>3. RelayInv'
  BY <1>1, <1>2 DEF RelayInv
<1> QED
  BY <1>1, <1>3

(* A sender's next event is new to everybody.                              *)
LEMMA BeginKeeps ==
  ASSUME EventInv, Typed', OneSubscription', NEW x \in Senders, NEW k \in Channels,
         NEW label \in {"check", "cast"}, Begin(x, k, label)
  PROVE  EventInv'
<1> DEFINE e0 == [by |-> x, nr |-> sent[x] + 1, on |-> k]
<1> USE DEF EventInv
<1>1. /\ UNCHANGED <<channels, state, inbox, rcpts, since, log>>
      /\ pc[x] = "idle" /\ sent[x] < MaxEvents[x]
      /\ sent' = [sent EXCEPT ![x] = @ + 1]
      /\ event' = [event EXCEPT ![x] = e0]
      /\ pc' = [pc EXCEPT ![x] = label]
  BY DEF Begin, Goto
<1>2. x \in Threads /\ x \notin Subs
  BY SenderParts
<1>3. sent[x] \in Nat /\ e0 \in Events /\ e0 # NoEvent
  <2>1. sent[x] \in Nat
    BY DEF Typed
  <2> QED
    BY <1>1, <2>1, NextIsEvent, EventParts
<1>4. \A y \in Threads : /\ event'[y] = IF y = x THEN e0 ELSE event[y]
                         /\ pc'[y] = IF y = x THEN label ELSE pc[y]
  <2>1. event \in [Threads -> Events \cup {NoEvent}]
        /\ pc \in [Threads -> {"idle", "check", "cast", "send", "publish"}]
    BY DEF Typed
  <2> QED
    BY <1>1, <1>2, <2>1
<1>5. \A y \in Senders : sent'[y] = IF y = x THEN sent[x] + 1 ELSE sent[y]
  <2>1. sent \in [Senders -> Nat]
    BY DEF Typed
  <2> QED
    BY <1>1, <2>1
<1>6. \A y \in Senders : sent[y] \in Nat /\ y \in Threads
  BY SenderParts DEF Typed
<1>7. ASSUME NEW e \in Events, e.nr <= sent[e.by]
      PROVE  e # e0 /\ e.nr <= sent'[e.by] /\ (Published(e) => Published(e)')
  <2>1. e.by \in Senders /\ e.nr \in Nat
    BY EventParts
  <2>2. e # e0
    BY <1>3, <1>7
  <2>3. e.nr <= sent'[e.by]
    BY <1>5, <1>6, <1>7, <2>1
  <2>4. Published(e) => Published(e)'
    BY <1>4, <1>6, <2>1, <2>2, <2>3 DEF Published
  <2> QED
    BY <2>2, <2>3, <2>4
<1>8. RelayInv' /\ \A s \in Subs : Holding(s)' = Holding(s) /\ Waiting(s)' = Waiting(s)
  <2>1. \A s \in Subs : pc'[s] = pc[s] /\ event'[s] = event[s]
    BY <1>2, <1>4, SubParts
  <2>2. \A e \in Events : Published(e) => Published(e)'
    BY <1>7 DEF Published
  <2> QED
    BY <1>1, <2>1, <2>2, RelaysUntouched
<1>9. SenderInv'
  <2>1. e0.by = x /\ e0.nr = sent[x] + 1 /\ label # "idle"
    OBVIOUS
  <2> HIDE DEF e0
  <2> QED
    BY <1>3, <1>4, <1>5, <1>6, <2>1 DEF SenderInv
<1>10. OneRelay'
  BY <1>8 DEF OneRelay
<1>11. CopyInv'
  BY <1>1, <1>4 DEF CopyInv
<1>12. \A d \in Clients : GivenTo(d)' = GivenTo(d) /\ GivenTo(d) \subseteq Events
  BY <1>1, GivenAreEvents DEF GivenTo
<1>13. GivenInv'
  BY <1>7, <1>12 DEF GivenInv
<1>14. \A y \in Threads, d \in Clients : y # x => ToCome(y, d)' = ToCome(y, d)
  BY <1>1, <1>4, <1>8 DEF ToCome
<1>15. Fresh'
  <2>1. \A d \in Clients : ToCome(x, d)' \subseteq {e0}
    BY <1>2, <1>4 DEF ToCome
  <2>2. \A d \in Clients : e0 \notin GivenTo(d)
    BY <1>7, <1>12 DEF GivenInv
  <2> HIDE DEF e0
  <2> QED
    BY <1>12, <1>14, <2>1, <2>2 DEF Fresh
<1>16. RestIsOld'
  BY <1>1, <1>8 DEF RestIsOld
<1>17. InTurn'
  <2>1. \A s \in Subs, d \in Clients : ToCome(s, d)' = ToCome(s, d)
    BY <1>2, <1>14, SubParts
  <2>2. \A s \in Subs : channels[s[1]][s[2]] \subseteq Clients
    BY SubParts DEF Typed
  <2> QED
    BY <1>1, <1>12, <2>1, <2>2 DEF InTurn, Listening
<1> QED
  BY <1>8, <1>9, <1>10, <1>11, <1>13, <1>15, <1>16, <1>17

(* A step of a sender or a relay in which it only copies or lets go.       *)
LEMMA RecedingStep ==
  ASSUME EventInv, Typed', OneSubscription', Receding, SenderInv', RelayInv', CopyInv',
         UNCHANGED <<channels, state, since>>
  PROVE  EventInv'
  BY RecedingKeepsEvents, RecedingKeepsOrder DEF EventInv

(* The event a sender casts stays what it is until it lets go of it.       *)
LEMMA PublishedStays ==
  ASSUME sent' = sent, \A x \in Senders : event'[x] \in {event[x], NoEvent}
  PROVE  \A e \in Events : Published(e) => Published(e)'
<1> TAKE e \in Events
<1>1. e.by \in Senders /\ e # NoEvent
  BY EventParts
<1> QED
  BY <1>1 DEF Published

(* hub.go: a client event is accepted or refused.                          *)
LEMMA ClientCheckKeeps ==
  ASSUME EventInv, Typed', OneSubscription', NEW c \in Clients,
         AcceptClientEvent(c) \/ RefuseClientEvent(c)
  PROVE  EventInv'
<1> USE DEF EventInv
<1>1. UNCHANGED <<channels, state, inbox, rcpts, sent, since, log>>
  BY DEF AcceptClientEvent, RefuseClientEvent
<1>2. c \in Threads /\ c \notin Subs /\ c \in Senders
  BY SenderParts, ClientParts
<1>3. /\ pc[c] = "check"
      /\ \/ event'[c] = event[c] /\ pc'[c] = "cast"
         \/ event'[c] = NoEvent /\ pc'[c] = "idle"
  BY <1>2 DEF AcceptClientEvent, RefuseClientEvent, Goto, Typed
<1>4. \A y \in Threads : y # c => event'[y] = event[y] /\ pc'[y] = pc[y]
  BY <1>2 DEF AcceptClientEvent, RefuseClientEvent, Goto, Typed
<1>5. \A x \in Senders : event'[x] \in {event[x], NoEvent}
  BY <1>3, <1>4, SenderParts
<1>6. RelayInv' /\ \A s \in Subs : Holding(s)' = Holding(s) /\ Waiting(s)' = Waiting(s)
  <2>1. \A s \in Subs : pc'[s] = pc[s] /\ event'[s] = event[s]
    BY <1>2, <1>4, SubParts
  <2> QED
    BY <1>1, <1>5, <2>1, PublishedStays, RelaysUntouched
<1>7. SenderInv'
  BY <1>1, <1>3, <1>4, SenderParts DEF SenderInv
<1>8. CopyInv'
  BY <1>1, <1>3, <1>4 DEF CopyInv
<1>9. \A d \in Clients : rcpts[c] = {} /\ event[c] \in ToCome(c, d)
  BY <1>2, <1>3 DEF CopyInv, ToCome
<1>10. \A x \in Threads, d \in Clients : ToCome(x, d)' \subseteq ToCome(x, d)
  <2>1. \A d \in Clients : ToCome(c, d)' \subseteq ToCome(c, d)
    BY <1>1, <1>2, <1>3, <1>9 DEF ToCome
  <2>2. \A x \in Threads, d \in Clients : x # c => ToCome(x, d)' = ToCome(x, d)
    BY <1>1, <1>4, <1>6 DEF ToCome
  <2> QED
    BY <2>1, <2>2
<1>11. Receding
  BY <1>1, <1>5, <1>6, <1>10 DEF Receding
<1> QED
  BY <1>1, <1>6, <1>7, <1>8, <1>11, RecedingStep

(* BroadcastLocal copies the recipients: they are subscribers of the       *)
(* thread's node.                                                          *)
LEMMA CastKeeps ==
  ASSUME EventInv, Typed', OneSubscription', NEW x \in Threads, Cast(x)
  PROVE  EventInv'
<1> USE DEF EventInv
<1>1. /\ UNCHANGED <<channels, state, inbox, event, sent, since, log>>
      /\ pc[x] = "cast"
  BY DEF Cast
<1>2. /\ pc'[x] = "send" /\ rcpts'[x] = Recipients(NodeOf(x), event[x])
      /\ \A y \in Threads : y # x => pc'[y] = pc[y] /\ rcpts'[y] = rcpts[y]
  BY DEF Cast, Goto, Typed
<1>3. event[x] # NoEvent
  BY <1>1 DEF SenderInv, RelayInv, Threads
<1>4. SenderInv'
  BY <1>1, <1>2, <1>3, SenderParts DEF SenderInv
<1>5. \A s \in Subs : Holding(s)' = Holding(s) /\ Waiting(s)' = Waiting(s)
  BY <1>1 DEF Holding, Waiting
<1>6. RelayInv'
  <2>1. \A s \in Subs : pc'[s] \in {"idle", "cast", "send"} /\ (pc'[s] = "idle" <=> event[s] = NoEvent)
    BY <1>2, <1>3, SubParts DEF RelayInv
  <2>2. \A e : Published(e)' <=> Published(e)
    BY <1>1 DEF Published
  <2> QED
    BY <1>1, <1>5, <2>1, <2>2 DEF RelayInv
<1>7. CopyInv'
  <2>1. \A d \in Recipients(NodeOf(x), event[x]) :
          NodeFor[d] = NodeOf(x) /\ d # ExcludedSocket(event[x])
    <3>1. NodeOf(x) \in Nodes /\ event[x].on \in Channels
      <4>1. NodeOf(x) \in Nodes
        BY SubParts, SenderParts DEF Threads
      <4>2. event[x] \in Events
        BY <1>3 DEF Typed
      <4> QED
        BY <4>1, <4>2, EventParts
    <3> QED
      BY <3>1 DEF Recipients, Audience, OneSubscription
  <2> QED
    BY <1>1, <1>2, <2>1 DEF CopyInv
<1>8. \A y \in Threads, d \in Clients : ToCome(y, d)' \subseteq ToCome(y, d)
  <2>1. \A d \in Clients : ToCome(x, d)' \subseteq ToCome(x, d)
    BY <1>1, <1>5 DEF ToCome
  <2>2. \A y \in Threads, d \in Clients : y # x => ToCome(y, d)' = ToCome(y, d)
    BY <1>1, <1>2, <1>5 DEF ToCome
  <2> QED
    BY <2>1, <2>2
<1>9. Receding
  BY <1>1, <1>5, <1>8 DEF Receding
<1> QED
  BY <1>1, <1>4, <1>6, <1>7, <1>9, RecedingStep

(* The sender has cast its event and goes on to publish it.                *)
LEMMA SenderCastDoneKeeps ==
  ASSUME EventInv, Typed', OneSubscription', NEW x \in Senders, SenderCastDone(x)
  PROVE  EventInv'
<1> USE DEF EventInv
<1>1. /\ UNCHANGED <<channels, state, inbox, event, rcpts, sent, since, log>>
      /\ pc[x] = "send" /\ rcpts[x] = {}
  BY DEF SenderCastDone
<1>2. /\ pc'[x] = "publish" /\ x \in Threads /\ x \notin Subs
      /\ \A y \in Threads : y # x => pc'[y] = pc[y]
  BY SenderParts DEF SenderCastDone, Goto, Typed
<1>3. RelayInv' /\ \A s \in Subs : Holding(s)' = Holding(s) /\ Waiting(s)' = Waiting(s)
  <2>1. \A s \in Subs : pc'[s] = pc[s] /\ event'[s] = event[s]
    BY <1>1, <1>2, SubParts
  <2>2. \A e \in Events : Published(e) => Published(e)'
    BY <1>1 DEF Published
  <2> QED
    BY <1>1, <2>1, <2>2, RelaysUntouched
<1>4. SenderInv'
  BY <1>1, <1>2, SenderParts DEF SenderInv
<1>5. CopyInv'
  BY <1>1, <1>2 DEF CopyInv
<1>6. \A y \in Threads, d \in Clients : ToCome(y, d)' \subseteq ToCome(y, d)
  <2>1. \A d \in Clients : ToCome(x, d)' \subseteq ToCome(x, d)
    BY <1>1, <1>2 DEF ToCome
  <2>2. \A y \in Threads, d \in Clients : y # x => ToCome(y, d)' = ToCome(y, d)
    BY <1>1, <1>2, <1>3 DEF ToCome
  <2> QED
    BY <2>1, <2>2
<1>7. Receding
  BY <1>1, <1>3, <1>6 DEF Receding
<1> QED
  BY <1>1, <1>3, <1>4, <1>5, <1>7, RecedingStep

(* The relay takes the oldest event, which then is the next to come.       *)
LEMMA RelayTakeKeeps ==
  ASSUME EventInv, Typed', OneSubscription', NEW s \in Subs, RelayTake(s)
  PROVE  EventInv'
<1> DEFINE h == Head(inbox[s])
           q == inbox[s]
<1> USE DEF EventInv
<1>1. /\ UNCHANGED <<channels, state, rcpts, sent, since, log>>
      /\ pc[s] = "idle" /\ inbox[s] # <<>>
      /\ NodeOf(h.by) # NodeOf(s)
  BY DEF RelayTake
<1>2. s \in Threads /\ s \notin Senders /\ NodeOf(s) = s[1]
  BY SubParts
<1>3. /\ pc'[s] = "cast" /\ event'[s] = h /\ inbox'[s] = Tail(inbox[s])
      /\ \A y \in Threads : y # s => pc'[y] = pc[y] /\ event'[y] = event[y]
      /\ \A r \in Subs : r # s => inbox'[r] = inbox[r]
  BY <1>2 DEF RelayTake, Goto, Typed
<1>4. /\ h \in Events /\ h = q[1] /\ 1 \in 1..Len(q) /\ Len(inbox'[s]) \in Nat
      /\ \A i \in 1..Len(inbox'[s]) : i + 1 \in 1..Len(q) /\ inbox'[s][i] = q[i + 1]
  <2>1. q \in Seq(Events)
    BY DEF Typed
  <2> QED
    BY <1>1, <1>3, <2>1, HeadAndTail
<1>5. h # NoEvent /\ NodeFor[h.by] # s[1]
  BY <1>1, <1>2, <1>4, EventParts, SenderParts
<1> HIDE DEF h, q
<1>6. event[s] = NoEvent
  BY <1>1 DEF RelayInv
<1>7. Waiting(s)' \subseteq Waiting(s) /\ h \in Waiting(s)
  BY <1>4 DEF Waiting, q
<1>8. Holding(s)' \subseteq Holding(s)
  BY <1>3, <1>7 DEF Holding
<1>9. \A r \in Subs : r # s => Holding(r)' = Holding(r) /\ Waiting(r)' = Waiting(r)
  BY <1>3, SubParts DEF Holding, Waiting
<1>10. SenderInv'
  BY <1>1, <1>2, <1>3, SenderParts DEF SenderInv
<1>11. \A x \in Senders : event'[x] = event[x]
  BY <1>2, <1>3, SenderParts
<1>12. \A e \in Events : Published(e) => Published(e)'
  BY <1>1, <1>11, PublishedStays
<1>13. RelayInv'
  <2>1. \A r \in Subs : \A e \in Holding(r)' : e.on = r[2] /\ Published(e)'
    BY <1>8, <1>9, <1>12, HeldAreEvents DEF RelayInv
  <2>2. ASSUME NEW i \in 1..Len(inbox'[s]), NEW j \in 1..Len(inbox'[s]),
               i < j, inbox'[s][i].by = inbox'[s][j].by
        PROVE  inbox'[s][i].nr < inbox'[s][j].nr
    <3>1. /\ i + 1 \in 1..Len(inbox[s]) /\ j + 1 \in 1..Len(inbox[s]) /\ i + 1 < j + 1
          /\ inbox'[s][i] = inbox[s][i + 1] /\ inbox'[s][j] = inbox[s][j + 1]
      BY <1>4, <2>2 DEF q
    <3>2. \A a, b \in 1..Len(inbox[s]) :
            a < b /\ inbox[s][a].by = inbox[s][b].by => inbox[s][a].nr < inbox[s][b].nr
      BY DEF RelayInv
    <3> QED
      BY <2>2, <3>1, <3>2
  <2>3. ASSUME NEW i \in 1..Len(inbox'[s]), inbox'[s][i].by = h.by
        PROVE  h.nr < inbox'[s][i].nr
    <3>1. /\ i + 1 \in 1..Len(inbox[s]) /\ 1 < i + 1 /\ 1 \in 1..Len(inbox[s])
          /\ inbox'[s][i] = inbox[s][i + 1] /\ h = inbox[s][1]
      BY <1>4 DEF q
    <3> QED
      BY <2>3, <3>1 DEF RelayInv
  <2>4. state[s] \notin {"free", "asked"}
    BY <1>7 DEF RelayInv, Holding
  <2>5. ASSUME NEW r \in Subs
        PROVE  /\ pc'[r] \in {"idle", "cast", "send"}
               /\ pc'[r] = "idle" <=> event'[r] = NoEvent
               /\ event'[r] # NoEvent => NodeFor[event'[r].by] # r[1]
               /\ state'[r] \in {"free", "asked"} => Holding(r)' = {}
    <3>1. CASE r = s
      BY <1>1, <1>3, <1>5, <2>4, <3>1
    <3>2. CASE r # s
      BY <1>1, <1>3, <1>9, <3>2, SubParts DEF RelayInv
    <3> QED
      BY <3>1, <3>2
  <2>6. ASSUME NEW r \in Subs
        PROVE  /\ \A i, j \in 1..Len(inbox'[r]) :
                    i < j /\ inbox'[r][i].by = inbox'[r][j].by
                      => inbox'[r][i].nr < inbox'[r][j].nr
               /\ event'[r] # NoEvent => \A i \in 1..Len(inbox'[r]) :
                    inbox'[r][i].by = event'[r].by => event'[r].nr < inbox'[r][i].nr
    <3>1. CASE r = s
      BY <1>3, <2>2, <2>3, <3>1
    <3>2. CASE r # s
      BY <1>3, <3>2, SubParts DEF RelayInv
    <3> QED
      BY <3>1, <3>2
  <2> QED
    BY <2>1, <2>5, <2>6 DEF RelayInv
<1>14. CopyInv'
  BY <1>1, <1>3 DEF CopyInv
<1>15. \A x \in Threads, d \in Clients : ToCome(x, d)' \subseteq ToCome(x, d)
  <2>1. \A d \in Clients : ToCome(s, d)' \subseteq ToCome(s, d)
    <3>1. NodeFor[h.by] # NodeOf(s) /\ h \in Events
      BY <1>2, <1>4, <1>5
    <3> QED
      BY <1>3, <1>7, <3>1 DEF ToCome
  <2>2. \A x \in Threads, d \in Clients : x # s => ToCome(x, d)' = ToCome(x, d)
    BY <1>1, <1>3, <1>9 DEF ToCome
  <2> QED
    BY <2>1, <2>2
<1>16. Receding
  <2>1. \A r \in Subs : Holding(r)' \subseteq Holding(r)
    BY <1>8, <1>9
  <2> QED
    BY <1>1, <1>11, <1>15, <2>1 DEF Receding
<1> QED
  BY <1>1, <1>10, <1>13, <1>14, <1>16, RecedingStep

(* The relay has given its event to everybody.                             *)
LEMMA RelayCastDoneKeeps ==
  ASSUME EventInv, Typed', OneSubscription', NEW s \in Subs, RelayCastDone(s)
  PROVE  EventInv'
<1> USE DEF EventInv
<1>1. /\ UNCHANGED <<channels, state, inbox, rcpts, sent, since, log>>
      /\ pc[s] = "send" /\ rcpts[s] = {}
  BY DEF RelayCastDone
<1>2. s \in Threads /\ s \notin Senders
  BY SubParts
<1>3. /\ pc'[s] = "idle" /\ event'[s] = NoEvent
      /\ \A y \in Threads : y # s => pc'[y] = pc[y] /\ event'[y] = event[y]
  BY <1>2 DEF RelayCastDone, Goto, Typed
<1>4. \A r \in Subs : Waiting(r)' = Waiting(r)
  BY <1>1 DEF Waiting
<1>5. \A r \in Subs : Holding(r)' \subseteq Holding(r)
  BY <1>3, <1>4, SubParts DEF Holding
<1>6. \A x \in Senders : event'[x] = event[x] /\ pc'[x] = pc[x]
  BY <1>2, <1>3, SenderParts
<1>7. SenderInv'
  BY <1>1, <1>6 DEF SenderInv
<1>8. RelayInv'
  <2>1. \A e \in Events : Published(e) => Published(e)'
    BY <1>1, <1>6, PublishedStays
  <2>2. \A r \in Subs : \A e \in Holding(r)' : e.on = r[2] /\ Published(e)'
    BY <1>5, <2>1, HeldAreEvents DEF RelayInv
  <2> QED
    BY <1>1, <1>3, <1>5, <2>2, SubParts DEF RelayInv
<1>9. CopyInv'
  BY <1>1, <1>3 DEF CopyInv
<1>10. \A x \in Threads, d \in Clients : ToCome(x, d)' \subseteq ToCome(x, d)
  <2>1. \A d \in Clients : ToCome(s, d)' \subseteq ToCome(s, d)
    BY <1>1, <1>3, <1>4 DEF ToCome
  <2>2. \A x \in Threads, d \in Clients : x # s => ToCome(x, d)' = ToCome(x, d)
    BY <1>1, <1>3, <1>4 DEF ToCome
  <2> QED
    BY <2>1, <2>2
<1>11. Receding
  BY <1>1, <1>5, <1>6, <1>10 DEF Receding
<1> QED
  BY <1>1, <1>7, <1>8, <1>9, <1>11, RecedingStep

----------------------------------------------------------------------------
(* What is published is new to every relay and to every client elsewhere,  *)
(* and younger than all they have of its sender on its channel.            *)
LEMMA PublishKeeps ==
  ASSUME EventInv, Typed', OneSubscription', NEW x \in Senders, Publish(x)
  PROVE  EventInv'
<1> USE DEF EventInv
<1>0. PICK e : e = event[x]
  OBVIOUS
<1>1. /\ UNCHANGED <<channels, state, rcpts, sent, since, log>>
      /\ pc[x] = "publish"
  BY DEF Publish
<1>2. PICK reached \in SUBSET {s \in Subs : s[2] = e.on /\ state[s] = "active"} :
        inbox' = [s \in Subs |-> IF s \in reached THEN Append(inbox[s], e) ELSE inbox[s]]
  BY <1>0 DEF Publish
<1>3. x \in Threads /\ x \notin Subs
  BY SenderParts
<1>4. /\ pc'[x] = "idle" /\ event'[x] = NoEvent
      /\ \A y \in Threads : y # x => pc'[y] = pc[y] /\ event'[y] = event[y]
  BY <1>3 DEF Publish, Goto, Typed
<1>5. e # NoEvent /\ e \in Events /\ e.by = x /\ e.nr = sent[x]
  BY <1>0, <1>1, <1>3 DEF SenderInv, Typed
<1>6. e.nr \in Nat /\ event[x] = e /\ ~Published(e)
  BY <1>0, <1>5, EventParts DEF Published
<1>7. \A f \in Events : Published(f) \/ f = e => Published(f)'
  <2> TAKE f \in Events
  <2>1. \A y \in Senders : event'[y] \in {event[y], NoEvent}
    BY <1>4, SenderParts
  <2>2. Published(f) => Published(f)'
    BY <1>1, <2>1, PublishedStays
  <2>3. e.nr <= sent'[e.by] /\ event'[e.by] # e
    BY <1>1, <1>4, <1>5, <1>6
  <2> QED
    BY <2>2, <2>3 DEF Published
<1>8. \A s \in reached : s \in Subs /\ s[2] = e.on /\ state[s] = "active"
  BY <1>2
<1>9. ASSUME NEW s \in Subs, s \in reached
      PROVE  /\ Len(inbox[s]) \in Nat /\ Len(inbox'[s]) = Len(inbox[s]) + 1
             /\ \A i \in 1..Len(inbox[s]) : inbox'[s][i] = inbox[s][i]
             /\ inbox'[s][Len(inbox[s]) + 1] = e
             /\ Waiting(s)' = Waiting(s) \cup {e}
  <2>1. inbox'[s] = Append(inbox[s], e) /\ inbox[s] \in Seq(Events)
    BY <1>2, <1>9 DEF Typed
  <2> QED
    BY <1>5, <2>1, Appended DEF Waiting
<1>10. \A s \in Subs : s \notin reached => inbox'[s] = inbox[s] /\ Waiting(s)' = Waiting(s)
  BY <1>2 DEF Waiting
<1>11. \A s \in Subs : pc'[s] = pc[s] /\ event'[s] = event[s]
  BY <1>3, <1>4, SubParts
<1>12. \A s \in Subs : Holding(s)' = Holding(s) \cup (IF s \in reached THEN {e} ELSE {})
  BY <1>9, <1>10, <1>11 DEF Holding
<1>13. \A s \in Subs : e \notin Holding(s)
  BY <1>6 DEF RelayInv
<1>14. ASSUME NEW s \in reached, NEW f \in Holding(s), f.by = e.by
       PROVE  f.nr < e.nr
  <2>1. s \in Subs /\ f \in Events /\ f.nr \in Nat /\ f.on = e.on /\ Published(f)
    BY <1>8, HeldAreEvents, EventParts DEF RelayInv
  <2>2. f.nr <= e.nr
    BY <1>5, <1>14, <2>1 DEF Published
  <2>3. f.nr # e.nr
    BY <1>5, <1>13, <1>14, <2>1, SameEvent
  <2> QED
    BY <1>6, <2>1, <2>2, <2>3
<1>15. SenderInv'
  BY <1>1, <1>4, SenderParts DEF SenderInv
<1>16. RelayInv'
  <2>1. ASSUME NEW s \in Subs
        PROVE  /\ state'[s] \in {"free", "asked"} => Holding(s)' = {}
               /\ \A f \in Holding(s)' : f.on = s[2] /\ Published(f)'
    <3>1. \A f \in Holding(s) : f.on = s[2] /\ Published(f)'
      BY <1>7, HeldAreEvents DEF RelayInv
    <3>2. s \in reached => e.on = s[2] /\ Published(e)' /\ state[s] = "active"
      BY <1>5, <1>7, <1>8
    <3> QED
      BY <1>1, <1>12, <3>1, <3>2 DEF RelayInv
  <2>2. ASSUME NEW s \in Subs
        PROVE  /\ \A i, j \in 1..Len(inbox'[s]) :
                    i < j /\ inbox'[s][i].by = inbox'[s][j].by
                      => inbox'[s][i].nr < inbox'[s][j].nr
               /\ event'[s] # NoEvent => \A i \in 1..Len(inbox'[s]) :
                    inbox'[s][i].by = event'[s].by => event'[s].nr < inbox'[s][i].nr
    <3>1. CASE s \notin reached
      BY <1>10, <1>11, <3>1 DEF RelayInv
    <3>2. CASE s \in reached
      <4>1. ASSUME NEW i \in 1..Len(inbox'[s]), NEW j \in 1..Len(inbox'[s]), i < j,
                   inbox'[s][i].by = inbox'[s][j].by
            PROVE  inbox'[s][i].nr < inbox'[s][j].nr
        <5>1. i \in 1..Len(inbox[s]) /\ inbox'[s][i] = inbox[s][i]
          BY <1>9, <3>2, <4>1
        <5>2. CASE j = Len(inbox[s]) + 1
          <6>1. inbox[s][i] \in Holding(s) /\ inbox'[s][j] = e
            BY <1>9, <3>2, <5>1, <5>2 DEF Holding, Waiting
          <6> QED
            BY <1>14, <3>2, <4>1, <5>1, <6>1
        <5>3. CASE j # Len(inbox[s]) + 1
          <6>1. j \in 1..Len(inbox[s]) /\ inbox'[s][j] = inbox[s][j]
            BY <1>9, <3>2, <4>1, <5>3
          <6>2. \A a, b \in 1..Len(inbox[s]) :
                  a < b /\ inbox[s][a].by = inbox[s][b].by => inbox[s][a].nr < inbox[s][b].nr
            BY DEF RelayInv
          <6> QED
            BY <4>1, <5>1, <6>1, <6>2
        <5> QED
          BY <5>2, <5>3
      <4>2. ASSUME event[s] # NoEvent, NEW i \in 1..Len(inbox'[s]), inbox'[s][i].by = event[s].by
            PROVE  event[s].nr < inbox'[s][i].nr
        <5>1. event[s] \in Holding(s)
          BY <4>2 DEF Holding
        <5>2. CASE i = Len(inbox[s]) + 1
          BY <1>9, <1>14, <3>2, <4>2, <5>1, <5>2
        <5>3. CASE i # Len(inbox[s]) + 1
          <6>1. i \in 1..Len(inbox[s]) /\ inbox'[s][i] = inbox[s][i]
            BY <1>9, <3>2, <4>2, <5>3
          <6> QED
            BY <4>2, <6>1 DEF RelayInv
        <5> QED
          BY <5>2, <5>3
      <4> QED
        BY <1>11, <4>1, <4>2
    <3> QED
      BY <3>1, <3>2
  <2> QED
    BY <1>11, <2>1, <2>2 DEF RelayInv
<1>17. OneRelay'
  <2> SUFFICES ASSUME NEW s \in Subs, NEW r \in Subs, s[1] = r[1], s # r
               PROVE  Holding(s)' \cap Holding(r)' = {}
    BY DEF OneRelay
  <2>1. ~(s \in reached /\ r \in reached)
    BY <1>8 DEF OneSubscription, Listening
  <2>2. Holding(s) \cap Holding(r) = {}
    BY DEF OneRelay
  <2> QED
    BY <1>12, <1>13, <2>1, <2>2
<1>18. CopyInv'
  BY <1>1, <1>4, <1>3 DEF CopyInv
<1>19. \A d \in Clients : GivenTo(d)' = GivenTo(d) /\ GivenTo(d) \subseteq Events
  BY <1>1, GivenAreEvents DEF GivenTo
<1>20. GivenInv'
  <2>1. \A f \in Events : Published(f) => Published(f)'
    BY <1>7
  <2> QED
    BY <1>1, <1>19, <2>1 DEF GivenInv
<1>21. ASSUME NEW d \in Clients, NodeFor[d] # NodeFor[x]
       PROVE  e \notin GivenTo(d)
  BY <1>5, <1>6, <1>21 DEF GivenInv
<1>22. ASSUME NEW s \in Subs, NEW d \in Clients
       PROVE  ToCome(s, d)' \subseteq ToCome(s, d) \cup
                (IF s \in reached /\ NodeFor[x] # s[1] THEN {e} ELSE {})
  <2>1. Waiting(s)' \subseteq Waiting(s) \cup (IF s \in reached THEN {e} ELSE {})
    BY <1>9, <1>10
  <2>2. NodeOf(e.by) = NodeFor[x] /\ NodeOf(s) = s[1]
    BY <1>5, SubParts, SenderParts
  <2> QED
    BY <1>1, <1>5, <1>11, <2>1, <2>2 DEF ToCome
<1>23. Fresh'
  <2>1. ASSUME NEW s \in Subs, NEW d \in Clients, NodeFor[d] = s[1]
        PROVE  ToCome(s, d)' \cap GivenTo(d) = {}
    <3>1. ToCome(s, d) \cap GivenTo(d) = {}
      BY <2>1, SubParts DEF Fresh
    <3>2. NodeFor[x] # s[1] => e \notin GivenTo(d)
      BY <1>21, <2>1
    <3> QED
      BY <1>22, <3>1, <3>2
  <2>2. ASSUME NEW y \in Senders, NEW d \in Clients
        PROVE  ToCome(y, d)' \subseteq ToCome(y, d)
    <3>1. CASE y = x
      <4>1. rcpts[x] = {}
        BY <1>1, <1>3 DEF CopyInv
      <4> QED
        BY <1>1, <1>3, <1>4, <3>1, <4>1 DEF ToCome
    <3>2. CASE y # x
      BY <1>1, <1>4, <3>2, SenderParts DEF ToCome
    <3> QED
      BY <3>1, <3>2
  <2>3. \A y \in Senders, d \in Clients :
          NodeFor[d] = NodeOf(y) => ToCome(y, d)' \cap GivenTo(d) = {}
    BY <2>2, SenderParts DEF Fresh
  <2> QED
    BY <1>19, <2>1, <2>3, SubParts DEF Fresh, Threads
<1>24. RestIsOld'
  <2>1. \A s \in Subs : state[s] = "closed" => Holding(s)' = Holding(s)
    BY <1>8, <1>12
  <2> QED
    BY <1>1, <2>1 DEF RestIsOld
<1>25. InTurn'
  <2> SUFFICES ASSUME NEW s \in Subs, Listening(s), NEW d \in channels[s[1]][s[2]],
                      NEW f \in ToCome(s, d)', f.nr > since[d][s[2]][f.by],
                      NEW g \in GivenTo(d), g.by = f.by, g.on = f.on
               PROVE  g.nr < f.nr
    <3>1. \A s \in Subs : \A d \in channels[s[1]][s[2]] : d \in Clients
      BY SubParts DEF Typed
    <3> QED
      BY <1>1, <1>19, <3>1 DEF InTurn, Listening
  <2>1. d \in Clients /\ NodeFor[d] = s[1]
    <3>1. s[1] \in Nodes /\ s[2] \in Channels
      BY SubParts
    <3>2. channels \in [Nodes -> [Channels -> SUBSET Clients]]
      BY DEF Typed
    <3> QED
      BY <3>1, <3>2 DEF OneSubscription
  <2>2. CASE f \in ToCome(s, d)
    BY <2>2 DEF InTurn
  <2>3. CASE f \notin ToCome(s, d)
    <3>1. f = e /\ NodeFor[x] # s[1]
      BY <1>22, <2>1, <2>3
    <3>2. g # e /\ g \in Events
      BY <1>19, <1>21, <2>1, <3>1
    <3>3. g.nr <= e.nr /\ g.nr \in Nat
      BY <1>5, <2>1, <3>1, <3>2, EventParts DEF GivenInv
    <3>4. g.nr # e.nr
      BY <1>5, <3>1, <3>2, SameEvent
    <3> QED
      BY <1>6, <3>1, <3>3, <3>4
  <2> QED
    BY <2>2, <2>3
<1> QED
  BY <1>15, <1>16, <1>17, <1>18, <1>20, <1>23, <1>24, <1>25

----------------------------------------------------------------------------
(* The step that gives.                                                    *)

(* The event a thread is about to give to client d of its node: nobody     *)
(* gave it to d before, and nobody else there will.                        *)
LEMMA OnlyGiver ==
  ASSUME EventInv, NEW x \in Threads, NEW d \in rcpts[x]
  PROVE  /\ d \in Clients /\ pc[x] = "send" /\ NodeFor[d] = NodeOf(x)
         /\ d # ExcludedSocket(event[x])
         /\ event[x] \in Events /\ event[x] \notin GivenTo(d)
         /\ event[x].nr <= sent[event[x].by]
         /\ x \in Subs => event[x] \in Holding(x) /\ Published(event[x])
         /\ x \in Senders => event[x].by = x
         /\ \A y \in Threads :
              y # x /\ NodeOf(y) = NodeOf(x) => event[x] \notin ToCome(y, d)
         /\ x \in Subs => event[x] \notin Waiting(x)
<1> USE DEF EventInv
<1>1. /\ d \in Clients /\ pc[x] = "send" /\ NodeFor[d] = NodeOf(x)
      /\ d # ExcludedSocket(event[x])
  BY DEF CopyInv, Typed
<1>2. event[x] # NoEvent /\ event[x] \in Events
  BY <1>1 DEF SenderInv, RelayInv, Threads, Typed
<1>3. event[x] \notin GivenTo(d)
  <2>1. event[x] \in ToCome(x, d)
    BY DEF ToCome
  <2> QED
    BY <1>1, <2>1 DEF Fresh
<1>4. x \in Subs => event[x] \in Holding(x) /\ Published(event[x])
  BY <1>2 DEF Holding, RelayInv
<1>5. x \in Senders => event[x].by = x /\ event[x].nr = sent[x] /\ sent[x] \in Nat
  BY <1>2 DEF SenderInv, Typed
<1>6. event[x].nr <= sent[event[x].by]
  BY <1>4, <1>5 DEF Published, Threads
<1>7. ASSUME x \in Subs PROVE event[x] \notin Waiting(x)
  <2> SUFFICES ASSUME NEW i \in 1..Len(inbox[x]), event[x] = inbox[x][i] PROVE FALSE
    BY DEF Waiting
  <2>1. event[x].nr < event[x].nr
    BY <1>2, <1>7 DEF RelayInv
  <2> QED
    BY <1>2, <2>1, EventParts
<1>8. ASSUME NEW y \in Threads, y # x, NodeOf(y) = NodeOf(x)
      PROVE  event[x] \notin ToCome(y, d)
  <2>1. CASE y \in Subs
    <3>1. CASE x \in Subs
      <4>1. Holding(x) \cap Holding(y) = {}
        BY <1>8, <2>1, <3>1, SubParts DEF OneRelay
      <4> QED
        BY <1>1, <1>4, <2>1, <3>1, <4>1, ToComeIsHeld
    <3>2. CASE x \in Senders
      <4>1. ~Published(event[x])
        BY <1>5, <3>2 DEF Published
      <4> QED
        BY <1>1, <2>1, <4>1, ToComeIsHeld DEF RelayInv
    <3> QED
      BY <3>1, <3>2 DEF Threads
  <2>2. CASE y \in Senders
    <3>1. y \notin Subs
      BY <2>2, SenderParts
    <3>2. event[x] # event[y]
      <4>1. CASE x \in Senders
        BY <1>2, <1>5, <1>8, <2>2, <4>1 DEF SenderInv
      <4>2. CASE x \in Subs
        BY <1>2, <1>4, <2>2, <4>2 DEF SenderInv, Published
      <4> QED
        BY <4>1, <4>2 DEF Threads
    <3> QED
      BY <3>1, <3>2 DEF ToCome
  <2> QED
    BY <2>1, <2>2 DEF Threads
<1> QED
  BY <1>1, <1>2, <1>3, <1>4, <1>5, <1>6, <1>7, <1>8

(* It is older than all that is to come to d from the relay in charge and  *)
(* that was sent since d joined.                                           *)
LEMMA OlderThanToCome ==
  ASSUME EventInv, NEW x \in Threads, NEW d \in rcpts[x],
         NEW s \in Subs, Listening(s), d \in channels[s[1]][s[2]],
         NEW f \in ToCome(s, d), f # event[x] \/ x # s, f.nr > since[d][s[2]][f.by],
         event[x].by = f.by, event[x].on = f.on
  PROVE  event[x].nr < f.nr
<1> USE DEF EventInv
<1>1. /\ d \in Clients /\ NodeFor[d] = NodeOf(x) /\ event[x] \in Events
      /\ x \in Subs => event[x] \in Holding(x)
      /\ x \in Senders => event[x].by = x
  BY OnlyGiver
<1>2. s[1] \in Nodes /\ s[2] \in Channels /\ NodeOf(s) = s[1]
  BY SubParts
<1>3. NodeFor[d] = s[1]
  BY <1>2 DEF OneSubscription
<1>4. f \in Holding(s) /\ f \in Events /\ f.on = s[2]
  BY <1>1, ToComeIsHeld, HeldAreEvents DEF RelayInv
<1>5. NodeFor[f.by] # s[1]
  <2>1. CASE f = event[s]
    BY <1>4, <2>1, EventParts DEF RelayInv
  <2>2. CASE f # event[s]
    <3>1. NodeFor[f.by] # NodeOf(s)
      BY <2>2 DEF ToCome
    <3> QED
      BY <1>2, <3>1
  <2> QED
    BY <2>1, <2>2
<1>6. x \in Subs
  <2>1. CASE x \in Senders
    BY <1>1, <1>3, <1>5, <2>1, SenderParts
  <2> QED
    BY <2>1 DEF Threads
<1>7. CASE x = s
  <2>1. PICK i \in 1..Len(inbox[s]) : f = inbox[s][i]
    BY <1>4, <1>7 DEF Holding, Waiting
  <2>2. event[s] # NoEvent
    BY <1>1, <1>7, EventParts
  <2> QED
    BY <1>7, <2>1, <2>2 DEF RelayInv
<1>8. CASE x # s
  <2>1. x[1] = s[1] /\ x[2] = s[2] /\ event[x].on = x[2]
    BY <1>1, <1>3, <1>4, <1>6, SubParts DEF RelayInv
  <2>2. ~Listening(x)
    BY <1>6, <1>8, <2>1 DEF OneSubscription
  <2>3. state[x] = "closed"
    BY <1>1, <1>6, <2>2 DEF Listening, RelayInv, Typed
  <2>4. event[x].nr <= since[d][s[2]][f.by]
    BY <1>1, <1>6, <2>1, <2>3 DEF RestIsOld
  <2>5. /\ event[x].nr \in Nat /\ f.nr \in Nat /\ f.by \in Senders
    BY <1>1, <1>4, EventParts
  <2>6. since[d][s[2]][f.by] \in Nat
    BY <1>1, <1>2, <2>5 DEF Typed
  <2> QED
    BY <2>4, <2>5, <2>6
<1> QED
  BY <1>7, <1>8

(* A client is given an event, or loses it: it no longer is to come, and   *)
(* what is to come from its sender is newer.                               *)
LEMMA EnqueueKeeps ==
  ASSUME EventInv, Typed', OneSubscription', NEW x \in Threads, Enqueue(x)
  PROVE  EventInv'
<1> USE DEF EventInv
<1>1. PICK d \in rcpts[x] :
        /\ rcpts' = [rcpts EXCEPT ![x] = @ \ {d}]
        /\ log' = [log EXCEPT ![d] = Append(@, event[x])] \/ log' = log
  BY DEF Enqueue
<1>2. UNCHANGED <<channels, state, inbox, pc, event, sent, since>> /\ pc[x] = "send"
  BY DEF Enqueue
<1>3. /\ rcpts'[x] = rcpts[x] \ {d}
      /\ \A y \in Threads : y # x => rcpts'[y] = rcpts[y]
  BY <1>1 DEF Typed
<1>4. /\ d \in Clients /\ NodeFor[d] = NodeOf(x) /\ event[x] \in Events
      /\ event[x] \notin GivenTo(d)
      /\ event[x].nr <= sent[event[x].by]
      /\ x \in Subs => event[x] \in Holding(x) /\ Published(event[x])
      /\ x \in Senders => event[x].by = x
      /\ \A y \in Threads :
           y # x /\ NodeOf(y) = NodeOf(x) => event[x] \notin ToCome(y, d)
      /\ x \in Subs => event[x] \notin Waiting(x)
  BY OnlyGiver
<1>5. \A s \in Subs : Waiting(s)' = Waiting(s) /\ Holding(s)' = Holding(s)
  BY <1>2 DEF Waiting, Holding
<1>6. \A e : Published(e)' <=> Published(e)
  BY <1>2 DEF Published
<1>7. SenderInv'
  BY <1>2 DEF SenderInv
<1>8. RelayInv'
  BY <1>2, <1>5, <1>6 DEF RelayInv
<1>9. CopyInv'
  BY <1>2, <1>3 DEF CopyInv
<1>10. \A y \in Threads, c \in Clients : ToCome(y, c)' \subseteq ToCome(y, c)
  BY <1>2, <1>3, <1>5 DEF ToCome
<1>11. CASE log' = log
  <2>1. Receding
    BY <1>2, <1>5, <1>10, <1>11 DEF Receding
  <2> QED
    BY <1>2, <1>7, <1>8, <1>9, <2>1, RecedingStep
<1>12. CASE log' = [log EXCEPT ![d] = Append(@, event[x])]
  <2>1. PICK e : e = event[x]
    OBVIOUS
  <2>2. GivenTo(d)' = GivenTo(d) \cup {e}
    <3>1. log[d] \in Seq(Events) /\ log'[d] = Append(log[d], e)
      BY <1>4, <1>12, <2>1 DEF Typed
    <3> QED
      BY <1>4, <2>1, <3>1, Appended DEF GivenTo
  <2>3. \A c \in Clients : c # d => GivenTo(c)' = GivenTo(c)
    BY <1>12 DEF GivenTo, Typed
  <2>4. GivenInv'
    <3>1. NodeFor[e.by] # NodeFor[d] => Published(e)
      BY <1>4, <2>1, SenderParts DEF Threads
    <3>2. \A c \in Clients : \A g \in GivenTo(c)' :
             g.nr <= sent[g.by] /\ (NodeFor[g.by] # NodeFor[c] => Published(g))
      BY <1>4, <2>1, <2>2, <2>3, <3>1 DEF GivenInv
    <3> QED
      BY <1>2, <1>6, <3>2 DEF GivenInv
  <2>5. Fresh'
    <3>1. ASSUME NEW y \in Threads, NodeOf(y) = NodeOf(x)
          PROVE  e \notin ToCome(y, d)'
      <4>1. CASE y = x
        <5>1. d \notin rcpts'[x] /\ pc'[x] = "send"
          BY <1>2, <1>3
        <5> QED
          BY <1>4, <1>5, <2>1, <4>1, <5>1 DEF ToCome
      <4>2. CASE y # x
        BY <1>4, <1>10, <2>1, <3>1, <4>2
      <4> QED
        BY <4>1, <4>2
    <3>2. ASSUME NEW y \in Threads, NEW c \in Clients, NodeFor[c] = NodeOf(y)
          PROVE  ToCome(y, c)' \cap GivenTo(c)' = {}
      <4>1. ToCome(y, c) \cap GivenTo(c) = {} /\ ToCome(y, c)' \subseteq ToCome(y, c)
        BY <1>10, <3>2 DEF Fresh
      <4>2. CASE c # d
        BY <2>3, <4>1, <4>2
      <4>3. CASE c = d
        <5>1. e \notin ToCome(y, d)'
          BY <1>4, <3>1, <3>2, <4>3
        <5> QED
          BY <2>2, <4>1, <4>3, <5>1
      <4> QED
        BY <4>2, <4>3
    <3> QED
      BY <3>2 DEF Fresh
  <2>6. OneRelay' /\ RestIsOld'
    BY <1>2, <1>5 DEF OneRelay, RestIsOld
  <2>7. InTurn'
    <3> SUFFICES ASSUME NEW s \in Subs, Listening(s), NEW c \in channels[s[1]][s[2]],
                        NEW f \in ToCome(s, c)', f.nr > since[c][s[2]][f.by],
                        NEW g \in GivenTo(c)', g.by = f.by, g.on = f.on
                 PROVE  g.nr < f.nr
      BY <1>2 DEF InTurn, Listening
    <3>1. c \in Clients /\ s \in Threads
      <4>1. s[1] \in Nodes /\ s[2] \in Channels /\ s \in Threads
        BY SubParts
      <4>2. channels \in [Nodes -> [Channels -> SUBSET Clients]]
        BY DEF Typed
      <4> QED
        BY <4>1, <4>2
    <3>2. f \in ToCome(s, c)
      BY <1>10, <3>1
    <3>3. CASE g \in GivenTo(c)
      BY <3>2, <3>3 DEF InTurn
    <3>4. CASE g \notin GivenTo(c)
      <4>1. c = d /\ g = event[x]
        BY <2>1, <2>2, <2>3, <3>1, <3>4
      <4>2. f # event[x] \/ x # s
        <5>1. x = s => ToCome(s, c)' \subseteq Waiting(s)
          BY <1>2, <1>3, <1>5, <4>1 DEF ToCome
        <5> QED
          BY <1>4, <5>1
      <4> QED
        BY <3>2, <4>1, <4>2, OlderThanToCome
    <3> QED
      BY <3>3, <3>4
  <2> QED
    BY <1>7, <1>8, <1>9, <2>4, <2>5, <2>6, <2>7
<1> QED
  BY <1>1, <1>11, <1>12

(* EventInv is inductive.                                                  *)
LEMMA EventInvStep == EventInv /\ [Next]_vars => EventInv'
<1> SUFFICES ASSUME EventInv, [Next]_vars PROVE EventInv'
  OBVIOUS
<1>1. CASE Next
  <2>1. Typed' /\ OneSubscription'
    BY <1>1, TypedStep, OneSubscriptionStep DEF EventInv
  <2>2. ASSUME NEW c \in Clients, AcceptClientEvent(c) \/ RefuseClientEvent(c) PROVE EventInv'
    BY <2>1, <2>2, ClientCheckKeeps
  <2>3. ASSUME NEW c \in Clients, NEW k \in Channels, Join(c, k) PROVE EventInv'
    BY <2>1, <2>3, JoinKeeps
  <2>4. ASSUME NEW c \in Clients, NEW k \in Channels, Leave(c, k) PROVE EventInv'
    BY <2>1, <2>4, LeaveKeeps
  <2>5. ASSUME NEW x \in Senders, NEW k \in Channels, NEW label \in {"check", "cast"},
               Begin(x, k, label)
        PROVE  EventInv'
    BY <2>1, <2>5, BeginKeeps
  <2>6. ASSUME NEW x \in Threads, Cast(x) PROVE EventInv'
    BY <2>1, <2>6, CastKeeps
  <2>7. ASSUME NEW x \in Threads, Enqueue(x) PROVE EventInv'
    BY <2>1, <2>7, EnqueueKeeps
  <2>8. ASSUME NEW x \in Senders, SenderCastDone(x) PROVE EventInv'
    BY <2>1, <2>8, SenderCastDoneKeeps
  <2>9. ASSUME NEW x \in Senders, Publish(x) PROVE EventInv'
    BY <2>1, <2>9, PublishKeeps
  <2>10. ASSUME NEW s \in Subs, Confirm(s) PROVE EventInv'
    BY <2>1, <2>10, ConfirmKeeps
  <2>11. ASSUME NEW s \in Subs, RelaySkip(s) PROVE EventInv'
    BY <2>1, <2>11, RelaySkipKeeps
  <2>12. ASSUME NEW s \in Subs, RelayTake(s) PROVE EventInv'
    BY <2>1, <2>12, RelayTakeKeeps
  <2>13. ASSUME NEW s \in Subs, RelayCastDone(s) PROVE EventInv'
    BY <2>1, <2>13, RelayCastDoneKeeps
  <2>14. ASSUME NEW n \in Nodes, Crash(n) PROVE EventInv'
    BY <2>1, <2>14, CrashKeeps
  <2>15. ASSUME NEW c \in Clients, NEW k \in Channels, ClientEvent(c, k) PROVE EventInv'
    BY <2>5, <2>15, ClientParts DEF ClientEvent
  <2>16. ASSUME NEW a \in Callers, NEW k \in Channels, TriggerEvent(a, k) PROVE EventInv'
    BY <2>5, <2>16 DEF TriggerEvent, Senders
  <2> QED
    BY <1>1, <2>2, <2>3, <2>4, <2>6, <2>7, <2>8, <2>9, <2>10, <2>11, <2>12, <2>13, <2>14,
       <2>15, <2>16
    DEF Next, SenderStep, RelayStep, Threads
<1>2. CASE UNCHANGED vars
  <2>1. /\ UNCHANGED <<channels, state, inbox, pc, event>>
        /\ UNCHANGED <<rcpts, sent, since, log>>
    BY <1>2 DEF vars
  <2>2. Typed'
    BY <2>1 DEF EventInv, Typed
  <2>3. OneSubscription'
    BY <2>1 DEF EventInv, OneSubscription, Listening
  <2>4. \A s \in Subs : Shrunk(s)
    BY <2>1, SameIsShrunk DEF EventInv
  <2>5. Quiet
    BY <2>1, <2>4 DEF Quiet, EventInv, RelayInv
  <2> QED
    BY <2>1, <2>2, <2>3, <2>5, FewerSubscribers DEF Listening
<1> QED
  BY <1>1, <1>2

----------------------------------------------------------------------------
(* Where the events are, as EventInv says, on every path: hub.go:312-452.  *)
THEOREM EventInvHolds == Spec => []EventInv
  BY InitEvents, EventInvStep, PTL DEF Spec

(* A client is given something only by Enqueue.                            *)
LEMMA GivenByEnqueue ==
  ASSUME EventInv, [Next]_vars, log' # log
  PROVE  \E x \in Threads : \E d \in rcpts[x] :
           Enqueue(x) /\ log' = [log EXCEPT ![d] = Append(@, event[x])] /\ sent' = sent
<1>1. PICK x \in Threads : Enqueue(x)
  BY LeaveParts
  DEF EventInv, vars, Next, ClientEvent, TriggerEvent, Begin, SenderStep, RelayStep, Join, Confirm,
      AcceptClientEvent, RefuseClientEvent, Cast, SenderCastDone, Publish, RelaySkip, RelayTake,
      RelayCastDone, Crash, Threads
<1>2. PICK d \in rcpts[x] : log' = [log EXCEPT ![d] = Append(@, event[x])]
  BY <1>1 DEF Enqueue
<1> QED
  BY <1>1, <1>2 DEF Enqueue

(* hub.go:220-231, 329-340, 394-422, 438-451: what one sender sends on one *)
(* channel reaches a subscriber in the order it was sent, counting from    *)
(* when it subscribed, whatever the other goroutines do in between.        *)
THEOREM Order == Spec => InOrderSinceJoin
<1> DEFINE Turn ==
      \A c \in Clients : Given(c) =>
        LET e == Newest(c)
            from == since[c][e.on][e.by]
        IN c \in channels[NodeFor[c]][e.on] =>
             \A i \in 1..Len(log[c]) :
               log[c][i].by = e.by /\ log[c][i].on = e.on /\ e.nr > from
                 => log[c][i].nr < e.nr
<1>1. EventInv /\ [Next]_vars => [Turn]_vars
  <2> SUFFICES ASSUME EventInv, [Next]_vars, NEW c \in Clients, Given(c),
                      c \in channels[NodeFor[c]][Newest(c).on],
                      NEW i \in 1..Len(log[c]),
                      log[c][i].by = Newest(c).by, log[c][i].on = Newest(c).on,
                      Newest(c).nr > since[c][Newest(c).on][Newest(c).by]
               PROVE  log[c][i].nr < Newest(c).nr
    OBVIOUS
  <2>1. log' # log
    BY DEF Given
  <2>2. PICK x \in Threads : \E d \in rcpts[x] : log' = [log EXCEPT ![d] = Append(@, event[x])]
    BY <2>1, GivenByEnqueue
  <2>3. PICK d \in rcpts[x] : log' = [log EXCEPT ![d] = Append(@, event[x])]
    BY <2>2
  <2>4. /\ d \in Clients /\ event[x] \in Events /\ event[x] \notin GivenTo(d)
        /\ NodeFor[d] = NodeOf(x)
        /\ x \in Subs => event[x] \in Holding(x)
        /\ x \in Senders => event[x].by = x
    BY OnlyGiver
  <2>5. c = d
    BY <2>3 DEF Given, EventInv, Typed
  <2>6. Newest(c) = event[x]
    <3>1. log[c] \in Seq(Events) /\ log'[c] = Append(log[c], event[x])
      BY <2>3, <2>5 DEF EventInv, Typed
    <3> QED
      BY <2>4, <3>1, Appended DEF Newest, Last
  <2> DEFINE g == log[c][i]
             e == event[x]
  <2>7. g \in GivenTo(c) /\ g \in Events /\ g # e
    BY <2>4, <2>5, GivenAreEvents DEF GivenTo, EventInv
  <2>8. /\ g.nr \in Nat /\ e.nr \in Nat /\ g.nr # e.nr /\ e.by \in Senders /\ e.on \in Channels
        /\ g.by = e.by /\ g.on = e.on
    BY <2>4, <2>6, <2>7, EventParts, SameEvent
  <2> HIDE DEF g, e
  <2>9. e.nr > since[c][e.on][e.by] /\ c \in channels[NodeFor[c]][e.on]
    BY <2>6 DEF e
  <2>10. CASE x \in Senders
    <3>1. event[x] # NoEvent
      BY <2>4, EventParts
    <3>2. e.by = x /\ e.nr = sent[x]
      BY <2>10, <3>1 DEF EventInv, SenderInv, e
    <3>3. g.nr <= sent[g.by]
      BY <2>7 DEF EventInv, GivenInv
    <3>4. g.nr < e.nr
      BY <2>8, <3>2, <3>3
    <3> QED
      BY <2>6, <3>4 DEF g, e
  <2>11. CASE x \in Subs
    <3>1. e \in Holding(x) /\ x[1] = NodeFor[c] /\ e.on = x[2]
      BY <2>4, <2>5, <2>11, SubParts DEF EventInv, RelayInv, e
    <3>2. ~(e.nr <= since[c][x[2]][e.by])
      <4>1. since[c][e.on][e.by] \in Nat
        BY <2>8 DEF EventInv, Typed
      <4> QED
        BY <2>8, <2>9, <3>1, <4>1
    <3>3. c \in channels[x[1]][x[2]]
      BY <2>9, <3>1
    <3>4. state[x] # "closed"
      BY <2>11, <3>1, <3>2, <3>3 DEF EventInv, RestIsOld
    <3>5. state[x] # "free"
      BY <2>11, <3>1 DEF EventInv, RelayInv
    <3>6. Listening(x)
      BY <2>11, <3>4, <3>5 DEF Listening, EventInv, Typed
    <3>7. e \in ToCome(x, c)
      BY <2>5 DEF ToCome, e
    <3>8. e.nr > since[c][x[2]][e.by]
      BY <2>9, <3>1
    <3>9. g.nr < e.nr
      BY <2>7, <2>8, <2>11, <3>3, <3>6, <3>7, <3>8 DEF EventInv, InTurn
    <3> QED
      BY <2>6, <3>9 DEF g, e
  <2> QED
    BY <2>10, <2>11 DEF Threads
<1> QED
  BY <1>1, EventInvHolds, PTL DEF Spec, InOrderSinceJoin

(* hub.go:312-452: the cluster implements EventBus.  Beginning an event is *)
(* EventBus's Send, putting it on a client's queue is Deliver, and every   *)
(* other step (casting, publishing, relaying, a crash) does not show.      *)
THEOREM Implements == Spec => ImplementsBus
<1>1. Init => Bus!BusInit
  BY DEF Init, Bus!BusInit
<1>2. EventInv /\ [Next]_vars => [Bus!BusNext]_(Bus!busVars)
  <2> SUFFICES ASSUME EventInv, [Next]_vars, <<sent, log>>' # <<sent, log>>
               PROVE  Bus!BusNext
    BY DEF Bus!busVars
  <2>1. CASE log' # log
    <3>1. PICK x \in Threads :
            \E d \in rcpts[x] : log' = [log EXCEPT ![d] = Append(@, event[x])] /\ sent' = sent
      BY <2>1, GivenByEnqueue
    <3>2. PICK d \in rcpts[x] : log' = [log EXCEPT ![d] = Append(@, event[x])] /\ sent' = sent
      BY <3>1
    <3> DEFINE e == event[x]
    <3>3. /\ d \in Clients /\ d # ExcludedSocket(e) /\ e \in Events /\ e \notin GivenTo(d)
          /\ e.nr <= sent[e.by]
      BY OnlyGiver
    <3> HIDE DEF e
    <3>4. /\ e.by \in Senders /\ e.on \in Channels /\ e.nr \in Nat \ {0}
          /\ e = [by |-> e.by, nr |-> e.nr, on |-> e.on]
      BY <3>3, EventParts
    <3>5. e.nr \in 1..sent[e.by]
      BY <3>3, <3>4 DEF EventInv, Typed
    <3>6. e \notin Bus!ToSet(log[d])
      BY <3>3 DEF Bus!ToSet, GivenTo, EventInv, Typed
    <3>7. log' = [log EXCEPT ![d] = Append(@, e)] /\ sent' = sent
      BY <3>2 DEF e
    <3>8. Bus!Deliver(d, e)
      BY <3>3, <3>5, <3>6, <3>7 DEF Bus!Deliver
    <3> QED
      BY <3>3, <3>4, <3>5, <3>8 DEF Bus!BusNext
  <2>2. CASE log' = log
    <3>1. PICK x \in Senders : sent' = [sent EXCEPT ![x] = @ + 1]
      BY <2>2, LeaveParts, ClientParts
      DEF EventInv, vars, Next, ClientEvent, TriggerEvent, Begin, SenderStep, RelayStep, Join,
          Confirm, AcceptClientEvent, RefuseClientEvent, Cast, Enqueue, SenderCastDone, Publish,
          RelaySkip, RelayTake, RelayCastDone, Crash, Senders
    <3> QED
      BY <2>2, <3>1 DEF Bus!BusNext, Bus!Send
  <2> QED
    BY <2>1, <2>2
<1> QED
  BY <1>1, <1>2, EventInvHolds, PTL DEF Spec, ImplementsBus, Bus!BusSpec
=============================================================================
