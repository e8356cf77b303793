------------------------------ MODULE Cluster ------------------------------
(***************************************************************************)
(* How events travel between the nodes of a cluster: BroadcastCluster,     *)
(* HandleClientEvent, BroadcastLocal and the relay goroutine of            *)
(* internal/ws/hub.go over internal/pubsub/redis.go.                       *)
(*                                                                         *)
(* A sender casts an event to the subscribers of its own node and then     *)
(* publishes it to the channel's topic.  Redis hands it to the connections *)
(* that are subscribed at that moment; the relay of each casts it to its   *)
(* node's subscribers, unless the event came from that node.               *)
(*                                                                         *)
(* How a node keeps one subscription per channel is module Hub's subject:  *)
(* here opening and filing it is one step, as TopicLease allows.           *)
(***************************************************************************)
EXTENDS Naturals, Sequences, FiniteSets, SequencesExt

CONSTANTS
  Nodes,
  Clients,    \* connections
  Callers,    \* HTTP clients that trigger events, one request at a time
  NodeFor,    \* NodeFor[x]: the node client or caller x talks to
  Except,     \* Except[a]: the client caller a gives as socket_id, or Nobody
  Nobody,
  Channels,
  Public,     \* the channels on which clients may not send
  Wildcard,   \* the channel "*"
  ChannelIn,  \* ChannelIn[c]: where client c's events name their channel, in
              \* the "data" of the message or beside it, in the "envelope"
  MaxEvents,  \* bound: MaxEvents[x] events of sender x
  MaxJoins,   \* bound: MaxJoins[c] subscribe commands of client c
  MaxSubs,    \* bound: broker subscriptions per node and channel
  Lossy,      \* can a queue be full, or a publish fail?
  Crashes     \* can a node crash?

Senders == Clients \cup Callers

(* A broker subscription: its node, its channel, and which one it is.      *)
Subs == Nodes \X Channels \X (1..MaxSubs)

Threads == Senders \cup Subs

ASSUME ClusterKinds ==
  /\ Clients \cap Callers = {} /\ Senders \cap Subs = {}
  /\ NodeFor \in [Senders -> Nodes]
  /\ Nobody \notin Senders /\ Except \in [Callers -> Clients \cup {Nobody}]
  /\ Public \subseteq Channels
  /\ ChannelIn \in [Clients -> {"data", "envelope"}]

ASSUME ClusterBounds ==
  /\ MaxEvents \in [Senders -> Nat] /\ MaxJoins \in [Clients -> Nat]
  /\ MaxSubs \in Nat
  /\ Lossy \in BOOLEAN /\ Crashes \in BOOLEAN

Events == UNION {[by : {x}, nr : 1..MaxEvents[x], on : Channels] : x \in Senders}

VARIABLES
  up,        \* the nodes that run
  channels,  \* h.channels of every node
  state,     \* of every subscription
  inbox,     \* what Redis sent to it and the relay has not taken
  pc,        \* of every sender and every relay goroutine
  event,     \* the event it is casting
  rcpts,     \* the recipients BroadcastLocal has copied, not yet served
  sent,      \* events each sender has begun to send
  joins,     \* subscribe commands of each client
  since,     \* how much each sender had sent when a client joined a channel
  log        \* the events put on each client's queue

vars == <<up, channels, state, inbox, pc, event, rcpts, sent, joins, since, log>>

NoEvent == [by |-> Nobody]

NodeOf(x) == IF x \in Subs THEN x[1] ELSE NodeFor[x]

Alive(x) == NodeOf(x) \in up

(* The subscription in h.channelSubs.                                      *)
Current(n, k) == {s \in Subs : s[1] = n /\ s[2] = k /\ state[s] \in {"asked", "active"}}

ExcludedSocket(e) == IF e.by \in Clients THEN e.by ELSE Except[e.by]

(* Who is given the events on channel k at node n.                         *)
Audience(n, k) ==
  channels[n][k] \cup UNION {channels[n][w] : w \in Channels \cap {Wildcard}}

Recipients(n, e) == Audience(n, e.on) \ {ExcludedSocket(e)}

Init ==
  /\ up = Nodes
  /\ channels = [n \in Nodes |-> [k \in Channels |-> {}]]
  /\ state = [s \in Subs |-> "free"]
  /\ inbox = [s \in Subs |-> <<>>]
  /\ pc = [x \in Threads |-> "idle"]
  /\ event = [x \in Threads |-> NoEvent]
  /\ rcpts = [x \in Threads |-> {}]
  /\ sent = [x \in Senders |-> 0]
  /\ joins = [c \in Clients |-> 0]
  /\ since = [c \in Clients |-> [k \in Channels |-> [x \in Senders |-> 0]]]
  /\ log = [c \in Clients |-> <<>>]

Goto(x, label) == pc' = [pc EXCEPT ![x] = label]

----------------------------------------------------------------------------
(* Subscribers.                                                            *)

NewSub(n, k) ==
  {s \in Subs : s[1] = n /\ s[2] = k /\ state[s] = "free"
                /\ \A r \in Subs : r[1] = n /\ r[2] = k /\ state[r] = "free" => s[3] <= r[3]}

(* Subscribe enters the client, and the first of its node asks Redis for   *)
(* the topic: Subscribe of redis.go returns before that is confirmed.      *)
Join(c, k) ==
  LET n == NodeFor[c]
  IN /\ n \in up /\ pc[c] = "idle" /\ joins[c] < MaxJoins[c]
     /\ joins' = [joins EXCEPT ![c] = @ + 1]
     /\ channels' = [channels EXCEPT ![n][k] = @ \cup {c}]
     /\ since' = IF c \in channels[n][k] THEN since ELSE [since EXCEPT ![c][k] = sent]
     /\ IF channels[n][k] = {}
        THEN \E s \in NewSub(n, k) : state' = [state EXCEPT ![s] = "asked"]
        ELSE UNCHANGED state
     /\ UNCHANGED <<up, inbox, pc, event, rcpts, sent, log>>

(* Redis has registered the subscription.                                  *)
Confirm(s) ==
  /\ state[s] = "asked" /\ Alive(s)
  /\ state' = [state EXCEPT ![s] = "active"]
  /\ UNCHANGED <<up, channels, inbox, pc, event, rcpts, sent, joins, since, log>>

(* closed is empty or the one subscription of the channel.                 *)
Leaving(c, k, closed) ==
  LET n == NodeFor[c]
  IN /\ n \in up /\ pc[c] = "idle"
     /\ c \in channels[n][k]
     /\ channels' = [channels EXCEPT ![n][k] = @ \ {c}]
     /\ state' = [s \in Subs |-> IF s \in closed THEN "closed" ELSE state[s]]
     /\ inbox' \in {[s \in Subs |-> IF s \in closed THEN kept ELSE inbox[s]] :
                      kept \in (UNION {Prefixes(inbox[s]) : s \in closed}) \cup {<<>>}}
     /\ UNCHANGED <<up, pc, event, rcpts, sent, joins, since, log>>

(* Faulty: the subscription is closed whoever leaves.                      *)
LeaveClosing(c, k) == Leaving(c, k, Current(NodeFor[c], k))

(* Unsubscribe.  The last one closes the subscription: what is still in    *)
(* go-redis's channel is lost, what is in sub.ch already is not, and the   *)
(* relay goroutine works that off.                                         *)
Leave(c, k) ==
  Leaving(c, k, IF channels[NodeFor[c]][k] = {c} THEN Current(NodeFor[c], k) ELSE {})

----------------------------------------------------------------------------
(* Senders.                                                                *)

Begin(x, k, label) ==
  /\ Alive(x) /\ pc[x] = "idle" /\ sent[x] < MaxEvents[x]
  /\ sent' = [sent EXCEPT ![x] = @ + 1]
  /\ event' = [event EXCEPT ![x] = [by |-> x, nr |-> sent[x] + 1, on |-> k]]
  /\ Goto(x, label)
  /\ UNCHANGED <<up, channels, state, inbox, rcpts, joins, since, log>>

(* ReadPump reads a message with an event "client-...".                    *)
ClientEvent(c, k) == Begin(c, k, "check")

(* handleClientEvent finds the channel, in data only, and                  *)
(* HandleClientEvent takes it from subscribers of a channel that is not    *)
(* public.                                                                 *)
Accepted(c) ==
  /\ ChannelIn[c] = "data"
  /\ event[c].on \notin Public
  /\ c \in channels[NodeFor[c]][event[c].on]

AcceptClientEvent(c) ==
  /\ Alive(c) /\ pc[c] = "check" /\ Accepted(c)
  /\ Goto(c, "cast")
  /\ UNCHANGED <<up, channels, state, inbox, event, rcpts, sent, joins, since, log>>

(* Otherwise the client gets an error.                                     *)
RefuseClientEvent(c) ==
  /\ Alive(c) /\ pc[c] = "check" /\ ~Accepted(c)
  /\ event' = [event EXCEPT ![c] = NoEvent]
  /\ Goto(c, "idle")
  /\ UNCHANGED <<up, channels, state, inbox, rcpts, sent, joins, since, log>>

(* handleTriggerEvent and BroadcastCluster: any channel, no subscription.  *)
TriggerEvent(a, k) == Begin(a, k, "cast")

(* BroadcastLocal, of a sender or a relay: the copy under the read lock.   *)
Cast(x) ==
  /\ Alive(x) /\ pc[x] = "cast"
  /\ rcpts' = [rcpts EXCEPT ![x] = Recipients(NodeOf(x), event[x])]
  /\ Goto(x, "send")
  /\ UNCHANGED <<up, channels, state, inbox, event, sent, joins, since, log>>

(* One recipient: its queue takes the event, or is full.                   *)
Enqueue(x) ==
  /\ Alive(x) /\ pc[x] = "send"
  /\ \E d \in rcpts[x] :
       /\ rcpts' = [rcpts EXCEPT ![x] = @ \ {d}]
       /\ \/ log' = [log EXCEPT ![d] = Append(@, event[x])]
          \/ Lossy /\ UNCHANGED log
  /\ UNCHANGED <<up, channels, state, inbox, pc, event, sent, joins, since>>

SenderCastDone(x) ==
  /\ Alive(x) /\ pc[x] = "send" /\ rcpts[x] = {}
  /\ Goto(x, "publish")
  /\ UNCHANGED <<up, channels, state, inbox, event, rcpts, sent, joins, since, log>>

(* PUBLISH reaches every subscription Redis has for the topic; a full      *)
(* buffer drops it, and an error is ignored.                               *)
Publish(x) ==
  /\ Alive(x) /\ pc[x] = "publish"
  /\ LET e == event[x]
         listening == {s \in Subs : s[2] = e.on /\ state[s] = "active"}
     IN \E reached \in IF Lossy THEN SUBSET listening ELSE {listening} :
          inbox' = [s \in Subs |-> IF s \in reached THEN Append(inbox[s], e) ELSE inbox[s]]
  /\ event' = [event EXCEPT ![x] = NoEvent]
  /\ Goto(x, "idle")
  /\ UNCHANGED <<up, channels, state, rcpts, sent, joins, since, log>>

----------------------------------------------------------------------------
(* The relay goroutine of a subscription.                                  *)

(* An event of the relay's own node was cast there already.                *)
RelaySkip(s) ==
  /\ Alive(s) /\ pc[s] = "idle" /\ inbox[s] # <<>>
  /\ NodeOf(Head(inbox[s]).by) = NodeOf(s)
  /\ inbox' = [inbox EXCEPT ![s] = Tail(@)]
  /\ UNCHANGED <<up, channels, state, pc, event, rcpts, sent, joins, since, log>>

(* Faulty: the relay does not look at NodeID.                              *)
RelayTakeOwn(s) ==
  /\ Alive(s) /\ pc[s] = "idle" /\ inbox[s] # <<>>
  /\ event' = [event EXCEPT ![s] = Head(inbox[s])]
  /\ inbox' = [inbox EXCEPT ![s] = Tail(@)]
  /\ Goto(s, "cast")
  /\ UNCHANGED <<up, channels, state, rcpts, sent, joins, since, log>>

(* Faulty: the events are not taken in the order they arrived.             *)
RelayTakeAny(s) ==
  /\ Alive(s) /\ pc[s] = "idle"
  /\ \E i \in 1..Len(inbox[s]) :
       /\ NodeOf(inbox[s][i].by) # NodeOf(s)
       /\ event' = [event EXCEPT ![s] = inbox[s][i]]
       /\ inbox' = [inbox EXCEPT ![s] = RemoveAt(@, i)]
  /\ Goto(s, "cast")
  /\ UNCHANGED <<up, channels, state, rcpts, sent, joins, since, log>>

RelayTake(s) ==
  /\ Alive(s) /\ pc[s] = "idle" /\ inbox[s] # <<>>
  /\ NodeOf(Head(inbox[s]).by) # NodeOf(s)
  /\ event' = [event EXCEPT ![s] = Head(inbox[s])]
  /\ inbox' = [inbox EXCEPT ![s] = Tail(@)]
  /\ Goto(s, "cast")
  /\ UNCHANGED <<up, channels, state, rcpts, sent, joins, since, log>>

RelayCastDone(s) ==
  /\ Alive(s) /\ pc[s] = "send" /\ rcpts[s] = {}
  /\ event' = [event EXCEPT ![s] = NoEvent]
  /\ Goto(s, "idle")
  /\ UNCHANGED <<up, channels, state, inbox, rcpts, sent, joins, since, log>>

(* A node crashes: its connections and its subscriptions are gone.         *)
Crash(n) ==
  /\ Crashes /\ n \in up
  /\ up' = up \ {n}
  /\ channels' = [channels EXCEPT ![n] = [k \in Channels |-> {}]]
  /\ state' = [s \in Subs |-> IF s[1] = n THEN "closed" ELSE state[s]]
  /\ inbox' = [s \in Subs |-> IF s[1] = n THEN <<>> ELSE inbox[s]]
  /\ UNCHANGED <<pc, event, rcpts, sent, joins, since, log>>

----------------------------------------------------------------------------
SenderStep(x) == Cast(x) \/ Enqueue(x) \/ SenderCastDone(x) \/ Publish(x)

RelayStep(s) == RelaySkip(s) \/ RelayTake(s) \/ Cast(s) \/ Enqueue(s) \/ RelayCastDone(s)

Next ==
  \/ \E c \in Clients : AcceptClientEvent(c) \/ RefuseClientEvent(c)
  \/ \E c \in Clients, k \in Channels : Join(c, k) \/ Leave(c, k) \/ ClientEvent(c, k)
  \/ \E a \in Callers, k \in Channels : TriggerEvent(a, k)
  \/ \E x \in Senders : SenderStep(x)
  \/ \E s \in Subs : Confirm(s) \/ RelayStep(s)
  \/ \E n \in Nodes : Crash(n)

(* The Go scheduler runs senders and relays that can run, and Redis        *)
(* confirms subscriptions.  Commands and crashes come or do not.           *)
Fairness ==
  /\ \A x \in Senders : WF_vars(SenderStep(x))
  /\ \A c \in Clients : WF_vars(AcceptClientEvent(c) \/ RefuseClientEvent(c))
  /\ \A s \in Subs : WF_vars(RelayStep(s)) /\ WF_vars(Confirm(s))

Spec == Init /\ [][Next]_vars

FairSpec == Spec /\ Fairness

----------------------------------------------------------------------------
(* The abstract view: what was sent, and what each client was given.       *)

Bus == INSTANCE EventBus WITH
         Client <- Clients, Sender <- Senders, Channel <- Channels,
         ExcludedFrom <- ExcludedSocket

(* hub.go:312-452: over all routes of an event (its own node's cast, the   *)
(* relay of the current subscription and of one already closed), a client  *)
(* is given it at most once, and the socket it excludes never.             *)
ImplementsBus == Bus!BusSpec

(* Does client c get something now, and what?                              *)
Given(c) == log'[c] # log[c]
Newest(c) == Last(log'[c])

(* hub.go:220-231, 329-340, 394-422, 438-451: the events of one sender on  *)
(* one channel reach a subscriber in the order they were sent, counting    *)
(* from when it subscribed, although they come through several goroutines. *)
(* (Not so before: a relay that works off a closed subscription may        *)
(* deliver an older event late.)                                           *)
InOrderSinceJoin ==
  [][\A c \in Clients : Given(c) =>
       LET e == Newest(c)
           from == since[c][e.on][e.by]
       IN c \in channels[NodeFor[c]][e.on] =>
            \A i \in 1..Len(log[c]) :
              log[c][i].by = e.by /\ log[c][i].on = e.on /\ e.nr > from
                => log[c][i].nr < e.nr]_vars

(* hub.go:425-452: an event Redis has sent to a node's subscription is     *)
(* given to every subscriber the node has for it, unless the subscriber    *)
(* leaves or the event is not for it.  A subscriber of the wildcard gets   *)
(* it as well while somebody on its node is subscribed to the channel:     *)
(* without one the node does not listen.  (Under FairSpec, without loss.)  *)
RelayedInTheEnd ==
  \A c \in Clients, s \in Subs, x \in Senders : \A i \in 1..MaxEvents[x] :
    LET e == [by |-> x, nr |-> i, on |-> s[2]]
        listens == c \in Audience(NodeFor[c], s[2])
    IN (e \in ToSet(inbox[s]) /\ NodeFor[c] = s[1] /\ listens
          /\ NodeFor[x] # s[1] /\ ExcludedSocket(e) # c)
         ~> (\/ e \in ToSet(log[c])
             \/ c \notin Audience(NodeFor[c], s[2])
             \/ channels[s[1]][s[2]] = {})
=============================================================================
