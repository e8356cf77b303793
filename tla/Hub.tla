-------------------------------- MODULE Hub --------------------------------
(***************************************************************************)
(* One WebSocket node of APS: the registries of internal/ws/hub.go, the    *)
(* part of internal/ws/client.go that drives them, and the presence table  *)
(* and subscriptions of the in-process broker (internal/pubsub/memory.go). *)
(*                                                                         *)
(* Every connection has one goroutine, its ReadPump, and Subscribe,        *)
(* Unsubscribe and Unregister for that client run on it one after the      *)
(* other.  Goroutines of different clients interleave freely.  An action   *)
(* is one critical section of h.mu, one broker call, one enqueued message  *)
(* or one webhook notification: what a reader of the Go code sees between  *)
(* two points where another goroutine may run.                             *)
(*                                                                         *)
(* Broker calls are atomic here: the locks inside the broker, and what     *)
(* they do to h.mu, are the subject of module MemoryBroker.                *)
(***************************************************************************)
EXTENDS Naturals, FiniteSets

CONSTANTS
  Clients,      \* the connections, each with the socket ID it is given
  Public,       \* channels anybody may subscribe to (one may be Wildcard)
  Private,      \* "private-*" channels: a signature is checked
  Presence,     \* "presence-*" channels: signature, and members are tracked
  Wildcard,     \* the channel "*", whose subscribers see every broadcast
  Users,        \* the user_id values of channel_data
  Identities,   \* Identities[c]: the user_ids client c may present
  NoUser,       \* the empty user ID
  NoChannel,    \* no operation is under way
  MaxOps,       \* bound: commands each connection sends
  AdminCalls    \* bound: does anybody call the Terminate API?

Channels == Public \cup Private \cup Presence

ASSUME ChannelKinds ==
  /\ Public \cap Private = {} /\ Public \cap Presence = {}
  /\ Private \cap Presence = {}
  /\ Wildcard \notin Private \cup Presence
  /\ NoChannel \notin Channels

ASSUME UserAssumption ==
  /\ NoUser \notin Users
  /\ Identities \in [Clients -> SUBSET Users]

ASSUME BoundsAssumption == MaxOps \in Nat /\ AdminCalls \in BOOLEAN

VARIABLES
  clients,        \* h.clients, and with it h.clientsByID: registered sockets
  clientsByUser,  \* h.clientsByUser: user -> sockets
  channels,       \* h.channels: channel -> sockets; {} is a missing key
  channelSubs,    \* domain of h.channelSubs: a broker subscription is stored
  brokerSubs,     \* live subscriptions to the channel's topic in the broker
  presence,       \* broker presence table: channel -> socket -> user
  subscribed,     \* client.channels
  userID,         \* client.userID
  conn,           \* "open", or "closed" once the context is cancelled
  pc,             \* where each connection's goroutine is
  ch,             \* the channel its current operation is about
  who,            \* memberUserID or removedUserID of that operation
  snap,           \* members read from the broker, not yet sent
  rcpts,          \* recipients BroadcastLocal has copied, not yet served
  todo,           \* subscribedChannels still to leave in Unregister
  ops,            \* commands received (bounded by MaxOps)
  view,           \* the member list each client builds from its messages
  lastOcc,        \* last occupancy webhook of a channel
  lastMember,     \* last member webhook of a user in a presence channel
  kicking         \* sockets a Terminate call has looked up, not yet closed

registry == <<clients, clientsByUser>>
broker   == <<brokerSubs, presence>>
locals   == <<ch, who, snap, rcpts, todo>>
notices  == <<lastOcc, lastMember>>
vars == <<clients, clientsByUser, channels, channelSubs, brokerSubs, presence,
          subscribed, userID, conn, pc, ch, who, snap, rcpts, todo, ops, view,
          lastOcc, lastMember, kicking>>

SubscribePCs ==
  {"join", "open", "store", "add", "members", "greet", "castAdded",
   "sendAdded", "occSub", "noteOccupied"}

UnsubscribePCs ==
  {"leave", "remove", "castRemoved", "sendRemoved", "occUnsub", "noteVacated"}

PCs == {"new", "idle", "drain", "gone"} \cup SubscribePCs \cup UnsubscribePCs

(* The type of every variable.                                            *)
TypeOK ==
  /\ clients \in SUBSET Clients
  /\ clientsByUser \in [Users -> SUBSET Clients]
  /\ channels \in [Channels -> SUBSET Clients]
  /\ channelSubs \in SUBSET Channels
  /\ brokerSubs \in [Channels -> Nat]
  /\ presence \in [Presence -> [Clients -> Users \cup {NoUser}]]
  /\ subscribed \in [Clients -> SUBSET Channels]
  /\ userID \in [Clients -> Users \cup {NoUser}]
  /\ conn \in [Clients -> {"open", "closed"}]
  /\ pc \in [Clients -> PCs]
  /\ ch \in [Clients -> Channels \cup {NoChannel}]
  /\ who \in [Clients -> Users \cup {NoUser}]
  /\ snap \in [Clients -> SUBSET Users]
  /\ rcpts \in [Clients -> SUBSET Clients]
  /\ todo \in [Clients -> SUBSET Channels]
  /\ ops \in [Clients -> 0..MaxOps]
  /\ view \in [Clients -> [Presence -> SUBSET Users]]
  /\ lastOcc \in [Channels -> {"none", "occupied", "vacated"}]
  /\ lastMember \in [Presence -> [Users -> {"none", "added", "removed"}]]
  /\ kicking \in SUBSET Clients

Init ==
  /\ clients = {}
  /\ clientsByUser = [u \in Users |-> {}]
  /\ channels = [k \in Channels |-> {}]
  /\ channelSubs = {}
  /\ brokerSubs = [k \in Channels |-> 0]
  /\ presence = [k \in Presence |-> [c \in Clients |-> NoUser]]
  /\ subscribed = [c \in Clients |-> {}]
  /\ userID = [c \in Clients |-> NoUser]
  /\ conn = [c \in Clients |-> "open"]
  /\ pc = [c \in Clients |-> "new"]
  /\ ch = [c \in Clients |-> NoChannel]
  /\ who = [c \in Clients |-> NoUser]
  /\ snap = [c \in Clients |-> {}]
  /\ rcpts = [c \in Clients |-> {}]
  /\ todo = [c \in Clients |-> {}]
  /\ ops = [c \in Clients |-> 0]
  /\ view = [c \in Clients |-> [k \in Presence |-> {}]]
  /\ lastOcc = [k \in Channels |-> "none"]
  /\ lastMember = [k \in Presence |-> [u \in Users |-> "none"]]
  /\ kicking = {}

----------------------------------------------------------------------------
(* What the broker answers.                                                *)

PresentSockets(k) == {c \in Clients : presence[k][c] # NoUser}

PresentUsers(k) == {presence[k][c] : c \in PresentSockets(k)}

(* Only AddPresenceMember and RemovePresenceMember write m.occupancies, so *)
(* the occupancy of a channel of another kind is the map's zero value.     *)
Occupancy(k) == IF k \in Presence THEN Cardinality(PresentSockets(k)) ELSE 0

(* The set BroadcastLocal copies under the read lock.                      *)
Recipients(k, except) ==
  (channels[k] \cup (IF Wildcard \in Channels THEN channels[Wildcard] ELSE {}))
    \ {except}

Goto(c, label) == pc' = [pc EXCEPT ![c] = label]

(* Where an operation ends: back in ReadPump's loop, or in Unregister's.   *)
Return(c) ==
  /\ Goto(c, IF c \in clients THEN "idle" ELSE "drain")
  /\ ch' = [ch EXCEPT ![c] = NoChannel]
  /\ who' = [who EXCEPT ![c] = NoUser]

----------------------------------------------------------------------------
(* Connections and the commands ReadPump receives.                         *)

(* HandleWebSocket and Register: the socket enters the registries.         *)
Register(c) ==
  /\ pc[c] = "new"
  /\ clients' = clients \cup {c}
  /\ Goto(c, "idle")
  /\ UNCHANGED <<clientsByUser, channels, channelSubs, broker, subscribed, userID,
                 conn, locals, ops, view, notices, kicking>>

Receive(c) ==
  /\ pc[c] = "idle" /\ conn[c] = "open" /\ ops[c] < MaxOps
  /\ ops' = [ops EXCEPT ![c] = @ + 1]

(* The application is gone (any channel), or the signature of a private    *)
(* or presence channel is missing or wrong: an error and nothing else.     *)
RefuseSubscribe(c) ==
  /\ Receive(c)
  /\ UNCHANGED <<registry, channels, channelSubs, broker, subscribed, userID, conn, pc,
                 locals, view, notices, kicking>>

SubscribePlain(c, k) ==
  /\ Receive(c)
  /\ k \notin Presence
  /\ ch' = [ch EXCEPT ![c] = k]
  /\ Goto(c, "join")
  /\ UNCHANGED <<registry, channels, channelSubs, broker, subscribed, userID, conn,
                 who, snap, rcpts, todo, view, notices, kicking>>

(* Faulty: the client is moved from its earlier user's entry, although it  *)
(* may still be present under that user.                                   *)
SubscribePresenceMoving(c, k, u) ==
  /\ Receive(c)
  /\ ch' = [ch EXCEPT ![c] = k]
  /\ who' = [who EXCEPT ![c] = u]
  /\ userID' = [userID EXCEPT ![c] = u]
  /\ clientsByUser' = [v \in Users |-> IF v = u THEN clientsByUser[v] \cup {c}
                                              ELSE clientsByUser[v] \ {c}]
  /\ Goto(c, "join")
  /\ UNCHANGED <<clients, channels, channelSubs, broker, subscribed, conn,
                 snap, rcpts, todo, view, notices, kicking>>

(* channel_data names user u: it becomes the client's user, and the client *)
(* is filed under it.  The entry of an earlier user_id is not removed.     *)
SubscribePresence(c, k, u) ==
  /\ Receive(c)
  /\ ch' = [ch EXCEPT ![c] = k]
  /\ who' = [who EXCEPT ![c] = u]
  /\ userID' = [userID EXCEPT ![c] = u]
  /\ clientsByUser' = [clientsByUser EXCEPT ![u] = @ \cup {c}]
  /\ Goto(c, "join")
  /\ UNCHANGED <<clients, channels, channelSubs, broker, subscribed, conn,
                 snap, rcpts, todo, view, notices, kicking>>

UnsubscribeCommand(c, k) ==
  /\ Receive(c)
  /\ ch' = [ch EXCEPT ![c] = k]
  /\ Goto(c, "leave")
  /\ UNCHANGED <<registry, channels, channelSubs, broker, subscribed, userID, conn,
                 who, snap, rcpts, todo, view, notices, kicking>>

----------------------------------------------------------------------------
(* Subscribe, from its second critical section on.                         *)

AfterJoin(k) == IF k \in Presence THEN "add" ELSE "occSub"

Joining(c, first) ==
  /\ pc[c] = "join"
  /\ subscribed' = [subscribed EXCEPT ![c] = @ \cup {ch[c]}]
  /\ channels' = [channels EXCEPT ![ch[c]] = @ \cup {c}]
  /\ Goto(c, IF first THEN "open" ELSE AfterJoin(ch[c]))
  /\ UNCHANGED <<registry, channelSubs, broker, userID, conn, locals, ops, view,
                 notices, kicking>>

(* Faulty: whoever finds no subscription filed yet opens one.              *)
JoinUnlessFiled(c) == Joining(c, ch[c] \notin channelSubs)

(* isFirstLocalSub is decided under the lock, acted on after it.           *)
Join(c) == Joining(c, channels[ch[c]] = {})

(* ensurePubSubSubscription: the broker call, outside h.mu ...             *)
OpenSubscription(c) ==
  /\ pc[c] = "open"
  /\ brokerSubs' = [brokerSubs EXCEPT ![ch[c]] = @ + 1]
  /\ Goto(c, "store")
  /\ UNCHANGED <<registry, channels, channelSubs, presence, subscribed, userID, conn,
                 locals, ops, view, notices, kicking>>

(* ... and filing its result under h.mu.                                   *)
StoreSubscription(c) ==
  /\ pc[c] = "store"
  /\ channelSubs' = channelSubs \cup {ch[c]}
  /\ Goto(c, AfterJoin(ch[c]))
  /\ UNCHANGED <<registry, channels, broker, subscribed, userID, conn, locals, ops,
                 view, notices, kicking>>

(* Faulty: a user who is there already is not entered a second time.       *)
AddPresenceOncePerUser(c) ==
  /\ pc[c] = "add"
  /\ presence' = IF who[c] \in PresentUsers(ch[c]) THEN presence
                 ELSE [presence EXCEPT ![ch[c]][c] = who[c]]
  /\ Goto(c, "members")
  /\ UNCHANGED <<registry, channels, channelSubs, brokerSubs, subscribed, userID, conn,
                 locals, ops, view, notices, kicking>>

AddPresenceMember(c) ==
  /\ pc[c] = "add"
  /\ presence' = [presence EXCEPT ![ch[c]][c] = who[c]]
  /\ Goto(c, "members")
  /\ UNCHANGED <<registry, channels, channelSubs, brokerSubs, subscribed, userID, conn,
                 locals, ops, view, notices, kicking>>

GetPresenceMembers(c) ==
  /\ pc[c] = "members"
  /\ snap' = [snap EXCEPT ![c] = PresentUsers(ch[c])]
  /\ Goto(c, "greet")
  /\ UNCHANGED <<registry, channels, channelSubs, broker, subscribed, userID, conn,
                 ch, who, rcpts, todo, ops, view, notices, kicking>>

(* subscription_succeeded, with the members read a step earlier: the       *)
(* client replaces its member list with it.                                *)
SendSucceeded(c) ==
  /\ pc[c] = "greet"
  /\ view' = [view EXCEPT ![c][ch[c]] = snap[c]]
  /\ snap' = [snap EXCEPT ![c] = {}]
  /\ Goto(c, "castAdded")
  /\ UNCHANGED <<registry, channels, channelSubs, broker, subscribed, userID, conn,
                 ch, who, rcpts, todo, ops, notices, kicking>>

(* BroadcastLocal(member_added), its first half: the copy under RLock.     *)
CastAdded(c) ==
  /\ pc[c] = "castAdded"
  /\ rcpts' = [rcpts EXCEPT ![c] = Recipients(ch[c], c)]
  /\ Goto(c, "sendAdded")
  /\ UNCHANGED <<registry, channels, channelSubs, broker, subscribed, userID, conn,
                 ch, who, snap, todo, ops, view, notices, kicking>>

SendAdded(c) ==
  /\ pc[c] = "sendAdded"
  /\ \E d \in rcpts[c] :
       /\ view' = [view EXCEPT ![d][ch[c]] = @ \cup {who[c]}]
       /\ rcpts' = [rcpts EXCEPT ![c] = @ \ {d}]
  /\ UNCHANGED <<registry, channels, channelSubs, broker, subscribed, userID, conn,
                 pc, ch, who, snap, todo, ops, notices, kicking>>

(* All copies are sent: publish to the cluster (this node skips its own    *)
(* message) and notify the member_added webhook.                           *)
NotifyAdded(c) ==
  /\ pc[c] = "sendAdded" /\ rcpts[c] = {}
  /\ lastMember' = [lastMember EXCEPT ![ch[c]][who[c]] = "added"]
  /\ Goto(c, "occSub")
  /\ UNCHANGED <<registry, channels, channelSubs, broker, subscribed, userID, conn,
                 locals, ops, view, lastOcc, kicking>>

(* The occupancy read that decides whether channel_occupied is sent.       *)
ReadOccupancyAfterJoin(c) ==
  /\ pc[c] = "occSub"
  /\ \/ Occupancy(ch[c]) = 1 /\ Goto(c, "noteOccupied") /\ UNCHANGED <<ch, who>>
     \/ Occupancy(ch[c]) # 1 /\ Return(c)
  /\ UNCHANGED <<registry, channels, channelSubs, broker, subscribed, userID, conn,
                 snap, rcpts, todo, ops, view, notices, kicking>>

NotifyOccupied(c) ==
  /\ pc[c] = "noteOccupied"
  /\ lastOcc' = [lastOcc EXCEPT ![ch[c]] = "occupied"]
  /\ Return(c)
  /\ UNCHANGED <<registry, channels, channelSubs, broker, subscribed, userID, conn,
                 snap, rcpts, todo, ops, view, lastMember, kicking>>

----------------------------------------------------------------------------
(* Unsubscribe: by command, or once per channel from Unregister.           *)

Leaving(c, close) ==
  /\ pc[c] = "leave"
  /\ subscribed' = [subscribed EXCEPT ![c] = @ \ {ch[c]}]
  /\ channels' = [channels EXCEPT ![ch[c]] = @ \ {c}]
  /\ IF close THEN /\ channelSubs' = channelSubs \ {ch[c]}
                   /\ brokerSubs' = [brokerSubs EXCEPT ![ch[c]] = @ - 1]
              ELSE UNCHANGED <<channelSubs, brokerSubs>>
  /\ Goto(c, IF ch[c] \in Presence THEN "remove" ELSE "occUnsub")
  /\ UNCHANGED <<registry, presence, userID, conn, locals, ops, view, notices,
                 kicking>>

(* Faulty: the subscription of a channel nobody is left in is closed       *)
(* without looking whether there was one.                                  *)
LeaveUnchecked(c) == Leaving(c, channels[ch[c]] \subseteq {c})

(* Faulty: the subscription is never closed.                               *)
LeaveLeaking(c) == Leaving(c, FALSE)

(* The critical section: the last local subscriber also closes the stored  *)
(* broker subscription, if one is stored.                                  *)
Leave(c) == Leaving(c, channels[ch[c]] = {c} /\ ch[c] \in channelSubs)

(* Faulty: member_removed is not announced when nobody is left to hear it. *)
RemovePresenceUnlessLast(c) ==
  /\ pc[c] = "remove"
  /\ who' = [who EXCEPT ![c] = presence[ch[c]][c]]
  /\ presence' = [presence EXCEPT ![ch[c]][c] = NoUser]
  /\ Goto(c, IF PresentSockets(ch[c]) \subseteq {c} THEN "occUnsub"
                                                   ELSE "castRemoved")
  /\ UNCHANGED <<registry, channels, channelSubs, brokerSubs, subscribed, userID, conn,
                 ch, snap, rcpts, todo, ops, view, notices, kicking>>

(* RemovePresenceMember tells which user the socket was, or nobody.        *)
RemovePresenceMember(c) ==
  /\ pc[c] = "remove"
  /\ who' = [who EXCEPT ![c] = presence[ch[c]][c]]
  /\ presence' = [presence EXCEPT ![ch[c]][c] = NoUser]
  /\ Goto(c, IF presence[ch[c]][c] = NoUser THEN "occUnsub" ELSE "castRemoved")
  /\ UNCHANGED <<registry, channels, channelSubs, brokerSubs, subscribed, userID, conn,
                 ch, snap, rcpts, todo, ops, view, notices, kicking>>

(* BroadcastLocal(member_removed).                                         *)
CastRemoved(c) ==
  /\ pc[c] = "castRemoved"
  /\ rcpts' = [rcpts EXCEPT ![c] = Recipients(ch[c], c)]
  /\ Goto(c, "sendRemoved")
  /\ UNCHANGED <<registry, channels, channelSubs, broker, subscribed, userID, conn,
                 ch, who, snap, todo, ops, view, notices, kicking>>

SendRemoved(c) ==
  /\ pc[c] = "sendRemoved"
  /\ \E d \in rcpts[c] :
       /\ view' = [view EXCEPT ![d][ch[c]] = @ \ {who[c]}]
       /\ rcpts' = [rcpts EXCEPT ![c] = @ \ {d}]
  /\ UNCHANGED <<registry, channels, channelSubs, broker, subscribed, userID, conn,
                 pc, ch, who, snap, todo, ops, notices, kicking>>

NotifyRemoved(c) ==
  /\ pc[c] = "sendRemoved" /\ rcpts[c] = {}
  /\ lastMember' = [lastMember EXCEPT ![ch[c]][who[c]] = "removed"]
  /\ Goto(c, "occUnsub")
  /\ UNCHANGED <<registry, channels, channelSubs, broker, subscribed, userID, conn,
                 locals, ops, view, lastOcc, kicking>>

(* Faulty: a disconnecting client does not report the channel vacated.     *)
ReadOccupancyOfRegistered(c) ==
  /\ pc[c] = "occUnsub"
  /\ \/ /\ Occupancy(ch[c]) = 0 /\ c \in clients
        /\ Goto(c, "noteVacated") /\ UNCHANGED <<ch, who>>
     \/ ~(Occupancy(ch[c]) = 0 /\ c \in clients) /\ Return(c)
  /\ UNCHANGED <<registry, channels, channelSubs, broker, subscribed, userID, conn,
                 snap, rcpts, todo, ops, view, notices, kicking>>

(* The occupancy read that decides whether channel_vacated is sent.        *)
ReadOccupancyAfterLeave(c) ==
  /\ pc[c] = "occUnsub"
  /\ \/ Occupancy(ch[c]) = 0 /\ Goto(c, "noteVacated") /\ UNCHANGED <<ch, who>>
     \/ Occupancy(ch[c]) # 0 /\ Return(c)
  /\ UNCHANGED <<registry, channels, channelSubs, broker, subscribed, userID, conn,
                 snap, rcpts, todo, ops, view, notices, kicking>>

NotifyVacated(c) ==
  /\ pc[c] = "noteVacated"
  /\ lastOcc' = [lastOcc EXCEPT ![ch[c]] = "vacated"]
  /\ Return(c)
  /\ UNCHANGED <<registry, channels, channelSubs, broker, subscribed, userID, conn,
                 snap, rcpts, todo, ops, view, lastMember, kicking>>

----------------------------------------------------------------------------
(* The end of a connection.                                                *)

(* The peer leaves, the activity timeout expires, or WritePump fails: the  *)
(* context is cancelled at any moment, whatever ReadPump is doing.         *)
Drop(c) ==
  /\ pc[c] \notin {"new", "gone"} /\ conn[c] = "open"
  /\ conn' = [conn EXCEPT ![c] = "closed"]
  /\ UNCHANGED <<registry, channels, channelSubs, broker, subscribed, userID, pc, locals,
                 ops, view, notices, kicking>>

(* Faulty: the registries are cleaned, the channels are not.               *)
UnregisterForgetful(c) ==
  /\ pc[c] = "idle" /\ conn[c] = "closed" /\ c \in clients
  /\ clients' = clients \ {c}
  /\ clientsByUser' = [u \in Users |-> clientsByUser[u] \ {c}]
  /\ Goto(c, "drain")
  /\ UNCHANGED <<channels, channelSubs, broker, subscribed, userID, conn, ch, who, snap,
                 rcpts, todo, ops, view, notices, kicking>>

(* ReadPump's Read fails and its deferred Unregister runs.  Only the entry *)
(* of the client's current user is taken out of clientsByUser.             *)
Unregister(c) ==
  /\ pc[c] = "idle" /\ conn[c] = "closed" /\ c \in clients
  /\ clients' = clients \ {c}
  /\ clientsByUser' =
       [u \in Users |-> IF u = userID[c] THEN clientsByUser[u] \ {c}
                                        ELSE clientsByUser[u]]
  /\ todo' = [todo EXCEPT ![c] = subscribed[c]]
  /\ Goto(c, "drain")
  /\ UNCHANGED <<channels, channelSubs, broker, subscribed, userID, conn, ch, who, snap,
                 rcpts, ops, view, notices, kicking>>

(* Faulty: the channel just left stays on the list.                        *)
UnregisterNextAgain(c) ==
  /\ pc[c] = "drain"
  /\ \E k \in todo[c] : ch' = [ch EXCEPT ![c] = k]
  /\ Goto(c, "leave")
  /\ UNCHANGED <<registry, channels, channelSubs, broker, subscribed, userID, conn, who,
                 snap, rcpts, todo, ops, view, notices, kicking>>

(* Its loop over the copied channel names, in any (map) order.             *)
UnregisterNext(c) ==
  /\ pc[c] = "drain"
  /\ \E k \in todo[c] :
       /\ todo' = [todo EXCEPT ![c] = @ \ {k}]
       /\ ch' = [ch EXCEPT ![c] = k]
  /\ Goto(c, "leave")
  /\ UNCHANGED <<registry, channels, channelSubs, broker, subscribed, userID, conn, who,
                 snap, rcpts, ops, view, notices, kicking>>

UnregisterDone(c) ==
  /\ pc[c] = "drain" /\ todo[c] = {}
  /\ Goto(c, "gone")
  /\ UNCHANGED <<registry, channels, channelSubs, broker, subscribed, userID, conn,
                 locals, ops, view, notices, kicking>>

(* TerminateSocket and TerminateUser look sockets up under the read lock   *)
(* and close them after it; calls may overlap.                             *)
TerminateSocket(c) ==
  /\ AdminCalls
  /\ c \in clients
  /\ kicking' = kicking \cup {c}
  /\ UNCHANGED <<registry, channels, channelSubs, broker, subscribed, userID, conn, pc,
                 locals, ops, view, notices>>

TerminateUser(u) ==
  /\ AdminCalls
  /\ clientsByUser[u] # {}
  /\ kicking' = kicking \cup clientsByUser[u]
  /\ UNCHANGED <<registry, channels, channelSubs, broker, subscribed, userID, conn, pc,
                 locals, ops, view, notices>>

(* Faulty: the error message is sent but the context is not cancelled.     *)
OnlyWarnKicked(c) ==
  /\ c \in kicking
  /\ kicking' = kicking \ {c}
  /\ UNCHANGED <<registry, channels, channelSubs, broker, subscribed, userID, conn, pc,
                 locals, ops, view, notices>>

CloseKicked(c) ==
  /\ c \in kicking
  /\ kicking' = kicking \ {c}
  /\ conn' = [conn EXCEPT ![c] = "closed"]
  /\ UNCHANGED <<registry, channels, channelSubs, broker, subscribed, userID, pc, locals,
                 ops, view, notices>>

----------------------------------------------------------------------------
SubscribeStep(c) ==
  \/ Join(c) \/ OpenSubscription(c) \/ StoreSubscription(c)
  \/ AddPresenceMember(c) \/ GetPresenceMembers(c) \/ SendSucceeded(c)
  \/ CastAdded(c) \/ SendAdded(c) \/ NotifyAdded(c)
  \/ ReadOccupancyAfterJoin(c) \/ NotifyOccupied(c)

UnsubscribeStep(c) ==
  \/ Leave(c) \/ RemovePresenceMember(c)
  \/ CastRemoved(c) \/ SendRemoved(c) \/ NotifyRemoved(c)
  \/ ReadOccupancyAfterLeave(c) \/ NotifyVacated(c)

UnregisterStep(c) == Unregister(c) \/ UnregisterNext(c) \/ UnregisterDone(c)

(* What a goroutine does by itself, without input from its peer.           *)
Advance(c) == SubscribeStep(c) \/ UnsubscribeStep(c) \/ UnregisterStep(c)

Command(c) ==
  \/ RefuseSubscribe(c)
  \/ \E k \in Channels : SubscribePlain(c, k) \/ UnsubscribeCommand(c, k)
  \/ \E k \in Presence, u \in Identities[c] : SubscribePresence(c, k, u)

(* Every connection has come and gone.                                     *)
AllGone ==
  /\ \A c \in Clients : pc[c] = "gone"
  /\ kicking = {}
  /\ UNCHANGED vars

Next ==
  \/ \E c \in Clients : \/ Register(c) \/ Command(c) \/ Advance(c) \/ Drop(c)
                        \/ TerminateSocket(c) \/ CloseKicked(c)
  \/ \E u \in Users : TerminateUser(u)
  \/ AllGone

(* The Go scheduler runs every goroutine that can run; that its lock and   *)
(* broker calls return is the assumption MemoryBroker examines.            *)
Fairness == \A c \in Clients : WF_vars(Advance(c)) /\ WF_vars(CloseKicked(c))

Spec == Init /\ [][Next]_vars

FairSpec == Spec /\ Fairness

----------------------------------------------------------------------------
(* The abstract view of the broker subscriptions.                          *)

(* The goroutines between finding a channel without local subscribers and  *)
(* filing the broker subscription they open for it.                        *)
Opening(k) == {c \in Clients : ch[c] = k /\ pc[c] \in {"open", "store"}}

LeaseState(k) == IF channels[k] = {} THEN "none"
                 ELSE IF k \in channelSubs THEN "open" ELSE "opening"

Lease == INSTANCE TopicLease WITH
           Holder <- Clients, Topic <- Channels,
           holders <- channels,
           lease <- [k \in Channels |-> LeaseState(k)],
           opener <- [k \in Channels |-> Opening(k)],
           live <- brokerSubs

(* hub.go:111-270, 425-452: the registry and its broker subscriptions      *)
(* implement TopicLease: nobody leaves a channel it is opening the         *)
(* subscription of, and the last one to leave finds it filed and closes it.*)
ImplementsLease == Lease!LeaseSpec

----------------------------------------------------------------------------
(* Safety.                                                                 *)

(* hub.go:169-182, 258-270 and 425-436: the decision to open the broker    *)
(* subscription, the opening and the filing are three steps.  However they *)
(* interleave with other joins and leaves, a channel with local            *)
(* subscribers has one live broker subscription once nobody is opening it  *)
(* (no event from other nodes is missed), never two (each event would be   *)
(* relayed twice), and one without subscribers has none (no leak).         *)
OneSubscriptionPerChannel ==
  \A k \in Channels :
    /\ brokerSubs[k] <= 1
    /\ channels[k] = {} => brokerSubs[k] = 0 /\ k \notin channelSubs
    /\ channels[k] # {} /\ Opening(k) = {} =>
         brokerSubs[k] = 1 /\ k \in channelSubs

(* hub.go:170-186 and 258-274: the hub's registry, the client's own set    *)
(* and the broker's presence table are written in different steps.         *)
(* Whenever a client is not in the middle of an operation on a presence    *)
(* channel, the three agree about it.                                      *)
PresenceFollowsMembership ==
  \A c \in Clients, k \in Presence :
    ch[c] # k => /\ (presence[k][c] # NoUser) = (c \in channels[k])
                 /\ (c \in channels[k]) = (k \in subscribed[c])

(* hub.go:79-109 and 255-309: when ReadPump has returned, the registry of  *)
(* sockets, the channels, the presence tables and the socket's own set do  *)
(* not name it any more.  The user index may (hub.go:89-97 cleans one      *)
(* entry of it), but only under user_ids the socket once presented and     *)
(* gave up for another: never under its last one, and under none at all if *)
(* it kept to one.                                                         *)
GoneIsForgotten ==
  \A c \in Clients : pc[c] = "gone" =>
    /\ c \notin clients /\ subscribed[c] = {}
    /\ \A k \in Channels : c \notin channels[k]
    /\ \A k \in Presence : presence[k][c] = NoUser
    /\ \A u \in Users : c \in clientsByUser[u] =>
         userID[c] # NoUser /\ u \in Identities[c] \ {userID[c]}

(* hub.go:155-163 and 470-489: a socket present as some user is one that   *)
(* TerminateUser for that user finds, whatever the socket did since,       *)
(* unless it is already being unregistered.                                *)
PresentUserCanBeKicked ==
  \A c \in clients, k \in Presence :
    presence[k][c] # NoUser => c \in clientsByUser[presence[k][c]]

(* Nobody is in the middle of an operation on channel k.                   *)
Settled(k) == \A c \in Clients : ch[c] # k

(* hub.go:246-252 and 302-308: the occupancy is read in one step and the   *)
(* webhook sent in a later one.  A presence channel that ended up empty    *)
(* was never left announced as occupied.                                   *)
EmptyIsNotAnnouncedOccupied ==
  \A k \in Presence :
    Settled(k) /\ PresentSockets(k) = {} => lastOcc[k] # "occupied"

(* hub.go:233-240 and 272-298: a user none of whose sockets is left in a   *)
(* presence channel was last announced as removed.  (True when a client    *)
(* keeps to one user_id; the note on user_id switches is in the README.)   *)
AbsentUserIsAnnouncedRemoved ==
  \A k \in Presence, u \in Users :
    Settled(k) /\ u \notin PresentUsers(k) => lastMember[k][u] # "added"

----------------------------------------------------------------------------
(* Liveness, under FairSpec.                                               *)

(* client.go:141-145, hub.go:79-109: a connection whose context is         *)
(* cancelled ends up in no registry, whatever it was doing.                *)
ClosedIsForgotten ==
  \A c \in Clients : conn[c] = "closed" ~> pc[c] = "gone"

(* hub.go:455-490: whoever a Terminate call found is gone in the end.      *)
KickedIsForgotten ==
  \A c \in Clients : c \in kicking ~> pc[c] = "gone"

----------------------------------------------------------------------------
(* What the documentation says and the code does not do.                   *)

(* docs/api/webhooks.md:16: channel_occupied is sent when the first client *)
(* subscribes to an empty channel: a presence channel with members and     *)
(* nobody in the middle of anything has been announced.                    *)
OccupiedIsAnnounced ==
  \A k \in Presence :
    Settled(k) /\ PresentSockets(k) # {} => lastOcc[k] # "none"
=============================================================================
