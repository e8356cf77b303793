----------------------------- MODULE HubProofs -----------------------------
(***************************************************************************)
(* Proofs about Hub, for every set of clients, channels and users.         *)
(*                                                                         *)
(* The invariants TLC checks are not inductive by themselves.              *)
(*   Subscriptions: they hold because a connection's operations run one    *)
(*     after the other, and that is what Placed and LeaseInv record, by    *)
(*     saying where each goroutine is (IInv).                              *)
(*   Members: the hub's registry, the client's own set and the broker's    *)
(*     presence table are written in different steps.  They agree again    *)
(*     when the steps are over because only the client's own goroutine     *)
(*     writes what concerns it: Mine(c) says what it has written so far at *)
(*     each point, and no step of another client disturbs it (MineInv).    *)
(*   Announcements: what the webhooks have said is right in the end        *)
(*     because whoever makes an announcement stale is on the way to the    *)
(*     next one (OccupancyInv, MemberInv).                                 *)
(***************************************************************************)
EXTENDS Hub, FiniteSetTheorems, TLAPS

----------------------------------------------------------------------------
(* Broker subscriptions.                                                   *)

PresencePCs ==
  {"add", "members", "greet", "castAdded", "sendAdded",
   "remove", "castRemoved", "sendRemoved"}

(* A goroutine works on a channel exactly while it is in an operation, and *)
(* a subscription to a presence channel is on behalf of a user.            *)
Placed ==
  \A c \in Clients :
    /\ pc[c] \in PresencePCs => ch[c] \in Presence
    /\ pc[c] \in SubscribePCs \cup UnsubscribePCs => ch[c] \in Channels
    /\ pc[c] \in SubscribePCs /\ ch[c] \in Presence => who[c] \in Users
    /\ pc[c] \in {"new", "idle", "drain", "gone"} => ch[c] = NoChannel

(* What is known of a channel's subscription at each stage of its life.    *)
LeaseInv ==
  /\ \A c \in Clients : pc[c] \in {"open", "store"} =>
       /\ c \in channels[ch[c]]
       /\ ch[c] \notin channelSubs
       /\ brokerSubs[ch[c]] = IF pc[c] = "open" THEN 0 ELSE 1
  /\ \A c, d \in Clients :
       pc[c] \in {"open", "store"} /\ pc[d] \in {"open", "store"} /\ ch[c] = ch[d]
         => c = d
  /\ \A k \in Channels :
       /\ channels[k] = {} => k \notin channelSubs /\ brokerSubs[k] = 0
       /\ k \in channelSubs => brokerSubs[k] = 1
       /\ channels[k] # {} /\ k \notin channelSubs => Opening(k) # {}

IInv == TypeOK /\ Placed /\ LeaseInv

(* The steps that touch neither the channel registry nor its              *)
(* subscriptions, nor enter or leave the opening of one.                   *)
LeaseUntouched ==
  /\ UNCHANGED <<channels, channelSubs, brokerSubs>>
  /\ \A c \in Clients :
       \/ pc'[c] = pc[c] /\ ch'[c] = ch[c]
       \/ pc[c] \notin {"open", "store"} /\ pc'[c] \notin {"open", "store"}

USE ChannelKinds, UserAssumption, BoundsAssumption

(* Initially everything is empty and every goroutine is at its start.      *)
LEMMA InitIInv == Init => IInv
<1> SUFFICES ASSUME Init PROVE IInv
  OBVIOUS
<1>1. TypeOK
  BY DEF Init, TypeOK, Channels, PCs
<1>2. Placed
  BY DEF Init, Placed, SubscribePCs, UnsubscribePCs, PresencePCs
<1>3. LeaseInv
  BY DEF Init, LeaseInv
<1> QED
  BY <1>1, <1>2, <1>3 DEF IInv

(* A step that leaves channels, subscriptions and openings alone keeps what *)
(* is known of them.                                                       *)
LEMMA UntouchedLease ==
  ASSUME TypeOK, LeaseInv, LeaseUntouched
  PROVE  LeaseInv'
<1> USE DEF LeaseUntouched
<1>1. \A k \in Channels : Opening(k)' = Opening(k)
  BY DEF Opening
<1>2. \A c \in Clients : pc'[c] \in {"open", "store"} =>
        pc[c] = pc'[c] /\ ch[c] = ch'[c]
  OBVIOUS
<1>3. \A c \in Clients : pc'[c] \in {"open", "store"} =>
        /\ c \in channels'[ch'[c]]
        /\ ch'[c] \notin channelSubs'
        /\ brokerSubs'[ch'[c]] = IF pc'[c] = "open" THEN 0 ELSE 1
  BY <1>2 DEF LeaseInv
<1>4. \A c, d \in Clients :
        /\ pc'[c] \in {"open", "store"} /\ pc'[d] \in {"open", "store"}
        /\ ch'[c] = ch'[d]
        => c = d
  BY <1>2 DEF LeaseInv
<1>5. \A k \in Channels :
        /\ channels'[k] = {} => k \notin channelSubs' /\ brokerSubs'[k] = 0
        /\ k \in channelSubs' => brokerSubs'[k] = 1
        /\ channels'[k] # {} /\ k \notin channelSubs' => Opening(k)' # {}
  BY <1>1 DEF LeaseInv
<1> QED
  BY <1>3, <1>4, <1>5 DEF LeaseInv

USE DEF Goto, Return, Joining, Leaving, registry, broker, locals, notices

(* Every step takes its goroutine to a point that fits its channel.        *)
LEMMA PlacedStep ==
  ASSUME TypeOK, Placed, [Next]_vars
  PROVE  Placed'
<1> USE DEF Placed, TypeOK, PCs, SubscribePCs, UnsubscribePCs, PresencePCs, Channels,
            Receive, AfterJoin
<1>1. CASE UNCHANGED vars
  BY <1>1 DEF vars
<1>2. ASSUME NEW c \in Clients, SubscribeStep(c) PROVE Placed'
  BY <1>2 DEF SubscribeStep, Join, OpenSubscription, StoreSubscription,
     AddPresenceMember, GetPresenceMembers, SendSucceeded, CastAdded, SendAdded,
     NotifyAdded, ReadOccupancyAfterJoin, NotifyOccupied
<1>3. ASSUME NEW c \in Clients, UnsubscribeStep(c) PROVE Placed'
  BY <1>3 DEF UnsubscribeStep, Leave, RemovePresenceMember, CastRemoved,
     SendRemoved, NotifyRemoved, ReadOccupancyAfterLeave, NotifyVacated
<1>4. ASSUME NEW c \in Clients, UnregisterStep(c) PROVE Placed'
  BY <1>4 DEF UnregisterStep, Unregister, UnregisterNext, UnregisterDone
<1>5. ASSUME NEW c \in Clients, Command(c) PROVE Placed'
  BY <1>5 DEF Command, RefuseSubscribe, SubscribePlain, SubscribePresence, UnsubscribeCommand
<1>6. ASSUME NEW c \in Clients,
             Register(c) \/ Drop(c) \/ TerminateSocket(c) \/ CloseKicked(c)
      PROVE  Placed'
  BY <1>6 DEF Register, Drop, TerminateSocket, CloseKicked
<1>7. ASSUME NEW u \in Users, TerminateUser(u) PROVE Placed'
  BY <1>7 DEF TerminateUser
<1> QED
  BY <1>1, <1>2, <1>3, <1>4, <1>5, <1>6, <1>7 DEF Next, Advance, AllGone

(* Every step keeps the types.                                             *)
LEMMA TypeStep ==
  ASSUME TypeOK, Placed, LeaseInv, [Next]_vars
  PROVE  TypeOK'
<1> USE DEF TypeOK, PCs, SubscribePCs, UnsubscribePCs, Channels, AfterJoin
<1>1. CASE UNCHANGED vars
  BY <1>1 DEF vars
<1>2. ASSUME NEW c \in Clients, Leave(c) PROVE TypeOK'
  <2>1. ch[c] \in Channels
    BY <1>2 DEF Leave, Placed
  <2>2. brokerSubs' \in [Channels -> Nat]
    <3>1. CASE channels[ch[c]] = {c} /\ ch[c] \in channelSubs
      <4>1. brokerSubs[ch[c]] = 1
        BY <2>1, <3>1 DEF LeaseInv
      <4> QED
        BY <1>2, <3>1, <4>1 DEF Leave
    <3>2. CASE ~(channels[ch[c]] = {c} /\ ch[c] \in channelSubs)
      BY <1>2, <3>2 DEF Leave
    <3> QED
      BY <3>1, <3>2
  <2> QED
    BY <1>2, <2>1, <2>2 DEF Leave
<1>3. ASSUME NEW c \in Clients, GetPresenceMembers(c) PROVE TypeOK'
  <2>1. PresentUsers(ch[c]) \subseteq Users
    BY <1>3 DEF GetPresenceMembers, PresentUsers, PresentSockets, Placed, PresencePCs
  <2> QED
    BY <1>3, <2>1 DEF GetPresenceMembers
<1>4. ASSUME NEW c \in Clients, RemovePresenceMember(c) PROVE TypeOK'
  <2>1. ch[c] \in Presence
    BY <1>4 DEF RemovePresenceMember, Placed, PresencePCs
  <2> QED
    BY <1>4, <2>1 DEF RemovePresenceMember
<1>5. ASSUME NEW c \in Clients, CastAdded(c) \/ CastRemoved(c) PROVE TypeOK'
  <2>1. Recipients(ch[c], c) \subseteq Clients
    BY <1>5 DEF CastAdded, CastRemoved, Recipients, Placed, PresencePCs
  <2>2. rcpts' = [rcpts EXCEPT ![c] = Recipients(ch[c], c)]
    BY <1>5 DEF CastAdded, CastRemoved
  <2>3. rcpts' \in [Clients -> SUBSET Clients]
    BY <2>1, <2>2
  <2>4. CASE CastAdded(c)
    BY <2>3, <2>4 DEF CastAdded
  <2>5. CASE CastRemoved(c)
    BY <2>3, <2>5 DEF CastRemoved
  <2> QED
    BY <1>5, <2>4, <2>5
<1>6. ASSUME NEW c \in Clients, SubscribeStep(c) PROVE TypeOK'
  <2>1. CASE Join(c)
    <3>1. ch[c] \in Channels
      BY <2>1 DEF Join, Placed
    <3>2. /\ subscribed' \in [Clients -> SUBSET Channels]
          /\ channels' \in [Channels -> SUBSET Clients]
      BY <2>1, <3>1 DEF Join
    <3>3. pc' \in [Clients -> PCs]
      BY <2>1 DEF Join
    <3> QED
      BY <2>1, <3>2, <3>3 DEF Join
  <2>2. CASE OpenSubscription(c)
    <3>1. ch[c] \in Channels
      BY <2>2 DEF OpenSubscription, Placed
    <3>2. brokerSubs' \in [Channels -> Nat]
      BY <2>2, <3>1 DEF OpenSubscription
    <3> QED
      BY <2>2, <3>2 DEF OpenSubscription
  <2>3. CASE StoreSubscription(c)
    <3>1. ch[c] \in Channels
      BY <2>3 DEF StoreSubscription, Placed
    <3>2. channelSubs' \in SUBSET Channels
      BY <2>3, <3>1 DEF StoreSubscription
    <3> QED
      BY <2>3, <3>2 DEF StoreSubscription
  <2>4. CASE AddPresenceMember(c)
    BY <2>4 DEF AddPresenceMember
  <2>5. CASE SendSucceeded(c)
    BY <2>5 DEF SendSucceeded
  <2>6. CASE SendAdded(c)
    <3>1. PICK d \in rcpts[c] :
            /\ view' = [view EXCEPT ![d][ch[c]] = @ \cup {who[c]}]
            /\ rcpts' = [rcpts EXCEPT ![c] = @ \ {d}]
      BY <2>6 DEF SendAdded
    <3>2. ch[c] \in Presence
      BY <2>6 DEF SendAdded, Placed, PresencePCs
    <3>3. view' \in [Clients -> [Presence -> SUBSET Users]]
      BY <2>6, <3>1, <3>2 DEF SendAdded, Placed
    <3>4. rcpts' \in [Clients -> SUBSET Clients]
      BY <3>1
    <3> QED
      BY <2>6, <3>3, <3>4 DEF SendAdded
  <2>7. CASE NotifyAdded(c)
    BY <2>7 DEF NotifyAdded
  <2>8. CASE ReadOccupancyAfterJoin(c)
    BY <2>8 DEF ReadOccupancyAfterJoin
  <2>9. CASE NotifyOccupied(c)
    BY <2>9 DEF NotifyOccupied
  <2> QED
    BY <1>6, <2>1, <2>2, <2>3, <2>4, <2>5, <2>6, <2>7, <2>8, <2>9, <1>3, <1>5 DEF SubscribeStep
<1>7. ASSUME NEW c \in Clients, UnsubscribeStep(c) PROVE TypeOK'
  <2>1. CASE SendRemoved(c)
    <3>1. PICK d \in rcpts[c] :
            /\ view' = [view EXCEPT ![d][ch[c]] = @ \ {who[c]}]
            /\ rcpts' = [rcpts EXCEPT ![c] = @ \ {d}]
      BY <2>1 DEF SendRemoved
    <3>2. ch[c] \in Presence
      BY <2>1 DEF SendRemoved, Placed, PresencePCs
    <3>3. view' \in [Clients -> [Presence -> SUBSET Users]]
      BY <2>1, <3>1, <3>2 DEF SendRemoved, Placed
    <3>4. rcpts' \in [Clients -> SUBSET Clients]
      BY <3>1
    <3> QED
      BY <2>1, <3>3, <3>4 DEF SendRemoved
  <2>2. CASE NotifyRemoved(c)
    BY <2>2 DEF NotifyRemoved
  <2>3. CASE ReadOccupancyAfterLeave(c)
    BY <2>3 DEF ReadOccupancyAfterLeave
  <2>4. CASE NotifyVacated(c)
    BY <2>4 DEF NotifyVacated
  <2> QED
    BY <1>7, <2>1, <2>2, <2>3, <2>4, <1>2, <1>4, <1>5 DEF UnsubscribeStep
<1>8. ASSUME NEW c \in Clients, UnregisterStep(c) PROVE TypeOK'
  <2>1. CASE Unregister(c)
    BY <2>1 DEF Unregister
  <2>2. CASE UnregisterNext(c)
    BY <2>2 DEF UnregisterNext
  <2>3. CASE UnregisterDone(c)
    BY <2>3 DEF UnregisterDone
  <2> QED
    BY <1>8, <2>1, <2>2, <2>3 DEF UnregisterStep
<1>9. ASSUME NEW c \in Clients, Command(c) PROVE TypeOK'
  <2>1. CASE RefuseSubscribe(c)
    BY <2>1 DEF RefuseSubscribe, Receive
  <2>2. ASSUME NEW k \in Channels, SubscribePlain(c, k) PROVE TypeOK'
    BY <2>2 DEF SubscribePlain, Receive
  <2>3. ASSUME NEW k \in Channels, UnsubscribeCommand(c, k) PROVE TypeOK'
    BY <2>3 DEF UnsubscribeCommand, Receive
  <2>4. ASSUME NEW k \in Presence, NEW u \in Identities[c], SubscribePresence(c, k, u)
       PROVE  TypeOK'
    BY <2>4 DEF SubscribePresence, Receive
  <2> QED
    BY <1>9, <2>1, <2>2, <2>3, <2>4 DEF Command
<1>10. ASSUME NEW c \in Clients, Register(c) PROVE TypeOK'
  BY <1>10 DEF Register
<1>11. ASSUME NEW c \in Clients, Drop(c) PROVE TypeOK'
  BY <1>11 DEF Drop
<1>12. ASSUME NEW c \in Clients, TerminateSocket(c) PROVE TypeOK'
  BY <1>12 DEF TerminateSocket
<1>13. ASSUME NEW c \in Clients, CloseKicked(c) PROVE TypeOK'
  BY <1>13 DEF CloseKicked
<1>14. ASSUME NEW u \in Users, TerminateUser(u) PROVE TypeOK'
  BY <1>14 DEF TerminateUser
<1> QED
  BY <1>1, <1>6, <1>7, <1>8, <1>9, <1>10, <1>11, <1>12, <1>13, <1>14
     DEF Next, Advance, AllGone

(* The first subscriber of a channel finds it without a subscription and   *)
(* becomes the only one to open it; later ones change nothing.             *)
LEMMA JoinLease ==
  ASSUME TypeOK, Placed, LeaseInv, NEW c \in Clients, Join(c)
  PROVE  LeaseInv'
<1> DEFINE k == ch[c]
<1>1. k \in Channels /\ pc[c] = "join"
  BY DEF Join, Placed, SubscribePCs
<1>2. /\ channels' = [channels EXCEPT ![k] = @ \cup {c}]
      /\ pc' = [pc EXCEPT ![c] = IF channels[k] = {} THEN "open" ELSE AfterJoin(k)]
      /\ UNCHANGED <<ch, channelSubs, brokerSubs>>
  BY DEF Join
<1>3. AfterJoin(k) \in {"add", "occSub"}
  BY DEF AfterJoin
<1>4. \A d \in Clients : d # c => pc'[d] = pc[d]
  BY <1>2 DEF TypeOK
<1>5. pc'[c] \in {"open", "store"} => channels[k] = {} /\ pc'[c] = "open"
  BY <1>2, <1>3 DEF TypeOK
<1>6. c \in channels'[k] /\ \A j \in Channels : channels[j] \subseteq channels'[j]
  BY <1>1, <1>2 DEF TypeOK
<1>7. \A d \in Clients : pc[d] \in {"open", "store"} => ch[d] \in Channels
  BY DEF Placed, SubscribePCs
<1>8. \A d \in Clients : pc'[d] \in {"open", "store"} =>
        /\ d \in channels'[ch'[d]]
        /\ ch'[d] \notin channelSubs'
        /\ brokerSubs'[ch'[d]] = IF pc'[d] = "open" THEN 0 ELSE 1
  BY <1>1, <1>2, <1>4, <1>5, <1>6, <1>7 DEF LeaseInv
<1>9. \A d, e \in Clients :
        /\ pc'[d] \in {"open", "store"} /\ pc'[e] \in {"open", "store"}
        /\ ch'[d] = ch'[e]
        => d = e
  BY <1>1, <1>2, <1>4, <1>5 DEF LeaseInv
<1>10. ASSUME NEW j \in Channels
       PROVE  /\ channels'[j] = {} => j \notin channelSubs' /\ brokerSubs'[j] = 0
              /\ j \in channelSubs' => brokerSubs'[j] = 1
              /\ channels'[j] # {} /\ j \notin channelSubs' => Opening(j)' # {}
  <2>1. CASE j = k /\ channels[k] = {}
    <3>1. c \in Opening(k)'
      BY <1>1, <1>2, <2>1 DEF Opening, TypeOK
    <3> QED
      BY <1>2, <1>6, <2>1, <3>1 DEF LeaseInv
  <2>2. CASE ~(j = k /\ channels[k] = {})
    <3>1. Opening(j) \subseteq Opening(j)'
      BY <1>1, <1>2, <1>4 DEF Opening
    <3>2. channels'[j] = {} <=> channels[j] = {}
      BY <1>1, <1>2, <1>6, <2>2 DEF TypeOK
    <3> QED
      BY <1>2, <3>1, <3>2 DEF LeaseInv
  <2> QED
    BY <2>1, <2>2
<1> QED
  BY <1>8, <1>9, <1>10 DEF LeaseInv

(* Opening the subscription moves its opener from "open" to "store".       *)
LEMMA OpenLease ==
  ASSUME TypeOK, Placed, LeaseInv, NEW c \in Clients, OpenSubscription(c)
  PROVE  LeaseInv'
<1> DEFINE k == ch[c]
<1>1. k \in Channels /\ pc[c] = "open"
  BY DEF OpenSubscription, Placed, SubscribePCs
<1>2. /\ brokerSubs' = [brokerSubs EXCEPT ![k] = @ + 1]
      /\ pc' = [pc EXCEPT ![c] = "store"]
      /\ UNCHANGED <<ch, channels, channelSubs>>
  BY DEF OpenSubscription
<1>3. brokerSubs[k] = 0 /\ k \notin channelSubs /\ c \in channels[k]
  BY <1>1 DEF LeaseInv
<1>4. \A d \in Clients : d # c => pc'[d] = pc[d]
  BY <1>2 DEF TypeOK
<1>5. pc'[c] = "store"
  BY <1>2 DEF TypeOK
<1>6. brokerSubs'[k] = 1 /\ \A j \in Channels : j # k => brokerSubs'[j] = brokerSubs[j]
  BY <1>1, <1>2, <1>3 DEF TypeOK
<1>7. \A d \in Clients : pc[d] \in {"open", "store"} => ch[d] \in Channels
  BY DEF Placed, SubscribePCs
<1>8. \A d \in Clients : pc'[d] \in {"open", "store"} =>
        /\ d \in channels'[ch'[d]]
        /\ ch'[d] \notin channelSubs'
        /\ brokerSubs'[ch'[d]] = IF pc'[d] = "open" THEN 0 ELSE 1
  BY <1>1, <1>2, <1>3, <1>4, <1>5, <1>6, <1>7 DEF LeaseInv
<1>9. \A d, e \in Clients :
        /\ pc'[d] \in {"open", "store"} /\ pc'[e] \in {"open", "store"}
        /\ ch'[d] = ch'[e]
        => d = e
  BY <1>1, <1>2, <1>4, <1>5 DEF LeaseInv
<1>10. \A j \in Channels : Opening(j)' = Opening(j)
  BY <1>1, <1>2, <1>4, <1>5 DEF Opening
<1>11. \A j \in Channels :
        /\ channels'[j] = {} => j \notin channelSubs' /\ brokerSubs'[j] = 0
        /\ j \in channelSubs' => brokerSubs'[j] = 1
        /\ channels'[j] # {} /\ j \notin channelSubs' => Opening(j)' # {}
  BY <1>2, <1>3, <1>6, <1>10 DEF LeaseInv
<1> QED
  BY <1>8, <1>9, <1>11 DEF LeaseInv

(* Filing it ends the opening.                                             *)
LEMMA StoreLease ==
  ASSUME TypeOK, Placed, LeaseInv, NEW c \in Clients, StoreSubscription(c)
  PROVE  LeaseInv'
<1> DEFINE k == ch[c]
<1>1. k \in Channels /\ pc[c] = "store"
  BY DEF StoreSubscription, Placed, SubscribePCs
<1>2. /\ channelSubs' = channelSubs \cup {k}
      /\ pc' = [pc EXCEPT ![c] = AfterJoin(k)]
      /\ UNCHANGED <<ch, channels, brokerSubs>>
  BY DEF StoreSubscription
<1>3. brokerSubs[k] = 1 /\ c \in channels[k]
  BY <1>1 DEF LeaseInv
<1>4. \A d \in Clients : d # c => pc'[d] = pc[d]
  BY <1>2 DEF TypeOK
<1>5. pc'[c] \notin {"open", "store"}
  BY <1>2 DEF TypeOK, AfterJoin
<1>6. \A d \in Clients : pc[d] \in {"open", "store"} /\ d # c => ch[d] # k
  BY <1>1 DEF LeaseInv
<1>7. \A d \in Clients : pc'[d] \in {"open", "store"} =>
        /\ d \in channels'[ch'[d]]
        /\ ch'[d] \notin channelSubs'
        /\ brokerSubs'[ch'[d]] = IF pc'[d] = "open" THEN 0 ELSE 1
  BY <1>1, <1>2, <1>4, <1>5, <1>6 DEF LeaseInv
<1>8. \A d, e \in Clients :
        /\ pc'[d] \in {"open", "store"} /\ pc'[e] \in {"open", "store"}
        /\ ch'[d] = ch'[e]
        => d = e
  BY <1>1, <1>2, <1>4, <1>5 DEF LeaseInv
<1>9. \A j \in Channels : j # k => Opening(j) \subseteq Opening(j)'
  BY <1>1, <1>2, <1>4 DEF Opening
<1>10. \A j \in Channels :
        /\ channels'[j] = {} => j \notin channelSubs' /\ brokerSubs'[j] = 0
        /\ j \in channelSubs' => brokerSubs'[j] = 1
        /\ channels'[j] # {} /\ j \notin channelSubs' => Opening(j)' # {}
  BY <1>1, <1>2, <1>3, <1>9 DEF LeaseInv
<1> QED
  BY <1>7, <1>8, <1>10 DEF LeaseInv

(* A client that leaves is not opening anything, so the last subscriber to *)
(* leave finds the subscription filed, and closes it.                      *)
LEMMA LeaveLease ==
  ASSUME TypeOK, Placed, LeaseInv, NEW c \in Clients, Leave(c)
  PROVE  LeaseInv'
<1> DEFINE k == ch[c]
<1>1. k \in Channels /\ pc[c] = "leave"
  BY DEF Leave, Placed, UnsubscribePCs
<1>2. /\ channels' = [channels EXCEPT ![k] = @ \ {c}]
      /\ pc' = [pc EXCEPT ![c] = IF k \in Presence THEN "remove" ELSE "occUnsub"]
      /\ UNCHANGED ch
  BY DEF Leave
<1>3. \A d \in Clients : d # c => pc'[d] = pc[d]
  BY <1>2 DEF TypeOK
<1>4. pc'[c] \notin {"open", "store"}
  BY <1>2 DEF TypeOK
<1>5. \A j \in Channels : Opening(j)' = Opening(j)
  BY <1>1, <1>2, <1>3, <1>4 DEF Opening
<1>6. \A d, e \in Clients :
        /\ pc'[d] \in {"open", "store"} /\ pc'[e] \in {"open", "store"}
        /\ ch'[d] = ch'[e]
        => d = e
  BY <1>2, <1>3, <1>4 DEF LeaseInv
<1>7. CASE channels[k] = {c}
  <2>1. \A d \in Clients : pc[d] \in {"open", "store"} => ch[d] # k
    BY <1>1, <1>7 DEF LeaseInv
  <2>2. k \in channelSubs /\ brokerSubs[k] = 1
    BY <1>1, <1>7, <2>1 DEF LeaseInv, Opening
  <2>3. /\ channelSubs' = channelSubs \ {k}
        /\ brokerSubs' = [brokerSubs EXCEPT ![k] = @ - 1]
    BY <1>7, <2>2 DEF Leave
  <2>4. brokerSubs'[k] = 0 /\ channels'[k] = {}
    BY <1>1, <1>2, <1>7, <2>2, <2>3 DEF TypeOK
  <2>5. \A j \in Channels : j # k => brokerSubs'[j] = brokerSubs[j] /\ channels'[j] = channels[j]
    BY <1>2, <2>3 DEF TypeOK
  <2>6. \A d \in Clients : pc[d] \in {"open", "store"} => ch[d] \in Channels
    BY DEF Placed, SubscribePCs
  <2>7. \A d \in Clients : pc'[d] \in {"open", "store"} =>
          /\ d \in channels'[ch'[d]]
          /\ ch'[d] \notin channelSubs'
          /\ brokerSubs'[ch'[d]] = IF pc'[d] = "open" THEN 0 ELSE 1
    BY <1>2, <1>3, <1>4, <2>1, <2>3, <2>5, <2>6 DEF LeaseInv
  <2>8. \A j \in Channels :
          /\ channels'[j] = {} => j \notin channelSubs' /\ brokerSubs'[j] = 0
          /\ j \in channelSubs' => brokerSubs'[j] = 1
          /\ channels'[j] # {} /\ j \notin channelSubs' => Opening(j)' # {}
    BY <1>5, <2>3, <2>4, <2>5 DEF LeaseInv
  <2> QED
    BY <1>6, <2>7, <2>8 DEF LeaseInv
<1>8. CASE channels[k] # {c}
  <2>1. UNCHANGED <<channelSubs, brokerSubs>>
    BY <1>8 DEF Leave
  <2>2. \A j \in Channels : channels'[j] = {} <=> channels[j] = {}
    BY <1>1, <1>2, <1>8 DEF TypeOK
  <2>3. \A d \in Clients : pc'[d] \in {"open", "store"} =>
          /\ d \in channels'[ch'[d]]
          /\ ch'[d] \notin channelSubs'
          /\ brokerSubs'[ch'[d]] = IF pc'[d] = "open" THEN 0 ELSE 1
    <3>1. \A d \in Clients : pc[d] \in {"open", "store"} => ch[d] \in Channels
      BY DEF Placed, SubscribePCs
    <3>2. \A d \in Clients, j \in Channels :
            d # c /\ d \in channels[j] => d \in channels'[j]
      BY <1>1, <1>2 DEF TypeOK
    <3> QED
      BY <1>2, <1>3, <1>4, <2>1, <3>1, <3>2 DEF LeaseInv
  <2>4. \A j \in Channels :
          /\ channels'[j] = {} => j \notin channelSubs' /\ brokerSubs'[j] = 0
          /\ j \in channelSubs' => brokerSubs'[j] = 1
          /\ channels'[j] # {} /\ j \notin channelSubs' => Opening(j)' # {}
    BY <1>5, <2>1, <2>2 DEF LeaseInv
  <2> QED
    BY <1>6, <2>3, <2>4 DEF LeaseInv
<1> QED
  BY <1>7, <1>8

(* The steps that leave channels and their subscriptions alone.            *)
LEMMA OtherStepsLease ==
  ASSUME TypeOK, [Next]_vars,
         \A c \in Clients : ~(\/ Join(c) \/ OpenSubscription(c)
                             \/ StoreSubscription(c) \/ Leave(c))
  PROVE  LeaseUntouched
<1> USE DEF LeaseUntouched, TypeOK
<1>1. CASE UNCHANGED vars
  BY <1>1 DEF vars
<1>2. ASSUME NEW c \in Clients, SubscribeStep(c) PROVE LeaseUntouched
  BY <1>2 DEF SubscribeStep, AddPresenceMember, GetPresenceMembers, SendSucceeded,
     CastAdded, SendAdded, NotifyAdded, ReadOccupancyAfterJoin, NotifyOccupied
<1>3. ASSUME NEW c \in Clients, UnsubscribeStep(c) PROVE LeaseUntouched
  BY <1>3 DEF UnsubscribeStep, RemovePresenceMember, CastRemoved,
     SendRemoved, NotifyRemoved, ReadOccupancyAfterLeave, NotifyVacated
<1>4. ASSUME NEW c \in Clients, UnregisterStep(c) PROVE LeaseUntouched
  BY <1>4 DEF UnregisterStep, Unregister, UnregisterNext, UnregisterDone
<1>5. ASSUME NEW c \in Clients, Command(c) PROVE LeaseUntouched
  BY <1>5 DEF Command, Receive, RefuseSubscribe, SubscribePlain, SubscribePresence,
     UnsubscribeCommand
<1>6. ASSUME NEW c \in Clients,
             Register(c) \/ Drop(c) \/ TerminateSocket(c) \/ CloseKicked(c)
      PROVE  LeaseUntouched
  BY <1>6 DEF Register, Drop, TerminateSocket, CloseKicked
<1>7. ASSUME NEW u \in Users, TerminateUser(u) PROVE LeaseUntouched
  BY <1>7 DEF TerminateUser
<1> QED
  BY <1>1, <1>2, <1>3, <1>4, <1>5, <1>6, <1>7 DEF Next, Advance, AllGone

(* The induction step: each action keeps each part of the invariant.       *)
LEMMA IInvStep == IInv /\ [Next]_vars => IInv'
<1> SUFFICES ASSUME TypeOK, Placed, LeaseInv, [Next]_vars PROVE IInv'
  BY DEF IInv
<1>1. TypeOK' /\ Placed'
  BY TypeStep, PlacedStep
<1>2. LeaseInv'
  <2>1. CASE \E c \in Clients : \/ Join(c) \/ OpenSubscription(c)
                               \/ StoreSubscription(c) \/ Leave(c)
    BY <2>1, JoinLease, OpenLease, StoreLease, LeaveLease
  <2>2. CASE \A c \in Clients : ~(\/ Join(c) \/ OpenSubscription(c)
                                 \/ StoreSubscription(c) \/ Leave(c))
    BY <2>2, OtherStepsLease, UntouchedLease
  <2> QED
    BY <2>1, <2>2
<1> QED
  BY <1>1, <1>2 DEF IInv

(* The inductive invariant holds of every behaviour.                       *)
THEOREM Invariant == Spec => []IInv
<1>1. Init => IInv
  BY InitIInv
<1>2. IInv /\ [Next]_vars => IInv'
  BY IInvStep
<1> QED
  BY <1>1, <1>2, PTL DEF Spec

(* Every variable of the hub keeps its type: in particular the number of   *)
(* live broker subscriptions never drops below zero.                       *)
THEOREM TypeCorrect == Spec => []TypeOK
<1>1. IInv => TypeOK
  BY DEF IInv
<1> QED
  BY <1>1, Invariant, PTL

(* However joins, leaves, openings and closings interleave, a channel with *)
(* local subscribers has exactly one broker subscription once nobody is    *)
(* opening it, and a channel without any has none (hub.go:169-182,         *)
(* 258-270, 425-436).                                                      *)
THEOREM SubscriptionsBacked == Spec => []OneSubscriptionPerChannel
<1>1. ASSUME IInv PROVE OneSubscriptionPerChannel
  <2> SUFFICES ASSUME NEW k \in Channels
               PROVE  /\ brokerSubs[k] <= 1
                      /\ channels[k] = {} => brokerSubs[k] = 0 /\ k \notin channelSubs
                      /\ channels[k] # {} /\ Opening(k) = {} =>
                           brokerSubs[k] = 1 /\ k \in channelSubs
    BY DEF OneSubscriptionPerChannel
  <2>1. CASE channels[k] = {} \/ k \in channelSubs
    BY <1>1, <2>1 DEF IInv, LeaseInv
  <2>2. CASE channels[k] # {} /\ k \notin channelSubs
    <3>1. PICK c \in Opening(k) : TRUE
      BY <1>1, <2>2 DEF IInv, LeaseInv
    <3>2. brokerSubs[k] = IF pc[c] = "open" THEN 0 ELSE 1
      BY <1>1, <3>1 DEF IInv, LeaseInv, Opening
    <3> QED
      BY <2>2, <3>1, <3>2
  <2> QED
    BY <2>1, <2>2
<1>2. IInv => OneSubscriptionPerChannel
  BY <1>1
<1> QED
  BY <1>2, Invariant, PTL

----------------------------------------------------------------------------
(* The refinement of TopicLease.                                           *)

USE DEF Lease!HoldFirst, Lease!Hold, Lease!Acquire, Lease!Grant, Lease!Release,
        Lease!ReleaseLast

(* With no subscriber anywhere, every lease is "none".                     *)
LEMMA LeaseStart == Init => Lease!LeaseInit
<1> SUFFICES ASSUME Init PROVE Lease!LeaseInit
  OBVIOUS
<1>1. \A k \in Channels : LeaseState(k) = "none" /\ Opening(k) = {}
  BY DEF Init, LeaseState, Opening
<1> QED
  BY <1>1 DEF Init, Lease!LeaseInit

(* An untouched registry is a stutter of the abstract specification.       *)
LEMMA LeaseStutter ==
  ASSUME LeaseUntouched
  PROVE  UNCHANGED Lease!leaseVars
<1>1. \A k \in Channels : Opening(k)' = Opening(k)
  BY DEF LeaseUntouched, Opening
<1>2. \A k \in Channels : LeaseState(k)' = LeaseState(k)
  BY DEF LeaseUntouched, LeaseState
<1> QED
  BY <1>1, <1>2 DEF Lease!leaseVars, LeaseUntouched

(* A join is HoldFirst when the channel had no subscriber, else Hold.      *)
LEMMA JoinHolds ==
  ASSUME IInv, NEW c \in Clients, Join(c)
  PROVE  Lease!HoldFirst(c, ch[c]) \/ Lease!Hold(c, ch[c])
<1> DEFINE k == ch[c]
<1> USE DEF IInv
<1>1. k \in Channels /\ pc[c] = "join"
  BY DEF Join, Placed, SubscribePCs
<1>2. /\ channels' = [channels EXCEPT ![k] = @ \cup {c}]
      /\ pc' = [pc EXCEPT ![c] = IF channels[k] = {} THEN "open" ELSE AfterJoin(k)]
      /\ UNCHANGED <<ch, channelSubs, brokerSubs>>
  BY DEF Join
<1>3. \A d \in Clients : d # c => pc'[d] = pc[d]
  BY <1>2 DEF TypeOK
<1>4. \A j \in Channels : j # k => Opening(j)' = Opening(j) /\ LeaseState(j)' = LeaseState(j)
  BY <1>1, <1>2, <1>3 DEF Opening, LeaseState, TypeOK
<1>5. CASE channels[k] = {}
  <2>1. pc'[c] = "open"
    BY <1>2, <1>5 DEF TypeOK
  <2>2. LeaseState(k) = "none"
    BY <1>5 DEF LeaseState
  <2>3. channels'[k] = {c} /\ k \notin channelSubs'
    BY <1>1, <1>2, <1>5 DEF TypeOK, LeaseInv
  <2>4. LeaseState(k)' = "opening"
    BY <1>2, <2>3 DEF LeaseState
  <2>5. \A d \in Clients : pc[d] \in {"open", "store"} => ch[d] # k
    BY <1>1, <1>5 DEF LeaseInv
  <2>6. Opening(k)' = {c}
    BY <1>1, <1>2, <1>3, <2>1, <2>5 DEF Opening
  <2>7. [j \in Channels |-> LeaseState(j)]' =
          [[j \in Channels |-> LeaseState(j)] EXCEPT ![k] = "opening"]
    BY <1>1, <1>2, <1>4, <2>4
  <2>8. [j \in Channels |-> Opening(j)]' =
          [[j \in Channels |-> Opening(j)] EXCEPT ![k] = {c}]
    BY <1>1, <1>2, <1>4, <2>6
  <2>9. channels' = [channels EXCEPT ![k] = {c}]
    BY <1>2, <1>5 DEF TypeOK
  <2> QED
    BY <1>1, <1>2, <2>2, <2>7, <2>8, <2>9
<1>6. CASE channels[k] # {}
  <2>1. pc'[c] \notin {"open", "store"}
    BY <1>2, <1>6 DEF TypeOK, AfterJoin
  <2>2. Opening(k)' = Opening(k)
    BY <1>1, <1>2, <1>3, <2>1 DEF Opening
  <2>3. LeaseState(k)' = LeaseState(k) /\ LeaseState(k) # "none"
    BY <1>1, <1>2, <1>6 DEF LeaseState, TypeOK
  <2> QED
    BY <1>1, <1>2, <1>4, <2>2, <2>3
<1> QED
  BY <1>5, <1>6

(* The broker call acquires the lease.                                     *)
LEMMA OpenAcquires ==
  ASSUME IInv, NEW c \in Clients, OpenSubscription(c)
  PROVE  Lease!Acquire(ch[c])
<1> DEFINE k == ch[c]
<1> USE DEF IInv
<1>1. k \in Channels /\ pc[c] = "open"
  BY DEF OpenSubscription, Placed, SubscribePCs
<1>2. /\ brokerSubs' = [brokerSubs EXCEPT ![k] = @ + 1]
      /\ pc' = [pc EXCEPT ![c] = "store"]
      /\ UNCHANGED <<ch, channels, channelSubs>>
  BY DEF OpenSubscription
<1>3. brokerSubs[k] = 0 /\ k \notin channelSubs /\ c \in channels[k]
  BY <1>1 DEF LeaseInv
<1>4. LeaseState(k) = "opening"
  BY <1>3 DEF LeaseState
<1>5. \A j \in Channels : Opening(j)' = Opening(j) /\ LeaseState(j)' = LeaseState(j)
  BY <1>1, <1>2 DEF Opening, LeaseState, TypeOK
<1>6. brokerSubs' = [brokerSubs EXCEPT ![k] = 1]
  BY <1>2, <1>3 DEF TypeOK
<1> QED
  BY <1>1, <1>2, <1>3, <1>4, <1>5, <1>6

(* Filing the subscription grants it.                                      *)
LEMMA StoreGrants ==
  ASSUME IInv, NEW c \in Clients, StoreSubscription(c)
  PROVE  Lease!Grant(ch[c])
<1> DEFINE k == ch[c]
<1> USE DEF IInv
<1>1. k \in Channels /\ pc[c] = "store"
  BY DEF StoreSubscription, Placed, SubscribePCs
<1>2. /\ channelSubs' = channelSubs \cup {k}
      /\ pc' = [pc EXCEPT ![c] = AfterJoin(k)]
      /\ UNCHANGED <<ch, channels, brokerSubs>>
  BY DEF StoreSubscription
<1>3. brokerSubs[k] = 1 /\ k \notin channelSubs /\ c \in channels[k]
  BY <1>1 DEF LeaseInv
<1>4. LeaseState(k) = "opening" /\ LeaseState(k)' = "open"
  BY <1>2, <1>3 DEF LeaseState
<1>5. \A d \in Clients : pc[d] \in {"open", "store"} /\ d # c => ch[d] # k
  BY <1>1 DEF LeaseInv
<1>6. pc'[c] \notin {"open", "store"} /\ \A d \in Clients : d # c => pc'[d] = pc[d]
  BY <1>2 DEF TypeOK, AfterJoin
<1>7. Opening(k)' = {}
  BY <1>2, <1>5, <1>6 DEF Opening
<1>8. \A j \in Channels : j # k => Opening(j)' = Opening(j) /\ LeaseState(j)' = LeaseState(j)
  BY <1>1, <1>2, <1>6 DEF Opening, LeaseState
<1>9. [j \in Channels |-> LeaseState(j)]' =
        [[j \in Channels |-> LeaseState(j)] EXCEPT ![k] = "open"]
  BY <1>1, <1>2, <1>4, <1>8
<1>10. [j \in Channels |-> Opening(j)]' =
        [[j \in Channels |-> Opening(j)] EXCEPT ![k] = {}]
  BY <1>1, <1>2, <1>7, <1>8
<1> QED
  BY <1>1, <1>2, <1>3, <1>4, <1>9, <1>10

(* A leave is ReleaseLast for the only subscriber, else Release.           *)
LEMMA LeaveReleases ==
  ASSUME IInv, NEW c \in Clients, Leave(c)
  PROVE  Lease!Release(c, ch[c]) \/ Lease!ReleaseLast(c, ch[c])
<1> DEFINE k == ch[c]
<1> USE DEF IInv
<1>1. k \in Channels /\ pc[c] = "leave"
  BY DEF Leave, Placed, UnsubscribePCs
<1>2. /\ channels' = [channels EXCEPT ![k] = @ \ {c}]
      /\ pc' = [pc EXCEPT ![c] = IF k \in Presence THEN "remove" ELSE "occUnsub"]
      /\ UNCHANGED ch
  BY DEF Leave
<1>3. pc'[c] \notin {"open", "store"} /\ \A d \in Clients : d # c => pc'[d] = pc[d]
  BY <1>2 DEF TypeOK
<1>4. \A j \in Channels : Opening(j)' = Opening(j)
  BY <1>1, <1>2, <1>3 DEF Opening
<1>5. c \notin Opening(k)
  BY <1>1 DEF Opening
<1>6. CASE channels[k] = {c}
  <2>1. Opening(k) = {}
    BY <1>1, <1>6 DEF Opening, LeaseInv
  <2>2. k \in channelSubs /\ brokerSubs[k] = 1
    BY <1>1, <1>6, <2>1 DEF LeaseInv
  <2>3. /\ channelSubs' = channelSubs \ {k}
        /\ brokerSubs' = [brokerSubs EXCEPT ![k] = @ - 1]
    BY <1>6, <2>2 DEF Leave
  <2>4. /\ channels' = [channels EXCEPT ![k] = {}]
        /\ brokerSubs' = [brokerSubs EXCEPT ![k] = 0]
    <3>1. channels[k] \ {c} = {} /\ brokerSubs[k] - 1 = 0
      BY <1>6, <2>2
    <3> QED
      BY <1>2, <2>3, <3>1
  <2>5. LeaseState(k) = "open" /\ LeaseState(k)' = "none"
    BY <1>1, <1>2, <1>6, <2>2, <2>4 DEF LeaseState, TypeOK
  <2>6. \A j \in Channels : j # k => LeaseState(j)' = LeaseState(j)
    BY <1>2, <2>3 DEF LeaseState, TypeOK
  <2>7. [j \in Channels |-> LeaseState(j)]' =
          [[j \in Channels |-> LeaseState(j)] EXCEPT ![k] = "none"]
    BY <1>1, <1>2, <2>5, <2>6
  <2> QED
    BY <1>1, <1>4, <1>6, <2>4, <2>5, <2>7
<1>7. CASE channels[k] # {c}
  <2>1. UNCHANGED <<channelSubs, brokerSubs>>
    BY <1>7 DEF Leave
  <2>2. \A j \in Channels : LeaseState(j)' = LeaseState(j)
    BY <1>1, <1>2, <1>7, <2>1 DEF LeaseState, TypeOK
  <2> QED
    BY <1>1, <1>2, <1>4, <1>5, <1>7, <2>1, <2>2
<1> QED
  BY <1>6, <1>7

(* Every step of the hub is a step of TopicLease, or none.                 *)
LEMMA LeaseSteps == IInv /\ [Next]_vars => [Lease!LeaseNext]_Lease!leaseVars
<1> SUFFICES ASSUME IInv, [Next]_vars
             PROVE  Lease!LeaseNext \/ UNCHANGED Lease!leaseVars
  OBVIOUS
<1>1. ASSUME NEW c \in Clients,
             Join(c) \/ OpenSubscription(c) \/ StoreSubscription(c) \/ Leave(c)
      PROVE  Lease!LeaseNext
  <2>1. ch[c] \in Channels
    BY <1>1 DEF IInv, Placed, Join, OpenSubscription, StoreSubscription, Leave,
       SubscribePCs, UnsubscribePCs
  <2>2. \/ Lease!HoldFirst(c, ch[c]) \/ Lease!Hold(c, ch[c])
        \/ Lease!Acquire(ch[c]) \/ Lease!Grant(ch[c])
        \/ Lease!Release(c, ch[c]) \/ Lease!ReleaseLast(c, ch[c])
    BY <1>1, JoinHolds, OpenAcquires, StoreGrants, LeaveReleases
  <2> QED
    BY <2>1, <2>2 DEF Lease!LeaseNext
<1>2. CASE \A c \in Clients : ~(\/ Join(c) \/ OpenSubscription(c)
                               \/ StoreSubscription(c) \/ Leave(c))
  BY <1>2, OtherStepsLease, LeaseStutter DEF IInv
<1> QED
  BY <1>1, <1>2

(* The hub implements the lease: the opener of a subscription keeps its    *)
(* channel until the subscription is filed, and the last subscriber to     *)
(* leave always finds one to close (hub.go:111-270, 425-452).              *)
THEOREM Refinement == Spec => ImplementsLease
<1>1. Init => Lease!LeaseInit
  BY LeaseStart
<1>2. IInv /\ [Next]_vars => [Lease!LeaseNext]_Lease!leaseVars
  BY LeaseSteps
<1> QED
  BY <1>1, <1>2, Invariant, PTL DEF Spec, ImplementsLease, Lease!LeaseSpec

----------------------------------------------------------------------------
(* Members: who is in what.                                                *)

(* The points of Subscribe after it has joined, and after it is present.   *)
JoinedPCs == SubscribePCs \ {"join"}
EnteredPCs == {"members", "greet", "castAdded", "sendAdded", "occSub", "noteOccupied"}

(* The points of Unsubscribe after the registry and after the broker.      *)
LeftPCs == UnsubscribePCs \ {"leave"}
RemovedPCs == {"castRemoved", "sendRemoved", "occUnsub", "noteVacated"}

(* Where the registration of client c stands.                              *)
Registration(c) ==
  /\ pc[c] \in {"idle"} \cup SubscribePCs => c \in clients
  /\ pc[c] \in {"new", "drain", "gone"} => c \notin clients
  /\ pc[c] = "new" => subscribed[c] = {}
  /\ pc[c] = "gone" => todo[c] = {}
  /\ c \notin clients =>
       subscribed[c] \subseteq todo[c] \cup (IF pc[c] = "leave" THEN {ch[c]} ELSE {})

(* What the registry and the broker know of client c in channel k.         *)
Membership(c) ==
  /\ \A k \in Channels :
       /\ (c \in channels[k]) = (k \in subscribed[c])
       /\ ch[c] = k /\ pc[c] \in JoinedPCs => k \in subscribed[c]
       /\ ch[c] = k /\ pc[c] \in LeftPCs => k \notin subscribed[c]
  /\ \A k \in Presence :
       /\ ch[c] # k \/ pc[c] \in {"join", "leave"} =>
            (presence[k][c] # NoUser) = (k \in subscribed[c])
       /\ ch[c] = k /\ pc[c] \in EnteredPCs => presence[k][c] # NoUser
       /\ ch[c] = k /\ pc[c] \in RemovedPCs => presence[k][c] = NoUser

(* Which users client c is filed under: all it is present as, and none it  *)
(* did not present.                                                        *)
Filed(c) ==
  /\ c \in clients =>
       /\ \A k \in Presence : presence[k][c] # NoUser => c \in clientsByUser[presence[k][c]]
       /\ ch[c] \in Presence /\ pc[c] \in SubscribePCs => c \in clientsByUser[who[c]]
  /\ c \notin clients /\ pc[c] # "new" /\ userID[c] # NoUser =>
       c \notin clientsByUser[userID[c]]
  /\ \A u \in Users : c \in clientsByUser[u] => u \in Identities[c] /\ userID[c] # NoUser

Mine(c) == Registration(c) /\ Membership(c) /\ Filed(c)

MineInv == \A c \in Clients : Mine(c)

(* Nothing of what Mine(c) speaks of has changed.                          *)
Undisturbed(c) ==
  /\ pc'[c] = pc[c] /\ ch'[c] = ch[c] /\ who'[c] = who[c]
  /\ subscribed'[c] = subscribed[c] /\ userID'[c] = userID[c] /\ todo'[c] = todo[c]
  /\ c \in clients' <=> c \in clients
  /\ \A k \in Channels : c \in channels'[k] <=> c \in channels[k]
  /\ \A k \in Presence : presence'[k][c] = presence[k][c]
  /\ \A u \in Users : c \in clientsByUser'[u] <=> c \in clientsByUser[u]

(* A step that changes nothing Mine(c) speaks of keeps it.                 *)
LEMMA UndisturbedMine ==
  ASSUME NEW c \in Clients, TypeOK, TypeOK', Placed', Mine(c), Undisturbed(c)
  PROVE  Mine(c)'
<1>1. Registration(c)'
  BY DEF Mine, Registration, Undisturbed
<1>2. Membership(c)'
  BY DEF Mine, Membership, Undisturbed
<1>3. Filed(c)'
  <2>1. ASSUME c \in clients', NEW k \in Presence, presence'[k][c] # NoUser
        PROVE  c \in clientsByUser'[presence'[k][c]]
    <3>1. presence'[k][c] = presence[k][c] /\ presence[k][c] \in Users
      BY <2>1 DEF Undisturbed, TypeOK
    <3> QED
      BY <2>1, <3>1 DEF Mine, Filed, Undisturbed
  <2>2. ASSUME c \in clients', ch'[c] \in Presence, pc'[c] \in SubscribePCs
        PROVE  c \in clientsByUser'[who'[c]]
    <3>1. who'[c] \in Users
      BY <2>2 DEF Placed
    <3> QED
      BY <2>2, <3>1 DEF Mine, Filed, Undisturbed
  <2>3. ASSUME c \notin clients', pc'[c] # "new", userID'[c] # NoUser
        PROVE  c \notin clientsByUser'[userID'[c]]
    <3>1. userID'[c] \in Users
      BY <2>3 DEF TypeOK
    <3> QED
      BY <2>3, <3>1 DEF Mine, Filed, Undisturbed
  <2>4. \A u \in Users : c \in clientsByUser'[u] => u \in Identities[c] /\ userID'[c] # NoUser
    BY DEF Mine, Filed, Undisturbed
  <2> QED
    BY <2>1, <2>2, <2>3, <2>4 DEF Filed
<1> QED
  BY <1>1, <1>2, <1>3 DEF Mine

(* A step of client d's goroutine disturbs no other client.                *)
LEMMA OthersUndisturbed ==
  ASSUME NEW c \in Clients, NEW d \in Clients, c # d, TypeOK,
         Register(d) \/ Command(d) \/ Advance(d)
  PROVE  Undisturbed(c)
<1> USE DEF TypeOK, Undisturbed, Receive
<1>1. CASE Join(d)
  BY <1>1 DEF Join
<1>2. CASE OpenSubscription(d)
  BY <1>2 DEF OpenSubscription
<1>3. CASE StoreSubscription(d)
  BY <1>3 DEF StoreSubscription
<1>4. CASE AddPresenceMember(d)
  BY <1>4 DEF AddPresenceMember
<1>5. CASE GetPresenceMembers(d)
  BY <1>5 DEF GetPresenceMembers
<1>6. CASE SendSucceeded(d)
  BY <1>6 DEF SendSucceeded
<1>7. CASE CastAdded(d)
  BY <1>7 DEF CastAdded
<1>8. CASE SendAdded(d)
  BY <1>8 DEF SendAdded
<1>9. CASE NotifyAdded(d)
  BY <1>9 DEF NotifyAdded
<1>10. CASE ReadOccupancyAfterJoin(d)
  BY <1>10 DEF ReadOccupancyAfterJoin
<1>11. CASE NotifyOccupied(d)
  BY <1>11 DEF NotifyOccupied
<1>12. CASE Leave(d)
  BY <1>12 DEF Leave
<1>13. CASE RemovePresenceMember(d)
  BY <1>13 DEF RemovePresenceMember
<1>14. CASE CastRemoved(d)
  BY <1>14 DEF CastRemoved
<1>15. CASE SendRemoved(d)
  BY <1>15 DEF SendRemoved
<1>16. CASE NotifyRemoved(d)
  BY <1>16 DEF NotifyRemoved
<1>17. CASE ReadOccupancyAfterLeave(d)
  BY <1>17 DEF ReadOccupancyAfterLeave
<1>18. CASE NotifyVacated(d)
  BY <1>18 DEF NotifyVacated
<1>19. CASE Unregister(d)
  BY <1>19 DEF Unregister
<1>20. CASE UnregisterNext(d)
  BY <1>20 DEF UnregisterNext
<1>21. CASE UnregisterDone(d)
  BY <1>21 DEF UnregisterDone
<1>22. CASE RefuseSubscribe(d)
  BY <1>22 DEF RefuseSubscribe
<1>23. ASSUME NEW k \in Channels, SubscribePlain(d, k) PROVE Undisturbed(c)
  BY <1>23 DEF SubscribePlain
<1>24. ASSUME NEW k \in Channels, UnsubscribeCommand(d, k) PROVE Undisturbed(c)
  BY <1>24 DEF UnsubscribeCommand
<1>25. ASSUME NEW k \in Presence, NEW u \in Identities[d], SubscribePresence(d, k, u)
       PROVE  Undisturbed(c)
  BY <1>25 DEF SubscribePresence
<1>26. CASE Register(d)
  BY <1>26 DEF Register
<1> QED
  BY <1>1, <1>2, <1>3, <1>4, <1>5, <1>6, <1>7, <1>8, <1>9, <1>10, <1>11,
     <1>12, <1>13, <1>14, <1>15, <1>16, <1>17, <1>18, <1>19, <1>20, <1>21,
     <1>22, <1>23, <1>24, <1>25, <1>26 DEF Advance, Command, SubscribeStep,
     UnsubscribeStep, UnregisterStep

(* The client's own steps keep its registration in order.                  *)
LEMMA OwnRegistration ==
  ASSUME NEW c \in Clients, TypeOK, Placed, LeaseInv, Mine(c),
         Register(c) \/ Command(c) \/ Advance(c)
  PROVE  Registration(c)'
<1> USE DEF TypeOK, Placed, Mine, Registration, PCs, SubscribePCs, UnsubscribePCs, PresencePCs, Receive, AfterJoin, Channels
<1>1. CASE Join(c)
  BY <1>1 DEF Join
<1>2. CASE OpenSubscription(c)
  BY <1>2 DEF OpenSubscription
<1>3. CASE StoreSubscription(c)
  BY <1>3 DEF StoreSubscription
<1>4. CASE AddPresenceMember(c)
  BY <1>4 DEF AddPresenceMember
<1>5. CASE GetPresenceMembers(c)
  BY <1>5 DEF GetPresenceMembers
<1>6. CASE SendSucceeded(c)
  BY <1>6 DEF SendSucceeded
<1>7. CASE CastAdded(c)
  BY <1>7 DEF CastAdded
<1>8. CASE SendAdded(c)
  BY <1>8 DEF SendAdded
<1>9. CASE NotifyAdded(c)
  BY <1>9 DEF NotifyAdded
<1>10. CASE ReadOccupancyAfterJoin(c)
  BY <1>10 DEF ReadOccupancyAfterJoin
<1>11. CASE NotifyOccupied(c)
  BY <1>11 DEF NotifyOccupied
<1>12. CASE Leave(c)
  BY <1>12 DEF Leave
<1>13. CASE RemovePresenceMember(c)
  BY <1>13 DEF RemovePresenceMember
<1>14. CASE CastRemoved(c)
  BY <1>14 DEF CastRemoved
<1>15. CASE SendRemoved(c)
  BY <1>15 DEF SendRemoved
<1>16. CASE NotifyRemoved(c)
  BY <1>16 DEF NotifyRemoved
<1>17. CASE ReadOccupancyAfterLeave(c)
  BY <1>17 DEF ReadOccupancyAfterLeave
<1>18. CASE NotifyVacated(c)
  BY <1>18 DEF NotifyVacated
<1>19. CASE Unregister(c)
  BY <1>19 DEF Unregister
<1>20. CASE UnregisterNext(c)
  BY <1>20 DEF UnregisterNext
<1>21. CASE UnregisterDone(c)
  BY <1>21 DEF UnregisterDone
<1>22. CASE RefuseSubscribe(c)
  BY <1>22 DEF RefuseSubscribe
<1>23. CASE Register(c)
  BY <1>23 DEF Register
<1>24. ASSUME NEW k \in Channels, SubscribePlain(c, k) PROVE Registration(c)'
  BY <1>24 DEF SubscribePlain
<1>25. ASSUME NEW k \in Channels, UnsubscribeCommand(c, k) PROVE Registration(c)'
  BY <1>25 DEF UnsubscribeCommand
<1>26. ASSUME NEW k \in Presence, NEW u \in Identities[c], SubscribePresence(c, k, u)
       PROVE  Registration(c)'
  BY <1>26 DEF SubscribePresence
<1> QED
  BY <1>1, <1>2, <1>3, <1>4, <1>5, <1>6, <1>7, <1>8, <1>9, <1>10, <1>11,
     <1>12, <1>13, <1>14, <1>15, <1>16, <1>17, <1>18, <1>19, <1>20, <1>21,
     <1>22, <1>23, <1>24, <1>25, <1>26 DEF Advance, Command, SubscribeStep,
     UnsubscribeStep, UnregisterStep

(* They keep the registry and the broker in the order of its steps.        *)
LEMMA OwnMembership ==
  ASSUME NEW c \in Clients, TypeOK, Placed, LeaseInv, Mine(c),
         Register(c) \/ Command(c) \/ Advance(c)
  PROVE  Membership(c)'
<1> USE DEF TypeOK, Placed, Mine, Membership, JoinedPCs, EnteredPCs, LeftPCs,
            RemovedPCs, PCs, SubscribePCs, UnsubscribePCs, PresencePCs, Receive, AfterJoin, Channels
<1>1. CASE Join(c)
  BY <1>1 DEF Join
<1>2. CASE OpenSubscription(c)
  BY <1>2 DEF OpenSubscription
<1>3. CASE StoreSubscription(c)
  BY <1>3 DEF StoreSubscription
<1>4. CASE AddPresenceMember(c)
  BY <1>4 DEF AddPresenceMember
<1>5. CASE GetPresenceMembers(c)
  BY <1>5 DEF GetPresenceMembers
<1>6. CASE SendSucceeded(c)
  BY <1>6 DEF SendSucceeded
<1>7. CASE CastAdded(c)
  BY <1>7 DEF CastAdded
<1>8. CASE SendAdded(c)
  BY <1>8 DEF SendAdded
<1>9. CASE NotifyAdded(c)
  BY <1>9 DEF NotifyAdded
<1>10. CASE ReadOccupancyAfterJoin(c)
  BY <1>10 DEF ReadOccupancyAfterJoin
<1>11. CASE NotifyOccupied(c)
  BY <1>11 DEF NotifyOccupied
<1>12. CASE Leave(c)
  BY <1>12 DEF Leave
<1>13. CASE RemovePresenceMember(c)
  BY <1>13 DEF RemovePresenceMember
<1>14. CASE CastRemoved(c)
  BY <1>14 DEF CastRemoved
<1>15. CASE SendRemoved(c)
  BY <1>15 DEF SendRemoved
<1>16. CASE NotifyRemoved(c)
  BY <1>16 DEF NotifyRemoved
<1>17. CASE ReadOccupancyAfterLeave(c)
  BY <1>17 DEF ReadOccupancyAfterLeave
<1>18. CASE NotifyVacated(c)
  BY <1>18 DEF NotifyVacated
<1>19. CASE Unregister(c)
  BY <1>19 DEF Unregister
<1>20. CASE UnregisterNext(c)
  BY <1>20 DEF UnregisterNext
<1>21. CASE UnregisterDone(c)
  BY <1>21 DEF UnregisterDone
<1>22. CASE RefuseSubscribe(c)
  BY <1>22 DEF RefuseSubscribe
<1>23. CASE Register(c)
  BY <1>23 DEF Register
<1>24. ASSUME NEW k \in Channels, SubscribePlain(c, k) PROVE Membership(c)'
  BY <1>24 DEF SubscribePlain
<1>25. ASSUME NEW k \in Channels, UnsubscribeCommand(c, k) PROVE Membership(c)'
  BY <1>25 DEF UnsubscribeCommand
<1>26. ASSUME NEW k \in Presence, NEW u \in Identities[c], SubscribePresence(c, k, u)
       PROVE  Membership(c)'
  BY <1>26 DEF SubscribePresence
<1> QED
  BY <1>1, <1>2, <1>3, <1>4, <1>5, <1>6, <1>7, <1>8, <1>9, <1>10, <1>11,
     <1>12, <1>13, <1>14, <1>15, <1>16, <1>17, <1>18, <1>19, <1>20, <1>21,
     <1>22, <1>23, <1>24, <1>25, <1>26 DEF Advance, Command, SubscribeStep,
     UnsubscribeStep, UnregisterStep

(* And whatever it is present as, it is filed under.                       *)
LEMMA OwnFiling ==
  ASSUME NEW c \in Clients, TypeOK, Placed, LeaseInv, Mine(c),
         Register(c) \/ Command(c) \/ Advance(c)
  PROVE  Filed(c)'
<1> USE DEF TypeOK, Placed, Mine, Registration, Filed, PCs, SubscribePCs, UnsubscribePCs, PresencePCs, Receive, AfterJoin, Channels
<1>1. CASE Join(c)
  BY <1>1 DEF Join
<1>2. CASE OpenSubscription(c)
  BY <1>2 DEF OpenSubscription
<1>3. CASE StoreSubscription(c)
  BY <1>3 DEF StoreSubscription
<1>4. CASE AddPresenceMember(c)
  BY <1>4 DEF AddPresenceMember
<1>5. CASE GetPresenceMembers(c)
  BY <1>5 DEF GetPresenceMembers
<1>6. CASE SendSucceeded(c)
  BY <1>6 DEF SendSucceeded
<1>7. CASE CastAdded(c)
  BY <1>7 DEF CastAdded
<1>8. CASE SendAdded(c)
  BY <1>8 DEF SendAdded
<1>9. CASE NotifyAdded(c)
  BY <1>9 DEF NotifyAdded
<1>10. CASE ReadOccupancyAfterJoin(c)
  BY <1>10 DEF ReadOccupancyAfterJoin
<1>11. CASE NotifyOccupied(c)
  BY <1>11 DEF NotifyOccupied
<1>12. CASE Leave(c)
  BY <1>12 DEF Leave
<1>13. CASE RemovePresenceMember(c)
  BY <1>13 DEF RemovePresenceMember
<1>14. CASE CastRemoved(c)
  BY <1>14 DEF CastRemoved
<1>15. CASE SendRemoved(c)
  BY <1>15 DEF SendRemoved
<1>16. CASE NotifyRemoved(c)
  BY <1>16 DEF NotifyRemoved
<1>17. CASE ReadOccupancyAfterLeave(c)
  BY <1>17 DEF ReadOccupancyAfterLeave
<1>18. CASE NotifyVacated(c)
  BY <1>18 DEF NotifyVacated
<1>19. CASE Unregister(c)
  BY <1>19 DEF Unregister
<1>20. CASE UnregisterNext(c)
  BY <1>20 DEF UnregisterNext
<1>21. CASE UnregisterDone(c)
  BY <1>21 DEF UnregisterDone
<1>22. CASE RefuseSubscribe(c)
  BY <1>22 DEF RefuseSubscribe
<1>23. CASE Register(c)
  <2>1. \A k \in Presence : presence[k][c] = NoUser
    BY <1>23 DEF Register, Membership
  <2> QED
    BY <1>23, <2>1 DEF Register
<1>24. ASSUME NEW k \in Channels, SubscribePlain(c, k) PROVE Filed(c)'
  BY <1>24 DEF SubscribePlain
<1>25. ASSUME NEW k \in Channels, UnsubscribeCommand(c, k) PROVE Filed(c)'
  BY <1>25 DEF UnsubscribeCommand
<1>26. ASSUME NEW k \in Presence, NEW u \in Identities[c], SubscribePresence(c, k, u)
       PROVE  Filed(c)'
  BY <1>26 DEF SubscribePresence
<1> QED
  BY <1>1, <1>2, <1>3, <1>4, <1>5, <1>6, <1>7, <1>8, <1>9, <1>10, <1>11,
     <1>12, <1>13, <1>14, <1>15, <1>16, <1>17, <1>18, <1>19, <1>20, <1>21,
     <1>22, <1>23, <1>24, <1>25, <1>26 DEF Advance, Command, SubscribeStep,
     UnsubscribeStep, UnregisterStep

(* Initially nobody is registered, subscribed, present or filed.           *)
LEMMA InitMine == Init => MineInv
  BY DEF Init, MineInv, Mine, Registration, Membership, Filed, SubscribePCs,
         JoinedPCs, EnteredPCs, LeftPCs, RemovedPCs, UnsubscribePCs, Channels

(* The steps that are not of the client's own goroutine, and stuttering.   *)
LEMMA OutsideUndisturbed ==
  ASSUME NEW c \in Clients, TypeOK,
         \/ \E d \in Clients : Drop(d) \/ TerminateSocket(d) \/ CloseKicked(d)
         \/ \E u \in Users : TerminateUser(u)
         \/ AllGone \/ UNCHANGED vars
  PROVE  Undisturbed(c)
  BY DEF Undisturbed, Drop, TerminateSocket, CloseKicked, TerminateUser, AllGone, vars

(* The induction step: the client's own steps, those of others, the rest.  *)
LEMMA MineStep == IInv /\ IInv' /\ MineInv /\ [Next]_vars => MineInv'
<1> SUFFICES ASSUME IInv, IInv', MineInv, [Next]_vars, NEW c \in Clients
             PROVE  Mine(c)'
  BY DEF MineInv
<1> USE DEF IInv, MineInv
<1>1. CASE Register(c) \/ Command(c) \/ Advance(c)
  BY <1>1, OwnRegistration, OwnMembership, OwnFiling DEF Mine
<1>2. ASSUME NEW d \in Clients, d # c, Register(d) \/ Command(d) \/ Advance(d)
      PROVE  Mine(c)'
  BY <1>2, OthersUndisturbed, UndisturbedMine
<1>3. CASE \/ \E d \in Clients : Drop(d) \/ TerminateSocket(d) \/ CloseKicked(d)
           \/ \E u \in Users : TerminateUser(u)
           \/ AllGone \/ UNCHANGED vars
  BY <1>3, OutsideUndisturbed, UndisturbedMine
<1> QED
  BY <1>1, <1>2, <1>3 DEF Next

(* What each client's goroutine has written so far, at each of its points. *)
THEOREM MineInvariant == Spec => []MineInv
<1>1. Init => MineInv
  BY InitMine
<1>2. IInv /\ IInv' /\ MineInv /\ [Next]_vars => MineInv'
  BY MineStep
<1> QED
  BY <1>1, <1>2, Invariant, PTL DEF Spec

(* hub.go:170-186, 258-274: between its operations on a presence channel,  *)
(* registry, client and broker agree about every client.                   *)
THEOREM MembershipAgrees == Spec => []PresenceFollowsMembership
<1>1. IInv /\ MineInv => PresenceFollowsMembership
  BY DEF IInv, MineInv, Mine, Membership, PresenceFollowsMembership, Channels
<1> QED
  BY <1>1, Invariant, MineInvariant, PTL

(* hub.go:79-109: once ReadPump has returned, no table names the socket    *)
(* but the user index, and that only under user_ids it gave up.            *)
THEOREM GoneForgotten == Spec => []GoneIsForgotten
<1>1. IInv /\ MineInv => GoneIsForgotten
  <2> SUFFICES ASSUME IInv, MineInv, NEW c \in Clients, pc[c] = "gone"
               PROVE  /\ c \notin clients
                      /\ \A k \in Channels : c \notin channels[k]
                      /\ \A k \in Presence : presence[k][c] = NoUser
                      /\ \A u \in Users : c \in clientsByUser[u] =>
                           userID[c] # NoUser /\ u \in Identities[c] \ {userID[c]}
                      /\ subscribed[c] = {}
    BY DEF GoneIsForgotten
  <2>1. Registration(c) /\ Membership(c) /\ Filed(c)
    BY DEF MineInv, Mine
  <2>2. c \notin clients /\ subscribed[c] = {}
    BY <2>1 DEF Registration
  <2>3. ch[c] = NoChannel
    BY DEF IInv, Placed, SubscribePCs, UnsubscribePCs
  <2> QED
    BY <2>1, <2>2, <2>3 DEF Membership, Filed, Channels
<1> QED
  BY <1>1, Invariant, MineInvariant, PTL

(* hub.go:155-163, 470-489: TerminateUser finds every registered socket    *)
(* that is present as the user.                                            *)
THEOREM PresentKickable == Spec => []PresentUserCanBeKicked
<1>1. IInv /\ MineInv => PresentUserCanBeKicked
  BY DEF IInv, TypeOK, MineInv, Mine, Filed, PresentUserCanBeKicked
<1> QED
  BY <1>1, Invariant, MineInvariant, PTL

----------------------------------------------------------------------------
(* What the webhooks have said of a presence channel.                      *)

(* A channel left announced as occupied although nobody is present has     *)
(* somebody on the way to reporting it vacated.                            *)
OccupancyInv ==
  \A k \in Presence : PresentSockets(k) = {} /\ lastOcc[k] = "occupied" =>
    \E c \in Clients : ch[c] = k /\ pc[c] \in RemovedPCs

(* A step that makes no channel empty or announced as occupied, and ends   *)
(* nobody's leaving, owes nobody an announcement.                          *)
LEMMA OccupancyKept ==
  ASSUME OccupancyInv,
         \A k \in Presence : PresentSockets(k)' = {} => PresentSockets(k) = {},
         \A k \in Presence : lastOcc'[k] = "occupied" => lastOcc[k] = "occupied",
         \A c \in Clients : pc[c] \in RemovedPCs =>
                              pc'[c] \in RemovedPCs /\ ch'[c] = ch[c]
  PROVE  OccupancyInv'
<1> SUFFICES ASSUME NEW k \in Presence, PresentSockets(k)' = {}, lastOcc'[k] = "occupied"
             PROVE  \E c \in Clients : ch'[c] = k /\ pc'[c] \in RemovedPCs
  BY DEF OccupancyInv
<1>1. PICK c \in Clients : ch[c] = k /\ pc[c] \in RemovedPCs
  BY DEF OccupancyInv
<1> QED
  BY <1>1

(* The steps that neither enter, leave nor announce anything.              *)
Announcing(c) ==
  \/ AddPresenceMember(c) \/ NotifyAdded(c) \/ NotifyOccupied(c) \/ RemovePresenceMember(c)
  \/ NotifyRemoved(c) \/ ReadOccupancyAfterLeave(c) \/ NotifyVacated(c)

(* Other steps leave presence and announcements alone and keep who is      *)
(* leaving on its way.                                                     *)
LEMMA NothingAnnounced ==
  ASSUME NEW c \in Clients, TypeOK, Register(c) \/ Command(c) \/ Advance(c), ~Announcing(c)
  PROVE  /\ UNCHANGED <<presence, lastOcc, lastMember>>
         /\ pc[c] \in RemovedPCs => pc'[c] \in RemovedPCs /\ ch'[c] = ch[c] /\ who'[c] = who[c]
         /\ pc[c] \in {"castRemoved", "sendRemoved"} =>
              pc'[c] \in {"castRemoved", "sendRemoved"}
<1> USE DEF TypeOK, RemovedPCs, Receive
<1>1. CASE Join(c) \/ OpenSubscription(c) \/ StoreSubscription(c) \/ GetPresenceMembers(c)
  BY <1>1 DEF Join, OpenSubscription, StoreSubscription, GetPresenceMembers, AfterJoin
<1>2. CASE SendSucceeded(c) \/ CastAdded(c) \/ SendAdded(c) \/ ReadOccupancyAfterJoin(c)
  BY <1>2 DEF SendSucceeded, CastAdded, SendAdded, ReadOccupancyAfterJoin
<1>3. CASE Leave(c)
  BY <1>3 DEF Leave
<1>4. CASE CastRemoved(c) \/ SendRemoved(c)
  BY <1>4 DEF CastRemoved, SendRemoved
<1>5. CASE Unregister(c) \/ UnregisterNext(c) \/ UnregisterDone(c) \/ Register(c)
  BY <1>5 DEF Unregister, UnregisterNext, UnregisterDone, Register
<1>6. CASE Command(c)
  BY <1>6 DEF Command, RefuseSubscribe, SubscribePlain, UnsubscribeCommand,
              SubscribePresence
<1> QED
  BY <1>1, <1>2, <1>3, <1>4, <1>5, <1>6 DEF Announcing, Advance, SubscribeStep,
     UnsubscribeStep, UnregisterStep

(* Initially nothing was announced.                                        *)
LEMMA InitOccupancy == Init => OccupancyInv
  BY DEF Init, OccupancyInv, Channels

(* Whoever announces a channel as occupied is present in it, and whoever   *)
(* leaves it empty goes on to report it vacated.                           *)
LEMMA OccupancyStep ==
  ASSUME IInv, MineInv, OccupancyInv, [Next]_vars
  PROVE  OccupancyInv'
<1> USE DEF IInv
<1>1. ASSUME NEW c \in Clients, Register(c) \/ Command(c) \/ Advance(c)
      PROVE  OccupancyInv'
  <2>1. \A d \in Clients : d # c => pc'[d] = pc[d] /\ ch'[d] = ch[d]
    BY <1>1, OthersUndisturbed DEF Undisturbed
  <2>2. CASE ~Announcing(c)
    BY <1>1, <2>1, <2>2, NothingAnnounced, OccupancyKept DEF PresentSockets
  <2>3. CASE AddPresenceMember(c)
    <3>1. pc[c] \notin RemovedPCs /\ ch[c] \in Presence /\ lastOcc' = lastOcc
      BY <2>3 DEF AddPresenceMember, RemovedPCs, Placed, PresencePCs
    <3>2. presence' = [presence EXCEPT ![ch[c]][c] = who[c]] /\ who[c] # NoUser
      BY <2>3, <3>1 DEF AddPresenceMember, Placed, SubscribePCs
    <3>3. \A k \in Presence : PresentSockets(k)' = {} => PresentSockets(k) = {}
      BY <3>1, <3>2 DEF PresentSockets, TypeOK
    <3> QED
      BY <2>1, <3>1, <3>3, OccupancyKept
  <2>4. CASE NotifyAdded(c)
    <3>1. pc[c] \notin RemovedPCs /\ UNCHANGED <<presence, lastOcc>>
      BY <2>4 DEF NotifyAdded, RemovedPCs
    <3> QED
      BY <2>1, <3>1, OccupancyKept DEF PresentSockets
  <2>5. CASE NotifyOccupied(c)
    <3>1. /\ pc[c] = "noteOccupied" /\ UNCHANGED presence
          /\ lastOcc' = [lastOcc EXCEPT ![ch[c]] = "occupied"]
      BY <2>5 DEF NotifyOccupied
    <3>2. ch[c] \in Presence => c \in PresentSockets(ch[c])
      BY <3>1 DEF MineInv, Mine, Membership, EnteredPCs, PresentSockets
    <3> SUFFICES ASSUME NEW k \in Presence, PresentSockets(k) = {}, lastOcc'[k] = "occupied"
                 PROVE  \E d \in Clients : ch'[d] = k /\ pc'[d] \in RemovedPCs
      BY <3>1 DEF OccupancyInv, PresentSockets
    <3>3. k # ch[c] /\ lastOcc[k] = "occupied"
      BY <3>1, <3>2 DEF TypeOK
    <3>4. PICK d \in Clients : ch[d] = k /\ pc[d] \in RemovedPCs
      BY <3>3 DEF OccupancyInv
    <3> QED
      BY <2>1, <3>3, <3>4
  <2>6. CASE RemovePresenceMember(c)
    <3>1. /\ pc[c] = "remove" /\ lastOcc' = lastOcc /\ ch' = ch
          /\ presence' = [presence EXCEPT ![ch[c]][c] = NoUser]
          /\ pc'[c] \in RemovedPCs
      BY <2>6 DEF RemovePresenceMember, TypeOK, RemovedPCs
    <3> SUFFICES ASSUME NEW k \in Presence, PresentSockets(k)' = {}, lastOcc[k] = "occupied"
                 PROVE  \E d \in Clients : ch'[d] = k /\ pc'[d] \in RemovedPCs
      BY <3>1 DEF OccupancyInv
    <3>2. CASE k = ch[c]
      BY <3>1, <3>2
    <3>3. CASE k # ch[c]
      <4>1. PresentSockets(k) = {}
        BY <3>1, <3>3 DEF PresentSockets, TypeOK
      <4>2. PICK d \in Clients : ch[d] = k /\ pc[d] \in RemovedPCs
        BY <4>1 DEF OccupancyInv
      <4> QED
        BY <2>1, <3>1, <4>2
    <3> QED
      BY <3>2, <3>3
  <2>7. CASE NotifyRemoved(c)
    <3>1. UNCHANGED <<presence, lastOcc, ch>> /\ pc'[c] \in RemovedPCs
      BY <2>7 DEF NotifyRemoved, RemovedPCs, TypeOK
    <3> QED
      BY <2>1, <3>1, OccupancyKept DEF PresentSockets
  <2>8. CASE ReadOccupancyAfterLeave(c)
    <3>1. UNCHANGED <<presence, lastOcc>>
      BY <2>8 DEF ReadOccupancyAfterLeave
    <3>2. CASE Occupancy(ch[c]) = 0 /\ pc' = [pc EXCEPT ![c] = "noteVacated"] /\ ch' = ch
      <4>1. pc'[c] \in RemovedPCs
        BY <3>2 DEF RemovedPCs, TypeOK
      <4> QED
        BY <2>1, <3>1, <3>2, <4>1, OccupancyKept DEF PresentSockets
    <3>3. CASE Occupancy(ch[c]) # 0
      <4> SUFFICES ASSUME NEW k \in Presence, PresentSockets(k) = {}, lastOcc[k] = "occupied"
                   PROVE  \E d \in Clients : ch'[d] = k /\ pc'[d] \in RemovedPCs
        BY <3>1 DEF OccupancyInv, PresentSockets
      <4>1. k # ch[c]
        BY <3>3, FS_EmptySet DEF Occupancy
      <4>2. PICK d \in Clients : ch[d] = k /\ pc[d] \in RemovedPCs
        BY DEF OccupancyInv
      <4> QED
        BY <2>1, <4>1, <4>2
    <3> QED
      BY <2>8, <3>2, <3>3 DEF ReadOccupancyAfterLeave
  <2>9. CASE NotifyVacated(c)
    <3>1. /\ UNCHANGED presence /\ ch[c] \in Channels
          /\ lastOcc' = [lastOcc EXCEPT ![ch[c]] = "vacated"]
      BY <2>9 DEF NotifyVacated, Placed, UnsubscribePCs
    <3> SUFFICES ASSUME NEW k \in Presence, PresentSockets(k) = {}, lastOcc'[k] = "occupied"
                 PROVE  \E d \in Clients : ch'[d] = k /\ pc'[d] \in RemovedPCs
      BY <3>1 DEF OccupancyInv, PresentSockets
    <3>2. k # ch[c] /\ lastOcc[k] = "occupied"
      BY <3>1 DEF TypeOK, Channels
    <3>3. PICK d \in Clients : ch[d] = k /\ pc[d] \in RemovedPCs
      BY <3>2 DEF OccupancyInv
    <3> QED
      BY <2>1, <3>2, <3>3
  <2> QED
    BY <2>2, <2>3, <2>4, <2>5, <2>6, <2>7, <2>8, <2>9 DEF Announcing
<1>2. CASE \/ \E d \in Clients : Drop(d) \/ TerminateSocket(d) \/ CloseKicked(d)
           \/ \E u \in Users : TerminateUser(u)
           \/ AllGone \/ UNCHANGED vars
  <2>1. UNCHANGED <<presence, lastOcc, pc, ch>>
    BY <1>2 DEF Drop, TerminateSocket, CloseKicked, TerminateUser, AllGone, vars
  <2> QED
    BY <2>1, OccupancyKept DEF PresentSockets
<1> QED
  BY <1>1, <1>2 DEF Next

(* hub.go:246-252 and 302-308: an empty presence channel nobody is busy    *)
(* with was not left announced as occupied, however the reads of its       *)
(* occupancy and the webhooks of different clients interleaved.            *)
THEOREM EmptyNotOccupied == Spec => []EmptyIsNotAnnouncedOccupied
<1>1. IInv /\ MineInv /\ OccupancyInv /\ [Next]_vars => OccupancyInv'
  BY OccupancyStep
<1>2. Spec => []OccupancyInv
  BY <1>1, InitOccupancy, Invariant, MineInvariant, PTL DEF Spec
<1>3. OccupancyInv => EmptyIsNotAnnouncedOccupied
  BY DEF OccupancyInv, EmptyIsNotAnnouncedOccupied, Settled
<1> QED
  BY <1>2, <1>3, PTL

----------------------------------------------------------------------------
(* What the webhooks have said of a user, where a client keeps to one      *)
(* user_id.                                                                *)

OneUserEach == \A c \in Clients : \A u, v \in Identities[c] : u = v

(* On whose behalf client c works, and as whom it is present.              *)
Personal(c) ==
  /\ pc[c] \in SubscribePCs /\ ch[c] \in Presence => who[c] \in Identities[c]
  /\ pc[c] \in {"members", "greet", "castAdded", "sendAdded"} => presence[ch[c]][c] = who[c]
  /\ \A k \in Presence : presence[k][c] \in Identities[c] \cup {NoUser}

(* A user left announced as added although no socket is present has        *)
(* somebody on the way to announcing the removal.                          *)
Owed(k, u) == \E c \in Clients :
                ch[c] = k /\ who[c] = u /\ pc[c] \in {"castRemoved", "sendRemoved"}

MemberInv ==
  \A k \in Presence, u \in Users :
    u \notin PresentUsers(k) /\ lastMember[k][u] = "added" => Owed(k, u)

PersonalInv == \A c \in Clients : Personal(c)

(* The client's own steps keep it to its user.                             *)
LEMMA OwnPersonal ==
  ASSUME NEW c \in Clients, TypeOK, Placed, Personal(c),
         Register(c) \/ Command(c) \/ Advance(c)
  PROVE  Personal(c)'
<1> USE DEF TypeOK, Placed, Personal, PCs, SubscribePCs, UnsubscribePCs, PresencePCs, Receive, Channels
<1>1. CASE Join(c) \/ OpenSubscription(c) \/ StoreSubscription(c)
  BY <1>1 DEF Join, OpenSubscription, StoreSubscription, AfterJoin
<1>2. CASE AddPresenceMember(c)
  BY <1>2 DEF AddPresenceMember
<1>3. CASE GetPresenceMembers(c) \/ SendSucceeded(c) \/ CastAdded(c) \/ SendAdded(c)
  BY <1>3 DEF GetPresenceMembers, SendSucceeded, CastAdded, SendAdded
<1>4. CASE NotifyAdded(c) \/ ReadOccupancyAfterJoin(c) \/ NotifyOccupied(c)
  BY <1>4 DEF NotifyAdded, ReadOccupancyAfterJoin, NotifyOccupied
<1>5. CASE Leave(c)
  BY <1>5 DEF Leave
<1>6. CASE RemovePresenceMember(c)
  BY <1>6 DEF RemovePresenceMember
<1>7. CASE CastRemoved(c) \/ SendRemoved(c) \/ NotifyRemoved(c)
  BY <1>7 DEF CastRemoved, SendRemoved, NotifyRemoved
<1>8. CASE ReadOccupancyAfterLeave(c) \/ NotifyVacated(c)
  BY <1>8 DEF ReadOccupancyAfterLeave, NotifyVacated
<1>9. CASE Unregister(c) \/ UnregisterNext(c) \/ UnregisterDone(c) \/ Register(c)
  BY <1>9 DEF Unregister, UnregisterNext, UnregisterDone, Register
<1>10. CASE RefuseSubscribe(c)
  BY <1>10 DEF RefuseSubscribe
<1>11. ASSUME NEW k \in Channels, SubscribePlain(c, k) \/ UnsubscribeCommand(c, k)
       PROVE  Personal(c)'
  BY <1>11 DEF SubscribePlain, UnsubscribeCommand
<1>12. ASSUME NEW k \in Presence, NEW u \in Identities[c], SubscribePresence(c, k, u)
       PROVE  Personal(c)'
  BY <1>12 DEF SubscribePresence
<1> QED
  BY <1>1, <1>2, <1>3, <1>4, <1>5, <1>6, <1>7, <1>8, <1>9, <1>10, <1>11, <1>12
     DEF Advance, Command, SubscribeStep, UnsubscribeStep, UnregisterStep

(* Somebody else's steps do not touch it.                                  *)
LEMMA UndisturbedPersonal ==
  ASSUME NEW c \in Clients, Personal(c), Placed, Undisturbed(c)
  PROVE  Personal(c)'
  BY DEF Personal, Undisturbed, Placed, PresencePCs

(* Every step keeps every client to its user.                              *)
LEMMA PersonalStep ==
  ASSUME IInv, PersonalInv, [Next]_vars
  PROVE  PersonalInv'
<1> SUFFICES ASSUME NEW c \in Clients PROVE Personal(c)'
  BY DEF PersonalInv
<1> USE DEF IInv, PersonalInv
<1>1. CASE Register(c) \/ Command(c) \/ Advance(c)
  BY <1>1, OwnPersonal
<1>2. ASSUME NEW d \in Clients, d # c, Register(d) \/ Command(d) \/ Advance(d)
      PROVE  Personal(c)'
  BY <1>2, OthersUndisturbed, UndisturbedPersonal
<1>3. CASE \/ \E d \in Clients : Drop(d) \/ TerminateSocket(d) \/ CloseKicked(d)
           \/ \E u \in Users : TerminateUser(u)
           \/ AllGone \/ UNCHANGED vars
  BY <1>3, OutsideUndisturbed, UndisturbedPersonal
<1> QED
  BY <1>1, <1>2, <1>3 DEF Next

(* A step that ends no user's presence, announces no user as added and     *)
(* ends no announcement of a removal owes nobody one.                      *)
LEMMA MemberKept ==
  ASSUME MemberInv,
         \A k \in Presence : PresentUsers(k) \subseteq PresentUsers(k)',
         \A k \in Presence, u \in Users :
           lastMember'[k][u] = "added" => lastMember[k][u] = "added",
         \A c \in Clients : pc[c] \in {"castRemoved", "sendRemoved"} =>
           pc'[c] \in {"castRemoved", "sendRemoved"} /\ ch'[c] = ch[c] /\ who'[c] = who[c]
  PROVE  MemberInv'
<1> SUFFICES ASSUME NEW k \in Presence, NEW u \in Users,
                    u \notin PresentUsers(k)', lastMember'[k][u] = "added"
             PROVE  Owed(k, u)'
  BY DEF MemberInv
<1>1. Owed(k, u)
  BY DEF MemberInv
<1> QED
  BY <1>1 DEF Owed

(* Whoever is announced as added is present, and whoever ends a user's     *)
(* presence goes on to announce it.                                        *)
LEMMA MemberStep ==
  ASSUME OneUserEach, IInv, PersonalInv, MemberInv, [Next]_vars
  PROVE  MemberInv'
<1> USE DEF IInv
<1>1. ASSUME NEW c \in Clients, Register(c) \/ Command(c) \/ Advance(c)
      PROVE  MemberInv'
  <2>1. \A d \in Clients : d # c => pc'[d] = pc[d] /\ ch'[d] = ch[d] /\ who'[d] = who[d]
    BY <1>1, OthersUndisturbed DEF Undisturbed
  <2>2. CASE ~Announcing(c)
    <3>1. /\ UNCHANGED <<presence, lastMember>>
          /\ pc[c] \in {"castRemoved", "sendRemoved"} =>
               /\ pc'[c] \in {"castRemoved", "sendRemoved"}
               /\ ch'[c] = ch[c] /\ who'[c] = who[c]
      BY <1>1, <2>2, NothingAnnounced DEF RemovedPCs
    <3> QED
      BY <2>1, <3>1, MemberKept DEF PresentUsers, PresentSockets
  <2>3. CASE AddPresenceMember(c)
    <3>1. pc[c] = "add" /\ ch[c] \in Presence /\ lastMember' = lastMember
      BY <2>3 DEF AddPresenceMember, Placed, PresencePCs
    <3>2. /\ presence' = [presence EXCEPT ![ch[c]][c] = who[c]]
          /\ who[c] # NoUser /\ who[c] \in Identities[c]
      BY <2>3, <3>1 DEF AddPresenceMember, Placed, SubscribePCs, PersonalInv, Personal
    <3>3. presence[ch[c]][c] \in {who[c], NoUser}
      BY <3>1, <3>2 DEF PersonalInv, Personal, OneUserEach
    <3>4. \A k \in Presence, d \in Clients :
            presence[k][d] # NoUser => presence'[k][d] = presence[k][d]
      BY <3>1, <3>2, <3>3 DEF TypeOK
    <3>5. \A k \in Presence : PresentUsers(k) \subseteq PresentUsers(k)'
      BY <3>4 DEF PresentUsers, PresentSockets
    <3> QED
      BY <2>1, <3>1, <3>5, MemberKept
  <2>4. CASE NotifyAdded(c)
    <3>1. /\ pc[c] = "sendAdded" /\ UNCHANGED presence
          /\ lastMember' = [lastMember EXCEPT ![ch[c]][who[c]] = "added"]
      BY <2>4 DEF NotifyAdded
    <3>2. who[c] \in PresentUsers(ch[c])
      <4>1. ch[c] \in Presence /\ who[c] \in Users /\ presence[ch[c]][c] = who[c]
        BY <3>1 DEF Placed, PresencePCs, SubscribePCs, PersonalInv, Personal
      <4> QED
        BY <4>1 DEF PresentUsers, PresentSockets
    <3> SUFFICES ASSUME NEW k \in Presence, NEW u \in Users,
                        u \notin PresentUsers(k), lastMember'[k][u] = "added"
                 PROVE  Owed(k, u)'
      BY <3>1 DEF MemberInv, PresentUsers, PresentSockets
    <3>3. lastMember[k][u] = "added"
      BY <3>1, <3>2 DEF TypeOK
    <3>4. PICK d \in Clients :
            ch[d] = k /\ who[d] = u /\ pc[d] \in {"castRemoved", "sendRemoved"}
      BY <3>3 DEF MemberInv, Owed
    <3> QED
      BY <2>1, <3>1, <3>4 DEF Owed
  <2>5. CASE NotifyOccupied(c) \/ ReadOccupancyAfterLeave(c) \/ NotifyVacated(c)
    <3>1. UNCHANGED <<presence, lastMember>> /\ pc[c] \notin {"castRemoved", "sendRemoved"}
      BY <2>5 DEF NotifyOccupied, ReadOccupancyAfterLeave, NotifyVacated
    <3> QED
      BY <2>1, <3>1, MemberKept DEF PresentUsers, PresentSockets
  <2>6. CASE RemovePresenceMember(c)
    <3> DEFINE v == presence[ch[c]][c]
    <3>1. /\ pc[c] = "remove" /\ lastMember' = lastMember /\ ch' = ch
          /\ ch[c] \in Presence
          /\ presence' = [presence EXCEPT ![ch[c]][c] = NoUser]
          /\ who'[c] = v /\ (v # NoUser => pc'[c] = "castRemoved")
      BY <2>6 DEF RemovePresenceMember, TypeOK, Placed, PresencePCs
    <3> SUFFICES ASSUME NEW k \in Presence, NEW u \in Users,
                        u \notin PresentUsers(k)', lastMember[k][u] = "added"
                 PROVE  Owed(k, u)'
      BY <3>1 DEF MemberInv
    <3>2. CASE k = ch[c] /\ u = v
      BY <3>1, <3>2 DEF Owed
    <3>3. CASE ~(k = ch[c] /\ u = v)
      <4>1. u \notin PresentUsers(k)
        <5> SUFFICES ASSUME NEW d \in Clients, presence[k][d] = u PROVE FALSE
          BY DEF PresentUsers, PresentSockets
        <5>1. presence'[k][d] = u
          BY <3>1, <3>3 DEF TypeOK
        <5> QED
          BY <5>1 DEF PresentUsers, PresentSockets
      <4>2. PICK d \in Clients :
              ch[d] = k /\ who[d] = u /\ pc[d] \in {"castRemoved", "sendRemoved"}
        BY <4>1 DEF MemberInv, Owed
      <4> QED
        BY <2>1, <3>1, <4>2 DEF Owed
    <3> QED
      BY <3>2, <3>3
  <2>7. CASE NotifyRemoved(c)
    <3>1. /\ pc[c] = "sendRemoved" /\ ch[c] \in Presence /\ UNCHANGED presence
          /\ lastMember' = [lastMember EXCEPT ![ch[c]][who[c]] = "removed"]
      BY <2>7 DEF NotifyRemoved, Placed, PresencePCs
    <3> SUFFICES ASSUME NEW k \in Presence, NEW u \in Users,
                        u \notin PresentUsers(k), lastMember'[k][u] = "added"
                 PROVE  Owed(k, u)'
      BY <3>1 DEF MemberInv, PresentUsers, PresentSockets
    <3>2. lastMember[k][u] = "added" /\ ~(k = ch[c] /\ u = who[c])
      BY <3>1 DEF TypeOK
    <3>3. PICK d \in Clients :
            ch[d] = k /\ who[d] = u /\ pc[d] \in {"castRemoved", "sendRemoved"}
      BY <3>2 DEF MemberInv, Owed
    <3> QED
      BY <2>1, <3>2, <3>3 DEF Owed
  <2> QED
    BY <2>2, <2>3, <2>4, <2>5, <2>6, <2>7 DEF Announcing
<1>2. CASE \/ \E d \in Clients : Drop(d) \/ TerminateSocket(d) \/ CloseKicked(d)
           \/ \E u \in Users : TerminateUser(u)
           \/ AllGone \/ UNCHANGED vars
  <2>1. UNCHANGED <<presence, lastMember, pc, ch, who>>
    BY <1>2 DEF Drop, TerminateSocket, CloseKicked, TerminateUser, AllGone, vars
  <2> QED
    BY <2>1, MemberKept DEF PresentUsers, PresentSockets
<1> QED
  BY <1>1, <1>2 DEF Next

(* hub.go:233-240 and 272-298: where a client keeps to one user_id, a user *)
(* none of whose sockets is left in a presence channel was last announced  *)
(* as removed, however many sockets share the user.                        *)
THEOREM AbsentAnnounced == OneUserEach /\ Spec => []AbsentUserIsAnnouncedRemoved
<1>1. Init => PersonalInv /\ MemberInv
  BY DEF Init, PersonalInv, Personal, MemberInv, SubscribePCs
<1>2. IInv /\ PersonalInv /\ [Next]_vars => PersonalInv'
  BY PersonalStep
<1>3. OneUserEach => (IInv /\ PersonalInv /\ MemberInv /\ [Next]_vars => MemberInv')
  BY MemberStep
<1>4. MemberInv => AbsentUserIsAnnouncedRemoved
  BY DEF MemberInv, AbsentUserIsAnnouncedRemoved, Settled, Owed
<1> SUFFICES ASSUME OneUserEach PROVE Spec => []AbsentUserIsAnnouncedRemoved
  OBVIOUS
<1>5. IInv /\ PersonalInv /\ MemberInv /\ [Next]_vars => MemberInv'
  BY <1>3
<1> QED
  BY <1>1, <1>2, <1>4, <1>5, Invariant, PTL DEF Spec
=============================================================================
