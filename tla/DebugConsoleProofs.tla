------------------------- MODULE DebugConsoleProofs -------------------------
(***************************************************************************)
(* The console, for any number of connections, visits, channels, events    *)
(* and clicks: it never has two connections, and none without its page;    *)
(* what was joined is subscribed to and what is subscribed to is listed;   *)
(* the stream lists nothing twice, and no live event above one begun when  *)
(* it was over.                                                            *)
(*                                                                         *)
(* None of the properties is inductive as it stands.                       *)
(*   SocketInv: SocketsFollowPage needs that a page still waiting for its  *)
(*     app, or no page at all, is shown as disconnected: the app may       *)
(*     arrive, and connect, at a moment nothing else tells apart.          *)
(*   SubsInv: JoinedIsSubscribed and SubscribedIsListed are about quiet    *)
(*     moments only.  In every state they are so of the table the server   *)
(*     will have when it has served all that is under way, and an open     *)
(*     connection is still to be greeted or has asked for everything.      *)
(*   StreamInv: StreamInOrder needs that what is under way may come after  *)
(*     all that is listed or stored for the next visit.  It may because an *)
(*     event that is under way or listed has been sent to everybody: there *)
(*     is one recipient at most, which is SocketsFollowPage.               *)
(***************************************************************************)
EXTENDS DebugConsole, FiniteSetTheorems, TLAPS

(* Connections.                                                            *)

(* What the page waits for agrees with what it shows.                      *)
WaitingIsDisconnected ==
  /\ appCall = "sent" => mounted /\ ~app /\ status = "disconnected"
  /\ ~mounted => status = "disconnected"

SocketsTyped ==
  sock \in [Sockets -> {"none", "connecting", "open", "dying", "closed"}]

(* The inductive invariant.                                                *)
SocketInv == SocketsTyped /\ WaitingIsDisconnected /\ SocketsFollowPage

(* page.tsx:234-237, 343-360: whoever is shown as disconnected has no      *)
(* connection, and whoever has one is shown it.                            *)
LEMMA DisconnectedHasNone ==
  ASSUME SocketInv, status = "disconnected"
  PROVE  \A s \in Sockets : ~Live(s)
BY DEF SocketInv, SocketsFollowPage

(* page.tsx:169-178: a page on the screen that has no connection may open  *)
(* one.                                                                    *)
LEMMA ConnectKeeps ==
  ASSUME SocketInv, mounted', status = "disconnected", Connect,
         appCall' # "sent"
  PROVE  SocketInv'
<1> USE DEF SocketInv, SocketsTyped, Live
<1>1. \A s \in Sockets : ~Live(s)
  BY DisconnectedHasNone
<1>2. PICK s \in Sockets : /\ sock' = [sock EXCEPT ![s] = "connecting"]
                           /\ wsRef' = s /\ status' = "connecting"
  BY DEF Connect
<1>3. SocketsTyped'
  BY <1>2
<1>4. SocketsFollowPage'
  BY <1>1, <1>2 DEF SocketsFollowPage
<1>5. WaitingIsDisconnected'
  BY DEF WaitingIsDisconnected
<1> QED BY <1>3, <1>4, <1>5

(* page.tsx:156-161, 184-241: what happens to one socket that is live does *)
(* not make the page lose sight of it, or of another.                      *)
LEMMA SocketStepKeeps ==
  ASSUME SocketInv, NEW s \in Sockets, Live(s),
         UNCHANGED <<mounted, appCall, wsRef>>,
         SocketsTyped', \A r \in Sockets \ {s} : sock'[r] = sock[r],
         status' = "disconnected" => ~Live(s)' \/ status = "disconnected"
  PROVE  SocketInv'
<1> USE DEF SocketInv, Live
<1>1. mounted /\ wsRef = s /\ status # "disconnected" /\ appCall # "sent"
  BY DEF SocketsFollowPage, WaitingIsDisconnected
<1>2. \A r \in Sockets \ {s} : ~Live(r)'
  BY <1>1 DEF SocketsFollowPage
<1>3. SocketsFollowPage'
  BY <1>1, <1>2 DEF SocketsFollowPage
<1>4. WaitingIsDisconnected'
  BY <1>1 DEF WaitingIsDisconnected
<1> QED BY <1>3, <1>4

(* The page is opened with nothing connected.                              *)
LEMMA SocketInit == Init => SocketInv
BY DEF Init, SocketInv, SocketsTyped, WaitingIsDisconnected, SocketsFollowPage,
       Live

(* Every step keeps the invariant.                                         *)
LEMMA SocketNext == SocketInv /\ [Next]_vars => SocketInv'
<1> SUFFICES ASSUME SocketInv, [Next]_vars PROVE SocketInv'
  OBVIOUS
<1> USE DEF SocketInv
<1>1. ASSUME UNCHANGED <<page, sock>> PROVE SocketInv'
  BY <1>1 DEF page, SocketsTyped, WaitingIsDisconnected, SocketsFollowPage, Live
<1>2. CASE Mount
  <2>1. /\ ~mounted /\ mounted' /\ ~app' /\ UNCHANGED <<status, wsRef, sock>>
    BY <1>2 DEF Mount, server
  <2>2. status = "disconnected" /\ \A s \in Sockets : ~Live(s)
    BY <2>1 DEF WaitingIsDisconnected, SocketsFollowPage
  <2> QED BY <2>1, <2>2 DEF SocketsTyped, WaitingIsDisconnected,
                            SocketsFollowPage, Live
<1>3. CASE Leave
  <2>1. /\ ~mounted' /\ appCall' = "none" /\ status' = "disconnected"
        /\ sock' = IF wsRef = 0 THEN sock ELSE [sock EXCEPT ![wsRef] = "closed"]
    BY <1>3 DEF Leave
  <2>2. SocketsTyped'
    BY <2>1 DEF SocketsTyped
  <2>3. \A s \in Sockets : ~Live(s)'
    BY <2>1 DEF SocketsFollowPage, SocketsTyped, Live, Sockets
  <2> QED BY <2>1, <2>2, <2>3 DEF WaitingIsDisconnected, SocketsFollowPage
<1>4. CASE AppArrives
  <2>1. appCall = "sent" /\ appCall' = "none" /\ Connect /\ UNCHANGED mounted
    BY <1>4 DEF AppArrives
  <2> QED BY <2>1, ConnectKeeps DEF WaitingIsDisconnected
<1>5. CASE AppFails
  BY <1>5 DEF AppFails, server, SocketsTyped, WaitingIsDisconnected,
              SocketsFollowPage, Live
<1>6. CASE Reconnect
  <2>1. /\ mounted /\ status = "disconnected" /\ app /\ Connect
        /\ UNCHANGED <<mounted, appCall>>
    BY <1>6 DEF Reconnect, ReconnectButton
  <2> QED BY <2>1, ConnectKeeps DEF WaitingIsDisconnected
<1>7. ASSUME NEW s \in Sockets, Network(s) PROVE SocketInv'
  <2>1. CASE Open(s)
    <3>1. /\ Live(s) /\ UNCHANGED page
          /\ sock' = [sock EXCEPT ![s] = "open"]
      BY <2>1 DEF Open, Live
    <3> QED BY <3>1, SocketStepKeeps DEF SocketsTyped, page
  <2>2. CASE Drop(s)
    <3>1. /\ Live(s) /\ UNCHANGED page
          /\ sock' = [sock EXCEPT ![s] = "dying"]
      BY <2>2 DEF Drop, Live
    <3> QED BY <3>1, SocketStepKeeps DEF SocketsTyped, page
  <2>3. CASE OnClose(s)
    <3>1. /\ Live(s) /\ UNCHANGED <<mounted, appCall, wsRef>>
          /\ sock' = [sock EXCEPT ![s] = "closed"]
      BY <2>3 DEF OnClose, Live
    <3>2. SocketsTyped' /\ ~Live(s)'
      BY <3>1 DEF SocketsTyped, Live
    <3> QED BY <3>1, <3>2, SocketStepKeeps DEF SocketsTyped
  <2>4. CASE OnMessage(s)
    <3>1. Live(s) /\ UNCHANGED <<mounted, appCall, wsRef, sock>>
      BY <2>4 DEF OnMessage, Live
    <3>2. status' = "connected" \/ UNCHANGED status
      BY <2>4 DEF OnMessage, OnEstablished, OnSucceeded, OnEvent, Track, lists
    <3> QED BY <3>1, <3>2, SocketStepKeeps DEF SocketsTyped
  <2> QED BY <1>7, <2>1, <2>2, <2>3, <2>4 DEF Network
<1>8. CASE \/ \E ch \in Channels : Join(ch) \/ LeaveChannel(ch)
           \/ ClearLogs \/ Trigger \/ ChannelsEffect
  BY <1>1, <1>8 DEF Join, LeaveChannel, ClearLogs, Trigger, ChannelsEffect, server
<1>9. CASE \/ HistoryRead \/ HistoryArrives \/ HistoryFails \/ TriggerServed
           \/ TriggerAnswered \/ OthersPublish
           \/ \E n \in Events : Broadcast(n)
           \/ \E s \in Sockets : ServerReads(s)
  BY <1>1, <1>9 DEF HistoryRead, HistoryArrives, HistoryFails, TriggerServed,
     TriggerAnswered, OthersPublish, Broadcast, CopyRecipients, SendEvent,
     ServerReads, server
<1>10. CASE UNCHANGED vars
  BY <1>1, <1>10 DEF vars, page
<1> QED
  BY <1>2, <1>3, <1>4, <1>5, <1>6, <1>7, <1>8, <1>9, <1>10 DEF Next, User, Answer

(* page.tsx:156-178, 234-237, 343-360: a connection belongs to the page on *)
(* the screen, is the one the page sends on and is shown, in every state   *)
(* of every execution.                                                     *)
THEOREM OneConnection == Spec => []SocketsFollowPage
<1>1. SocketInv => SocketsFollowPage
  BY DEF SocketInv
<1> QED BY <1>1, SocketInit, SocketNext, PTL DEF Spec

(* Without a page, and while it waits for its app, nothing is connected.   *)
THEOREM WaitingHasNoConnection ==
  Spec => [](~mounted \/ appCall = "sent" => \A s \in Sockets : ~Live(s))
<1>1. SocketInv => (~mounted \/ appCall = "sent" => \A s \in Sockets : ~Live(s))
  BY DisconnectedHasNone DEF SocketInv, WaitingIsDisconnected
<1> QED BY <1>1, SocketInit, SocketNext, PTL DEF Spec

----------------------------------------------------------------------------
(* Subscriptions.  Between the page's list and the server's table lie the  *)
(* requests under way, so the two properties are about what the table will *)
(* hold once these are served.                                             *)

Requests == {Subscribe(ch) : ch \in Channels \cup {Wildcard}}
              \cup {Unsubscribe(ch) : ch \in Channels}
Replies  == {Established} \cup {Succeeded(ch) : ch \in Channels \cup {Wildcard}}
              \cup {Event(n) : n \in Events}

(* Channel ch is in a table that holds the set of channels S when all of   *)
(* the requests in q have been served.                                     *)
EndsSubscribed(q, S, ch) ==
  \/ \E i \in DOMAIN q :
       /\ q[i] = Subscribe(ch)
       /\ \A j \in DOMAIN q : j > i => q[j] # Unsubscribe(ch)
  \/ /\ ch \in S
     /\ \A j \in DOMAIN q : q[j] # Unsubscribe(ch)

WillHave(s, ch) == EndsSubscribed(up[s], subs[s], ch)
Greeting(s) == down[s] # <<>> /\ Head(down[s]) = Established

QueuesTyped ==
  /\ up \in [Sockets -> Seq(Requests)]
  /\ down \in [Sockets -> Seq(Replies)]
  /\ subs \in [Sockets -> SUBSET (Channels \cup {Wildcard})]

(* What was joined is in the ref, what is in the ref is on the screen.     *)
ListsInv ==
  /\ joined \subseteq ref /\ ref \subseteq active /\ active \subseteq Channels
  /\ IsFiniteSet(active)

(* Only on an open socket is anything sent to the server or held by it.    *)
OnlyOpenTalks ==
  \A s \in Sockets : sock[s] # "open" => up[s] = <<>> /\ subs[s] = {}

(* An open connection is still to be greeted, or has asked for all that    *)
(* was joined.                                                             *)
WillHaveJoined ==
  \A s \in Sockets : sock[s] = "open" =>
    Greeting(s) \/ \A ch \in joined \cup {Wildcard} : WillHave(s, ch)

WillHaveListed ==
  \A s \in Sockets, ch \in Channels : WillHave(s, ch) => ch \in active

SubsInv == /\ QueuesTyped /\ ListsInv /\ OnlyOpenTalks
           /\ WillHaveJoined /\ WillHaveListed

----------------------------------------------------------------------------
(* Queues.                                                                 *)

(* The channels of the ref, as connection_established sends them, are all  *)
(* of them and no others.                                                  *)
LEMMA SetToSeqIsOnto ==
  ASSUME NEW S, IsFiniteSet(S)
  PROVE  /\ SetToSeq(S) \in Seq(S)
         /\ \A x \in S : \E i \in DOMAIN SetToSeq(S) : SetToSeq(S)[i] = x
<1> DEFINE n == Cardinality(S)
<1>1. n \in Nat /\ ExistsBijection(1..n, S)
  BY FS_CardinalityType
<1>2. PICK g \in Bijection(1..n, S) : TRUE
  BY <1>1 DEF ExistsBijection
<1>3. g \in [1..n -> S] /\ IsInjective(g)
  BY <1>2 DEF Bijection, Injection, Surjection, IsInjective
<1>4. SetToSeq(S) \in [1..n -> S] /\ IsInjective(SetToSeq(S))
  BY <1>3 DEF SetToSeq
<1>5. SetToSeq(S) \in Injection(1..n, S)
  BY <1>4 DEF Injection, IsInjective
<1>6. Cardinality(1..n) = n
  BY <1>1, FS_Interval
<1>7. SetToSeq(S) \in Surjection(1..n, S)
  BY <1>5, <1>6, FS_Injection
<1> QED BY <1>1, <1>4, <1>7 DEF Surjection

(* A request more at the end decides about its own channel only.           *)
LEMMA SentLast ==
  ASSUME NEW q \in Seq(Requests), NEW S, NEW m \in Requests, NEW ch
  PROVE  EndsSubscribed(q \o <<m>>, S, ch) <=>
           \/ m = Subscribe(ch)
           \/ m # Unsubscribe(ch) /\ EndsSubscribed(q, S, ch)
<1> DEFINE p == q \o <<m>>
<1>1. /\ Len(q) \in Nat /\ DOMAIN q = 1..Len(q)
      /\ DOMAIN p = 1..(Len(q) + 1) /\ p[Len(q) + 1] = m
      /\ \A i \in DOMAIN q : p[i] = q[i]
  OBVIOUS
<1>2. \A i \in DOMAIN p : i = Len(q) + 1 \/ i \in DOMAIN q
  BY <1>1
<1>3. Subscribe(ch) # Unsubscribe(ch)
  BY DEF Subscribe, Unsubscribe
<1> HIDE DEF p
<1>4. ASSUME m = Subscribe(ch) PROVE EndsSubscribed(p, S, ch)
  <2>1. /\ Len(q) + 1 \in DOMAIN p
        /\ \A j \in DOMAIN p : ~(j > Len(q) + 1)
    BY <1>1
  <2> QED BY <1>1, <1>4, <2>1 DEF EndsSubscribed
<1>5. ASSUME m # Unsubscribe(ch), EndsSubscribed(q, S, ch)
      PROVE  EndsSubscribed(p, S, ch)
  <2>1. \A j \in DOMAIN p : p[j] = Unsubscribe(ch) => j \in DOMAIN q
    BY <1>1, <1>2, <1>5
  <2>2. DOMAIN q \subseteq DOMAIN p
    BY <1>1
  <2> QED BY <1>1, <1>5, <2>1, <2>2 DEF EndsSubscribed
<1>6. ASSUME EndsSubscribed(p, S, ch), m # Subscribe(ch)
      PROVE  m # Unsubscribe(ch) /\ EndsSubscribed(q, S, ch)
  <2>1. Len(q) + 1 \in DOMAIN p /\ DOMAIN q \subseteq DOMAIN p
    BY <1>1
  <2>2. CASE ch \in S /\ \A j \in DOMAIN p : p[j] # Unsubscribe(ch)
    BY <1>1, <2>1, <2>2 DEF EndsSubscribed
  <2>3. CASE \E i \in DOMAIN p :
               /\ p[i] = Subscribe(ch)
               /\ \A j \in DOMAIN p : j > i => p[j] # Unsubscribe(ch)
    <3>1. PICK i \in DOMAIN p :
               /\ p[i] = Subscribe(ch)
               /\ \A j \in DOMAIN p : j > i => p[j] # Unsubscribe(ch)
      BY <2>3
    <3>2. i \in DOMAIN q /\ Len(q) + 1 > i
      BY <1>1, <1>2, <1>6, <3>1
    <3>3. m # Unsubscribe(ch)
      BY <1>1, <2>1, <3>1, <3>2
    <3>4. \A j \in DOMAIN q : j > i => q[j] # Unsubscribe(ch)
      BY <1>1, <2>1, <3>1
    <3> QED BY <1>1, <3>1, <3>2, <3>3, <3>4 DEF EndsSubscribed
  <2> QED BY <1>6, <2>2, <2>3 DEF EndsSubscribed
<1> QED BY <1>3, <1>4, <1>5, <1>6 DEF p

(* The greeting's requests add their channels.                             *)
LEMMA GreetedLast ==
  ASSUME NEW q \in Seq(Requests), NEW S, NEW ch,
         NEW p \in Seq(Requests), \A i \in DOMAIN p : p[i] # Unsubscribe(ch)
  PROVE  EndsSubscribed(q \o p, S, ch) <=>
           \/ \E i \in DOMAIN p : p[i] = Subscribe(ch)
           \/ EndsSubscribed(q, S, ch)
<1> DEFINE r == q \o p
<1>1. /\ Len(q) \in Nat /\ DOMAIN q = 1..Len(q)
      /\ Len(p) \in Nat /\ DOMAIN p = 1..Len(p)
      /\ DOMAIN r = 1..(Len(q) + Len(p))
      /\ \A i \in DOMAIN q : r[i] = q[i]
      /\ \A i \in DOMAIN p : r[Len(q) + i] = p[i]
  OBVIOUS
<1>2. \A i \in DOMAIN r :
         i \in DOMAIN q \/ (i - Len(q) \in DOMAIN p /\ r[i] = p[i - Len(q)])
  BY <1>1
<1>3. DOMAIN q \subseteq DOMAIN r
  BY <1>1
<1> HIDE DEF r
<1>4. \A j \in DOMAIN r : r[j] = Unsubscribe(ch) => j \in DOMAIN q
  BY <1>2
<1>5. ASSUME NEW i \in DOMAIN p, p[i] = Subscribe(ch)
      PROVE  EndsSubscribed(r, S, ch)
  <2>1. /\ Len(q) + i \in DOMAIN r /\ r[Len(q) + i] = Subscribe(ch)
        /\ \A j \in DOMAIN q : ~(j > Len(q) + i)
    BY <1>1, <1>5
  <2> QED BY <1>4, <2>1 DEF EndsSubscribed
<1>6. ASSUME EndsSubscribed(q, S, ch) PROVE EndsSubscribed(r, S, ch)
  BY <1>1, <1>3, <1>4, <1>6 DEF EndsSubscribed
<1>7. ASSUME EndsSubscribed(r, S, ch), ~EndsSubscribed(q, S, ch)
      PROVE  \E i \in DOMAIN p : p[i] = Subscribe(ch)
  <2>1. CASE ch \in S /\ \A j \in DOMAIN r : r[j] # Unsubscribe(ch)
    BY <1>1, <1>3, <1>7, <2>1 DEF EndsSubscribed
  <2>2. CASE \E i \in DOMAIN r :
               /\ r[i] = Subscribe(ch)
               /\ \A j \in DOMAIN r : j > i => r[j] # Unsubscribe(ch)
    <3>1. PICK i \in DOMAIN r :
               /\ r[i] = Subscribe(ch)
               /\ \A j \in DOMAIN r : j > i => r[j] # Unsubscribe(ch)
      BY <2>2
    <3>2. i \notin DOMAIN q
      BY <1>1, <1>3, <1>7, <3>1 DEF EndsSubscribed
    <3> QED BY <1>2, <3>1, <3>2
  <2> QED BY <1>7, <2>1, <2>2 DEF EndsSubscribed
<1> QED BY <1>5, <1>6, <1>7 DEF r

(* Serving a request changes the table as was foreseen.                    *)
LEMMA ServedFirst ==
  ASSUME NEW q \in Seq(Requests), q # <<>>, NEW S, NEW T, NEW ch,
         T = IF Head(q)[1] = "subscribe" THEN S \cup {Head(q)[2]}
                                         ELSE S \ {Head(q)[2]}
  PROVE  EndsSubscribed(Tail(q), T, ch) <=> EndsSubscribed(q, S, ch)
<1> DEFINE t == Tail(q)
<1>1. /\ Len(q) \in Nat \ {0} /\ DOMAIN q = 1..Len(q) /\ Head(q) = q[1]
      /\ DOMAIN t = 1..(Len(q) - 1) /\ q[1] \in Requests
      /\ \A i \in DOMAIN t : t[i] = q[i + 1] /\ i + 1 \in DOMAIN q
  OBVIOUS
<1>2. \A i \in DOMAIN q : i = 1 \/ (i - 1 \in DOMAIN t /\ t[i - 1] = q[i])
  BY <1>1
<1> HIDE DEF t
<1>3. /\ q[1] = Subscribe(ch) => ch \in T
      /\ q[1] = Unsubscribe(ch) => ch \notin T
      /\ q[1] \notin {Subscribe(ch), Unsubscribe(ch)} => (ch \in S <=> ch \in T)
  BY <1>1 DEF Requests, Subscribe, Unsubscribe
<1>4. Subscribe(ch) # Unsubscribe(ch)
  BY DEF Subscribe, Unsubscribe
<1>5. 1 \in DOMAIN q
  BY <1>1
<1>6. ASSUME \A j \in DOMAIN t : t[j] # Unsubscribe(ch)
      PROVE  \A j \in DOMAIN q : j > 1 => q[j] # Unsubscribe(ch)
  BY <1>1, <1>2, <1>6
<1>7. ASSUME EndsSubscribed(t, T, ch) PROVE EndsSubscribed(q, S, ch)
  <2>1. CASE ch \in T /\ \A j \in DOMAIN t : t[j] # Unsubscribe(ch)
    BY <1>1, <1>3, <1>5, <1>6, <2>1 DEF EndsSubscribed
  <2>2. CASE \E i \in DOMAIN t :
               /\ t[i] = Subscribe(ch)
               /\ \A j \in DOMAIN t : j > i => t[j] # Unsubscribe(ch)
    <3>1. PICK i \in DOMAIN t :
               /\ t[i] = Subscribe(ch)
               /\ \A j \in DOMAIN t : j > i => t[j] # Unsubscribe(ch)
      BY <2>2
    <3>2. i + 1 \in DOMAIN q /\ q[i + 1] = Subscribe(ch)
      BY <1>1, <3>1
    <3>3. \A j \in DOMAIN q : j > i + 1 => q[j] # Unsubscribe(ch)
      BY <1>1, <1>2, <3>1
    <3> QED BY <3>2, <3>3 DEF EndsSubscribed
  <2> QED BY <1>7, <2>1, <2>2 DEF EndsSubscribed
<1>8. ASSUME EndsSubscribed(q, S, ch) PROVE EndsSubscribed(t, T, ch)
  <2>1. CASE ch \in S /\ \A j \in DOMAIN q : q[j] # Unsubscribe(ch)
    <3>1. ch \in T
      BY <1>3, <1>5, <2>1
    <3> QED BY <1>1, <2>1, <3>1 DEF EndsSubscribed
  <2>2. CASE \E i \in DOMAIN q :
               /\ q[i] = Subscribe(ch)
               /\ \A j \in DOMAIN q : j > i => q[j] # Unsubscribe(ch)
    <3>1. PICK i \in DOMAIN q :
               /\ q[i] = Subscribe(ch)
               /\ \A j \in DOMAIN q : j > i => q[j] # Unsubscribe(ch)
      BY <2>2
    <3>2. CASE i = 1
      <4>1. \A j \in DOMAIN t : t[j] # Unsubscribe(ch)
        BY <1>1, <3>1, <3>2
      <4> QED BY <1>3, <3>1, <3>2, <4>1 DEF EndsSubscribed
    <3>3. CASE i # 1
      <4>1. i - 1 \in DOMAIN t /\ t[i - 1] = Subscribe(ch)
        BY <1>2, <3>1, <3>3
      <4>2. \A j \in DOMAIN t : j > i - 1 => t[j] # Unsubscribe(ch)
        BY <1>1, <3>1
      <4> QED BY <4>1, <4>2 DEF EndsSubscribed
    <3> QED BY <3>2, <3>3
  <2> QED BY <1>8, <2>1, <2>2 DEF EndsSubscribed
<1> QED BY <1>7, <1>8 DEF t

(* page.tsx:201-207: the requests the greeting causes.                     *)
LEMMA GreetingAsks ==
  ASSUME ListsInv, NEW chans, chans = SetToSeq(ref), NEW p,
         p = <<Subscribe(Wildcard)>> \o [i \in DOMAIN chans |-> Subscribe(chans[i])]
  PROVE  /\ p \in Seq(Requests)
         /\ \A ch : \A i \in DOMAIN p : p[i] # Unsubscribe(ch)
         /\ \A ch : (\E i \in DOMAIN p : p[i] = Subscribe(ch))
                      <=> ch \in ref \cup {Wildcard}
<1> DEFINE msgs == [i \in DOMAIN chans |-> Subscribe(chans[i])]
<1>1. IsFiniteSet(ref) /\ ref \subseteq Channels
  BY FS_Subset DEF ListsInv
<1>2. /\ chans \in Seq(ref)
      /\ \A x \in ref : \E i \in DOMAIN chans : chans[i] = x
  BY <1>1, SetToSeqIsOnto
<1>3. /\ Len(chans) \in Nat /\ DOMAIN chans = 1..Len(chans)
      /\ \A i \in DOMAIN chans : chans[i] \in ref
  BY <1>2
<1>4. \A x \in ref \cup {Wildcard} : Subscribe(x) \in Requests
  BY <1>1 DEF Requests
<1>5. msgs \in Seq(Requests) /\ Len(msgs) = Len(chans)
  BY <1>3, <1>4
<1>6. /\ DOMAIN p = 1..(1 + Len(chans)) /\ p[1] = Subscribe(Wildcard)
      /\ \A i \in DOMAIN chans : p[1 + i] = Subscribe(chans[i])
      /\ p \in Seq(Requests)
  BY <1>3, <1>4, <1>5
<1>7. \A i \in DOMAIN p : i = 1 \/ (i - 1 \in DOMAIN chans /\ p[i] = Subscribe(chans[i - 1]))
  BY <1>3, <1>6
<1>8. \A x, y : /\ Subscribe(x) # Unsubscribe(y)
                /\ Subscribe(x) = Subscribe(y) => x = y
  BY DEF Subscribe, Unsubscribe
<1>9. \A ch : \A i \in DOMAIN p : p[i] # Unsubscribe(ch)
  BY <1>6, <1>7, <1>8
<1>10. ASSUME NEW ch, NEW i \in DOMAIN p, p[i] = Subscribe(ch)
       PROVE  ch \in ref \cup {Wildcard}
  <2>1. CASE i = 1
    BY <1>6, <1>8, <1>10, <2>1
  <2>2. CASE i # 1
    <3>1. i - 1 \in DOMAIN chans /\ Subscribe(chans[i - 1]) = Subscribe(ch)
      BY <1>7, <1>10, <2>2
    <3> QED BY <1>3, <1>8, <3>1
  <2> QED BY <2>1, <2>2
<1>11. ASSUME NEW ch \in ref \cup {Wildcard}
       PROVE  \E i \in DOMAIN p : p[i] = Subscribe(ch)
  <2>1. CASE ch = Wildcard
    <3>1. 1 \in DOMAIN p
      BY <1>3, <1>6
    <3> QED BY <1>6, <2>1, <3>1
  <2>2. CASE ch \in ref
    <3>1. PICK i \in DOMAIN chans : chans[i] = ch
      BY <1>2, <2>2
    <3>2. 1 + i \in DOMAIN p
      BY <1>3, <1>6, <3>1
    <3> QED BY <1>6, <3>1, <3>2
  <2> QED BY <2>1, <2>2
<1> QED BY <1>6, <1>9, <1>10, <1>11

----------------------------------------------------------------------------
(* The steps.                                                              *)

(* The page is opened with nothing asked for.                              *)
LEMMA SubsInit == Init => SubsInv
<1> SUFFICES ASSUME Init PROVE SubsInv
  OBVIOUS
<1>1. QueuesTyped /\ OnlyOpenTalks /\ WillHaveJoined
  BY DEF Init, QueuesTyped, OnlyOpenTalks, WillHaveJoined
<1>2. ListsInv
  BY FS_EmptySet DEF Init, ListsInv
<1>3. WillHaveListed
  BY DEF Init, WillHaveListed, WillHave, EndsSubscribed
<1> QED BY <1>1, <1>2, <1>3 DEF SubsInv

(* A step that sends and serves no request and only lets the replies to    *)
(* open sockets grow.                                                      *)
LEMMA NothingAsked ==
  ASSUME SubsInv, UNCHANGED <<sock, up, subs, lists>>,
         down' \in [Sockets -> Seq(Replies)],
         \A s \in Sockets : Greeting(s) => Greeting(s)'
  PROVE  SubsInv'
<1> USE DEF SubsInv, lists
<1>1. QueuesTyped' /\ ListsInv' /\ OnlyOpenTalks'
  BY DEF QueuesTyped, ListsInv, OnlyOpenTalks
<1>2. WillHaveJoined' /\ WillHaveListed'
  BY DEF WillHaveJoined, WillHaveListed, WillHave
<1> QED BY <1>1, <1>2

(* hub.go:389-391: an event goes behind what is under way.                 *)
LEMMA SendKeepsSubs ==
  ASSUME SubsInv, NEW n \in Events, NEW s \in Sockets, SendEvent(n, s)
  PROVE  SubsInv'
<1>1. Event(n) \in Replies
  BY DEF Replies
<1>2. /\ down \in [Sockets -> Seq(Replies)] /\ UNCHANGED <<sock, up, subs, lists>>
      /\ \/ down' = [down EXCEPT ![s] = Append(@, Event(n))]
         \/ UNCHANGED down
  BY DEF SubsInv, QueuesTyped, SendEvent
<1>3. \A r \in Sockets : down'[r] \in {down[r], Append(down[r], Event(n))}
  BY <1>2
<1>4. down' \in [Sockets -> Seq(Replies)]
  <2>1. Append(down[s], Event(n)) \in Seq(Replies)
    BY <1>1, <1>2
  <2> QED BY <1>2, <2>1
<1>5. ASSUME NEW r \in Sockets, Greeting(r) PROVE Greeting(r)'
  <2>1. down[r] \in Seq(Replies) /\ down[r] # <<>>
    BY <1>2, <1>5 DEF Greeting
  <2>2. /\ Append(down[r], Event(n)) # <<>>
        /\ Head(Append(down[r], Event(n))) = Head(down[r])
    BY <1>1, <2>1
  <2> QED BY <1>3, <1>5, <2>2 DEF Greeting
<1> QED BY <1>2, <1>4, <1>5, NothingAsked

(* page.tsx:169-178, 343-360: a socket that is not open asks for nothing,  *)
(* whatever becomes of it.                                                 *)
LEMMA SocketsMove ==
  ASSUME SubsInv, UNCHANGED <<up, down, subs, lists>>,
         \A s \in Sockets : (sock[s] = "open") <=> (sock'[s] = "open")
  PROVE  SubsInv'
<1> USE DEF SubsInv, lists
<1>1. QueuesTyped' /\ ListsInv' /\ OnlyOpenTalks'
  BY DEF QueuesTyped, ListsInv, OnlyOpenTalks
<1>2. WillHaveJoined' /\ WillHaveListed'
  BY DEF WillHaveJoined, WillHaveListed, WillHave, Greeting
<1> QED BY <1>1, <1>2

(* Where nothing is open, nothing is foreseen.                             *)
LEMMA NothingForeseen ==
  ASSUME OnlyOpenTalks, NEW s \in Sockets, sock[s] # "open", NEW ch
  PROVE  ~WillHave(s, ch)
BY DEF OnlyOpenTalks, WillHave, EndsSubscribed

(* page.tsx:53-62, 130-141: the page is opened again with what it had      *)
(* stored; there is no connection then.                                    *)
LEMMA MountKeepsSubs ==
  ASSUME SocketInv, SubsInv, Mount
  PROVE  SubsInv'
<1>1. /\ UNCHANGED <<sock, up, down, subs>>
      /\ joined' = active' /\ ref' = active'
      /\ active' = IF ref = {} THEN {Default} ELSE ref
      /\ ~mounted
  BY DEF Mount, server
<1>2. \A s \in Sockets : sock[s] # "open"
  BY <1>1 DEF SocketInv, SocketsFollowPage, Live
<1>3. QueuesTyped' /\ OnlyOpenTalks' /\ WillHaveJoined'
  BY <1>1, <1>2 DEF SubsInv, QueuesTyped, OnlyOpenTalks, WillHaveJoined
<1>4. ListsInv'
  <2>1. IsFiniteSet(ref) /\ IsFiniteSet({Default})
    BY FS_Subset, FS_Singleton DEF SubsInv, ListsInv
  <2>2. active' \subseteq Channels
    BY <1>1, ConsoleAssumption DEF SubsInv, ListsInv
  <2> QED BY <1>1, <2>1, <2>2 DEF ListsInv
<1>5. WillHaveListed'
  BY <1>1, <1>2, NothingForeseen DEF SubsInv, WillHaveListed, WillHave
<1> QED BY <1>3, <1>4, <1>5 DEF SubsInv

(* page.tsx:151-163: the connection of a page that is left is closed.      *)
LEMMA LeaveKeepsSubs ==
  ASSUME SocketInv, SubsInv, Leave
  PROVE  SubsInv'
<1>1. /\ UNCHANGED lists /\ mounted
      /\ sock' = IF wsRef = 0 THEN sock ELSE [sock EXCEPT ![wsRef] = "closed"]
      /\ up' = IF wsRef = 0 THEN up ELSE [up EXCEPT ![wsRef] = <<>>]
      /\ down' = IF wsRef = 0 THEN down ELSE [down EXCEPT ![wsRef] = <<>>]
      /\ subs' = IF wsRef = 0 THEN subs ELSE [subs EXCEPT ![wsRef] = {}]
  BY DEF Leave
<1>2. QueuesTyped'
  <2>1. <<>> \in Seq(Requests) /\ <<>> \in Seq(Replies)
    OBVIOUS
  <2>2. /\ up' \in [Sockets -> Seq(Requests)]
        /\ down' \in [Sockets -> Seq(Replies)]
    BY <1>1, <2>1 DEF SubsInv, QueuesTyped
  <2>3. subs' \in [Sockets -> SUBSET (Channels \cup {Wildcard})]
    BY <1>1 DEF SubsInv, QueuesTyped
  <2> QED BY <2>2, <2>3 DEF QueuesTyped
<1>3. \A s \in Sockets : sock'[s] # "open"
  BY <1>1 DEF SocketInv, SocketsTyped, SocketsFollowPage, Live, Sockets
<1>4. OnlyOpenTalks'
  <2> SUFFICES ASSUME NEW s \in Sockets PROVE up'[s] = <<>> /\ subs'[s] = {}
    BY DEF OnlyOpenTalks
  <2>1. CASE s = wsRef /\ wsRef # 0
    BY <1>1, <2>1 DEF SubsInv, QueuesTyped
  <2>2. CASE s # wsRef \/ wsRef = 0
    <3>1. sock[s] # "open"
      BY <2>2 DEF SocketInv, SocketsFollowPage, Live, Sockets
    <3> QED BY <1>1, <2>2, <3>1 DEF SubsInv, QueuesTyped, OnlyOpenTalks
  <2> QED BY <2>1, <2>2
<1>5. WillHaveJoined'
  BY <1>3 DEF WillHaveJoined
<1>6. WillHaveListed'
  <2>1. \A s \in Sockets : up'[s] = <<>> /\ subs'[s] = {}
    BY <1>3, <1>4 DEF OnlyOpenTalks
  <2> QED BY <2>1 DEF WillHaveListed, WillHave, EndsSubscribed
<1>7. ListsInv'
  BY <1>1 DEF SubsInv, ListsInv, lists
<1> QED BY <1>2, <1>4, <1>5, <1>6, <1>7 DEF SubsInv

(* page.tsx:184-194: an opened socket is to be greeted.                    *)
LEMMA OpenKeepsSubs ==
  ASSUME SubsInv, NEW s \in Sockets, Open(s)
  PROVE  SubsInv'
<1>1. /\ UNCHANGED <<up, subs, lists>> /\ sock[s] = "connecting"
      /\ sock' = [sock EXCEPT ![s] = "open"]
      /\ down' = [down EXCEPT ![s] = <<Established>>]
  BY DEF Open
<1>2. <<Established>> \in Seq(Replies)
  BY DEF Replies
<1>3. QueuesTyped'
  <2>1. down' \in [Sockets -> Seq(Replies)]
    BY <1>1, <1>2 DEF SubsInv, QueuesTyped
  <2> QED BY <1>1, <2>1 DEF SubsInv, QueuesTyped
<1>4. OnlyOpenTalks' /\ ListsInv' /\ WillHaveListed'
  <2>1. \A r \in Sockets : sock'[r] # "open" => sock[r] # "open"
    BY <1>1
  <2> QED BY <1>1, <2>1 DEF SubsInv, OnlyOpenTalks, ListsInv, WillHaveListed,
                            WillHave, lists
<1>5. WillHaveJoined'
  <2> SUFFICES ASSUME NEW r \in Sockets, sock'[r] = "open"
               PROVE  Greeting(r)' \/ \A ch \in joined' \cup {Wildcard} : WillHave(r, ch)'
    BY DEF WillHaveJoined
  <2>1. CASE r = s
    <3>1. down'[s] = <<Established>>
      BY <1>1 DEF SubsInv, QueuesTyped
    <3> QED BY <2>1, <3>1 DEF Greeting
  <2>2. CASE r # s
    <3>1. sock[r] = "open" /\ down'[r] = down[r]
      BY <1>1, <2>2 DEF SubsInv, QueuesTyped
    <3> QED BY <1>1, <3>1 DEF SubsInv, WillHaveJoined, WillHave, Greeting, lists
  <2> QED BY <2>1, <2>2
<1> QED BY <1>3, <1>4, <1>5 DEF SubsInv

(* client.go:141-153, page.tsx:234-241: with the connection goes all that  *)
(* was asked on it.                                                        *)
LEMMA DropKeepsSubs ==
  ASSUME SubsInv, SocketsTyped, NEW s \in Sockets, Drop(s)
  PROVE  SubsInv'
<1>1. /\ UNCHANGED lists
      /\ sock' = [sock EXCEPT ![s] = "dying"]
      /\ up' = [up EXCEPT ![s] = <<>>] /\ subs' = [subs EXCEPT ![s] = {}]
  BY DEF Drop
<1>2. PICK k \in 0..Len(down[s]) :
        down' = [down EXCEPT ![s] = SubSeq(@, 1, k)]
  BY DEF Drop
<1>3. QueuesTyped'
  <2>1. down[s] \in Seq(Replies)
    BY DEF SubsInv, QueuesTyped
  <2>2. SubSeq(down[s], 1, k) \in Seq(Replies)
    BY <2>1
  <2>3. down' \in [Sockets -> Seq(Replies)]
    BY <1>2, <2>2 DEF SubsInv, QueuesTyped
  <2>4. up' \in [Sockets -> Seq(Requests)]
    BY <1>1 DEF SubsInv, QueuesTyped
  <2>5. subs' \in [Sockets -> SUBSET (Channels \cup {Wildcard})]
    BY <1>1 DEF SubsInv, QueuesTyped
  <2> QED BY <2>3, <2>4, <2>5 DEF QueuesTyped
<1>4. /\ up'[s] = <<>> /\ subs'[s] = {} /\ sock'[s] = "dying"
      /\ \A r \in Sockets \ {s} : /\ up'[r] = up[r] /\ subs'[r] = subs[r]
                                  /\ sock'[r] = sock[r] /\ down'[r] = down[r]
  BY <1>1, <1>2 DEF SubsInv, QueuesTyped, SocketsTyped
<1>5. OnlyOpenTalks' /\ ListsInv'
  BY <1>1, <1>4 DEF SubsInv, OnlyOpenTalks, ListsInv, lists
<1>6. WillHaveListed'
  <2>1. \A ch : ~WillHave(s, ch)'
    BY <1>4 DEF WillHave, EndsSubscribed
  <2> QED BY <1>1, <1>4, <2>1 DEF SubsInv, WillHaveListed, WillHave, lists
<1>7. WillHaveJoined'
  BY <1>1, <1>4 DEF SubsInv, WillHaveJoined, WillHave, Greeting, lists
<1> QED BY <1>3, <1>5, <1>6, <1>7 DEF SubsInv

(* hub.go:111-170, client.go:160-215: the server serves a request.         *)
LEMMA ServerReadsKeepsSubs ==
  ASSUME SubsInv, NEW s \in Sockets, ServerReads(s)
  PROVE  SubsInv'
<1> DEFINE m == Head(up[s])
           T == IF m[1] = "subscribe" THEN subs[s] \cup {m[2]}
                                      ELSE subs[s] \ {m[2]}
<1>1. /\ UNCHANGED <<sock, lists>> /\ sock[s] = "open" /\ up[s] # <<>>
      /\ up' = [up EXCEPT ![s] = Tail(@)]
      /\ subs' = [subs EXCEPT ![s] = T]
      /\ down' = IF m[1] = "subscribe"
                 THEN [down EXCEPT ![s] = Append(@, Succeeded(m[2]))] ELSE down
  BY DEF ServerReads, page
<1>2. up[s] \in Seq(Requests) /\ down[s] \in Seq(Replies)
  BY DEF SubsInv, QueuesTyped
<1>3. m \in Requests /\ Tail(up[s]) \in Seq(Requests)
  BY <1>1, <1>2
<1>4. m[2] \in Channels \cup {Wildcard}
  BY <1>3 DEF Requests, Subscribe, Unsubscribe
<1>5. Succeeded(m[2]) \in Replies
  BY <1>4 DEF Replies
<1> HIDE DEF m
<1>6. QueuesTyped'
  <2>1. up' \in [Sockets -> Seq(Requests)]
    BY <1>1, <1>3 DEF SubsInv, QueuesTyped
  <2>2. down' \in [Sockets -> Seq(Replies)]
    <3>1. Append(down[s], Succeeded(m[2])) \in Seq(Replies)
      BY <1>2, <1>5
    <3> QED BY <1>1, <3>1 DEF SubsInv, QueuesTyped
  <2>3. subs' \in [Sockets -> SUBSET (Channels \cup {Wildcard})]
    BY <1>1, <1>4 DEF SubsInv, QueuesTyped
  <2> QED BY <2>1, <2>2, <2>3 DEF QueuesTyped
<1>7. /\ up'[s] = Tail(up[s]) /\ subs'[s] = T
      /\ \A r \in Sockets \ {s} : up'[r] = up[r] /\ subs'[r] = subs[r]
  BY <1>1 DEF SubsInv, QueuesTyped
<1>8. \A ch : \A r \in Sockets : WillHave(r, ch)' <=> WillHave(r, ch)
  <2>1. \A ch : EndsSubscribed(Tail(up[s]), T, ch)
                  <=> EndsSubscribed(up[s], subs[s], ch)
    BY <1>1, <1>2, ServedFirst DEF m
  <2> QED BY <1>7, <2>1 DEF WillHave
<1>9. \A r \in Sockets : Greeting(r) => Greeting(r)'
  <2>1. ASSUME down[s] # <<>>
        PROVE  /\ Append(down[s], Succeeded(m[2])) # <<>>
               /\ Head(Append(down[s], Succeeded(m[2]))) = Head(down[s])
    BY <1>2, <1>5, <2>1
  <2>2. \A r \in Sockets : \/ down'[r] = down[r]
                           \/ r = s /\ down'[r] = Append(down[s], Succeeded(m[2]))
    BY <1>1 DEF SubsInv, QueuesTyped
  <2> QED BY <2>1, <2>2 DEF Greeting
<1>10. ListsInv' /\ OnlyOpenTalks'
  <2>1. \A r \in Sockets : sock'[r] # "open" => r # s
    BY <1>1
  <2> QED BY <1>1, <1>7, <2>1 DEF SubsInv, ListsInv, OnlyOpenTalks, lists
<1>11. WillHaveJoined' /\ WillHaveListed'
  BY <1>1, <1>8, <1>9 DEF SubsInv, WillHaveJoined, WillHaveListed, lists
<1> QED BY <1>6, <1>10, <1>11 DEF SubsInv

(* page.tsx:244-256: a joined channel is asked for on an open connection,  *)
(* and one that is to be greeted will be asked for then.                   *)
LEMMA JoinKeepsSubs ==
  ASSUME SocketInv, SubsInv, NEW c \in Channels, Join(c)
  PROVE  SubsInv'
<1>1. /\ UNCHANGED <<sock, down, subs>>
      /\ active' = active \cup {c} /\ ref' = active'
      /\ joined' = joined \cup {c}
      /\ up' = IF ReadyState(wsRef) /\ sock[wsRef] = "open"
               THEN [up EXCEPT ![wsRef] = @ \o <<Subscribe(c)>>] ELSE up
  BY DEF Join, Send
<1>2. Subscribe(c) \in Requests /\ Subscribe(c) # Unsubscribe(c)
  BY DEF Requests, Subscribe, Unsubscribe
<1>3. \A s \in Sockets :
        up'[s] = IF sock[s] = "open" THEN up[s] \o <<Subscribe(c)>> ELSE up[s]
  BY <1>1 DEF SubsInv, QueuesTyped, SocketInv, SocketsFollowPage, Live,
              ReadyState, Sockets
<1>4. \A s \in Sockets : up[s] \in Seq(Requests)
  BY DEF SubsInv, QueuesTyped
<1>5. QueuesTyped'
  <2>1. ASSUME NEW s \in Sockets PROVE up'[s] \in Seq(Requests)
    <3>1. up[s] \o <<Subscribe(c)>> \in Seq(Requests)
      BY <1>2, <1>4
    <3> QED BY <1>3, <1>4, <3>1
  <2>2. up' \in [Sockets -> Seq(Requests)]
    BY <1>1, <2>1 DEF SubsInv, QueuesTyped
  <2> QED BY <1>1, <2>2 DEF SubsInv, QueuesTyped
<1>6. ListsInv'
  <2>1. IsFiniteSet(active \cup {c})
    BY FS_AddElement DEF SubsInv, ListsInv
  <2> QED BY <1>1, <2>1 DEF SubsInv, ListsInv
<1>7. OnlyOpenTalks'
  BY <1>1, <1>3 DEF SubsInv, OnlyOpenTalks
<1>8. ASSUME NEW s \in Sockets, NEW ch, sock[s] = "open"
      PROVE  WillHave(s, ch)' <=> ch = c \/ WillHave(s, ch)
  <2>1. EndsSubscribed(up[s] \o <<Subscribe(c)>>, subs[s], ch) <=>
           \/ Subscribe(c) = Subscribe(ch)
           \/ Subscribe(c) # Unsubscribe(ch) /\ EndsSubscribed(up[s], subs[s], ch)
    BY <1>2, <1>4, SentLast
  <2>2. /\ Subscribe(c) = Subscribe(ch) <=> c = ch
        /\ Subscribe(c) # Unsubscribe(ch)
    BY DEF Subscribe, Unsubscribe
  <2> QED BY <1>1, <1>3, <1>8, <2>1, <2>2 DEF WillHave
<1>9. WillHaveJoined'
  BY <1>1, <1>8 DEF SubsInv, WillHaveJoined, Greeting
<1>10. WillHaveListed'
  <2>1. \A ch : \A s \in Sockets : sock[s] # "open" => ~WillHave(s, ch)'
    BY <1>1, <1>7 DEF OnlyOpenTalks, WillHave, EndsSubscribed
  <2> QED BY <1>1, <1>8, <2>1 DEF SubsInv, WillHaveListed
<1> QED BY <1>5, <1>6, <1>7, <1>9, <1>10 DEF SubsInv

(* page.tsx:258-282: a channel that is left is no longer asked for.        *)
LEMMA LeaveChannelKeepsSubs ==
  ASSUME SocketInv, SubsInv, NEW c \in Channels, LeaveChannel(c)
  PROVE  SubsInv'
<1>1. /\ UNCHANGED <<sock, down, subs>>
      /\ active' = active \ {c} /\ ref' = active'
      /\ joined' = joined \ {c}
      /\ up' = IF ReadyState(wsRef) /\ sock[wsRef] = "open"
               THEN [up EXCEPT ![wsRef] = @ \o <<Unsubscribe(c)>>] ELSE up
  BY DEF LeaveChannel, Send
<1>2. Unsubscribe(c) \in Requests
  BY DEF Requests
<1>3. \A s \in Sockets :
        up'[s] = IF sock[s] = "open" THEN up[s] \o <<Unsubscribe(c)>> ELSE up[s]
  BY <1>1 DEF SubsInv, QueuesTyped, SocketInv, SocketsFollowPage, Live,
              ReadyState, Sockets
<1>4. \A s \in Sockets : up[s] \in Seq(Requests)
  BY DEF SubsInv, QueuesTyped
<1>5. QueuesTyped'
  <2>1. ASSUME NEW s \in Sockets PROVE up'[s] \in Seq(Requests)
    <3>1. up[s] \o <<Unsubscribe(c)>> \in Seq(Requests)
      BY <1>2, <1>4
    <3> QED BY <1>3, <1>4, <3>1
  <2>2. up' \in [Sockets -> Seq(Requests)]
    BY <1>1, <2>1 DEF SubsInv, QueuesTyped
  <2> QED BY <1>1, <2>2 DEF SubsInv, QueuesTyped
<1>6. ListsInv'
  <2>1. IsFiniteSet(active \ {c})
    BY FS_RemoveElement DEF SubsInv, ListsInv
  <2> QED BY <1>1, <2>1 DEF SubsInv, ListsInv
<1>7. OnlyOpenTalks'
  BY <1>1, <1>3 DEF SubsInv, OnlyOpenTalks
<1>8. ASSUME NEW s \in Sockets, NEW ch, sock[s] = "open"
      PROVE  WillHave(s, ch)' <=> ch # c /\ WillHave(s, ch)
  <2>1. EndsSubscribed(up[s] \o <<Unsubscribe(c)>>, subs[s], ch) <=>
           \/ Unsubscribe(c) = Subscribe(ch)
           \/ Unsubscribe(c) # Unsubscribe(ch) /\ EndsSubscribed(up[s], subs[s], ch)
    BY <1>2, <1>4, SentLast
  <2>2. /\ Unsubscribe(c) = Unsubscribe(ch) <=> c = ch
        /\ Unsubscribe(c) # Subscribe(ch)
    BY DEF Subscribe, Unsubscribe
  <2> QED BY <1>1, <1>3, <1>8, <2>1, <2>2 DEF WillHave
<1>9. WillHaveJoined'
  BY <1>1, <1>8, ConsoleAssumption DEF SubsInv, WillHaveJoined, Greeting
<1>10. WillHaveListed'
  <2>1. \A ch : \A s \in Sockets : sock[s] # "open" => ~WillHave(s, ch)'
    BY <1>1, <1>7 DEF OnlyOpenTalks, WillHave, EndsSubscribed
  <2> QED BY <1>1, <1>8, <2>1 DEF SubsInv, WillHaveListed
<1> QED BY <1>5, <1>6, <1>7, <1>9, <1>10 DEF SubsInv

(* What is left of the replies when one has been handled.                  *)
LEMMA RepliesGo ==
  ASSUME QueuesTyped, NEW s \in Sockets, down[s] # <<>>,
         down' = [down EXCEPT ![s] = Tail(@)]
  PROVE  /\ down' \in [Sockets -> Seq(Replies)]
         /\ Head(down[s]) \in Replies
         /\ \A r \in Sockets \ {s} : down'[r] = down[r]
<1>1. down[s] \in Seq(Replies)
  BY DEF QueuesTyped
<1>2. Tail(down[s]) \in Seq(Replies) /\ Head(down[s]) \in Replies
  BY <1>1
<1> QED BY <1>2 DEF QueuesTyped

(* page.tsx:201-207: all of the ref is asked for when the greeting comes.  *)
LEMMA EstablishedKeepsSubs ==
  ASSUME SocketInv, SubsInv, NEW s \in Sockets, down[s] # <<>>,
         OnEstablished(s), down' = [down EXCEPT ![s] = Tail(@)],
         UNCHANGED <<sock, subs>>
  PROVE  SubsInv'
<1> DEFINE chans == SetToSeq(ref)
           p == <<Subscribe(Wildcard)>>
                  \o [i \in DOMAIN chans |-> Subscribe(chans[i])]
<1>1. /\ UNCHANGED lists
      /\ up' = IF sock[s] = "open" THEN [up EXCEPT ![s] = @ \o p] ELSE up
  BY DEF OnEstablished, Send
<1>2. /\ p \in Seq(Requests)
      /\ \A ch : \A i \in DOMAIN p : p[i] # Unsubscribe(ch)
      /\ \A ch : (\E i \in DOMAIN p : p[i] = Subscribe(ch))
                   <=> ch \in ref \cup {Wildcard}
  BY GreetingAsks DEF SubsInv
<1> HIDE DEF p
<1>3. up[s] \in Seq(Requests)
  BY DEF SubsInv, QueuesTyped
<1>4. /\ up'[s] = IF sock[s] = "open" THEN up[s] \o p ELSE up[s]
      /\ \A r \in Sockets \ {s} : up'[r] = up[r]
  BY <1>1 DEF SubsInv, QueuesTyped
<1>5. QueuesTyped'
  <2>1. up[s] \o p \in Seq(Requests)
    BY <1>2, <1>3
  <2>2. up' \in [Sockets -> Seq(Requests)]
    BY <1>1, <2>1 DEF SubsInv, QueuesTyped
  <2> QED BY <2>2, RepliesGo DEF SubsInv, QueuesTyped
<1>6. ListsInv' /\ OnlyOpenTalks'
  BY <1>1, <1>4 DEF SubsInv, ListsInv, OnlyOpenTalks, lists
<1>7. ASSUME NEW ch, sock[s] = "open"
      PROVE  WillHave(s, ch)' <=> ch \in ref \cup {Wildcard} \/ WillHave(s, ch)
  <2>1. EndsSubscribed(up[s] \o p, subs[s], ch) <=>
           \/ \E i \in DOMAIN p : p[i] = Subscribe(ch)
           \/ EndsSubscribed(up[s], subs[s], ch)
    BY <1>2, <1>3, GreetedLast
  <2> QED BY <1>2, <1>4, <1>7, <2>1 DEF WillHave
<1>8. \A ch : \A r \in Sockets \ {s} : WillHave(r, ch)' <=> WillHave(r, ch)
  BY <1>4 DEF WillHave
<1>9. sock[s] # "open" => \A ch : WillHave(s, ch)' <=> WillHave(s, ch)
  BY <1>4 DEF WillHave
<1>10. WillHaveJoined'
  <2>1. \A r \in Sockets \ {s} : Greeting(r) => Greeting(r)'
    BY RepliesGo DEF SubsInv, Greeting
  <2> QED BY <1>1, <1>7, <1>8, <2>1 DEF SubsInv, WillHaveJoined, ListsInv, lists
<1>11. WillHaveListed'
  <2>1. ref \subseteq active /\ \A ch \in Channels : ch # Wildcard
    BY ConsoleAssumption DEF SubsInv, ListsInv
  <2> QED BY <1>1, <1>7, <1>8, <1>9, <2>1 DEF SubsInv, WillHaveListed, lists
<1> QED BY <1>5, <1>6, <1>10, <1>11 DEF SubsInv

(* page.tsx:209-226: what else arrives may add a channel to the list.      *)
LEMMA OtherMessageKeepsSubs ==
  ASSUME SubsInv, NEW s \in Sockets, down[s] # <<>>, Head(down[s]) # Established,
         down' = [down EXCEPT ![s] = Tail(@)],
         UNCHANGED <<sock, up, subs, ref, joined>>,
         NEW c \in Channels, active' = active \/ active' = active \cup {c}
  PROVE  SubsInv'
<1>1. QueuesTyped' /\ OnlyOpenTalks'
  BY RepliesGo DEF SubsInv, QueuesTyped, OnlyOpenTalks
<1>2. ListsInv'
  <2>1. IsFiniteSet(active \cup {c})
    BY FS_AddElement DEF SubsInv, ListsInv
  <2> QED BY <2>1 DEF SubsInv, ListsInv
<1>3. WillHaveJoined'
  <2>1. ~Greeting(s) /\ \A r \in Sockets \ {s} : Greeting(r) => Greeting(r)'
    BY RepliesGo DEF SubsInv, Greeting
  <2> QED BY <2>1 DEF SubsInv, WillHaveJoined, WillHave
<1>4. WillHaveListed'
  BY DEF SubsInv, WillHaveListed, WillHave
<1> QED BY <1>1, <1>2, <1>3, <1>4 DEF SubsInv

(* page.tsx:197-232: every message.                                        *)
LEMMA OnMessageKeepsSubs ==
  ASSUME SocketInv, SubsInv, NEW s \in Sockets, OnMessage(s)
  PROVE  SubsInv'
<1> DEFINE m == Head(down[s])
<1>1. /\ UNCHANGED <<sock, subs>> /\ down[s] # <<>>
      /\ down' = [down EXCEPT ![s] = Tail(@)]
      /\ \/ m[1] = "established" /\ OnEstablished(s)
         \/ m[1] = "succeeded" /\ OnSucceeded(m[2])
         \/ m[1] = "event" /\ OnEvent(m[2])
  BY DEF OnMessage
<1>2. m \in Replies
  BY <1>1, RepliesGo DEF SubsInv
<1>3. CASE m[1] = "established" /\ OnEstablished(s)
  BY <1>1, <1>3, EstablishedKeepsSubs
<1>4. CASE m[1] = "succeeded" /\ OnSucceeded(m[2])
  <2>1. m # Established /\ m[2] \in Channels \cup {Wildcard}
    BY <1>2, <1>4 DEF Replies, Established, Succeeded, Event
  <2>2. CASE m[2] = Wildcard
    BY <1>1, <1>4, <2>1, <2>2, OtherMessageKeepsSubs, ConsoleAssumption
       DEF OnSucceeded, lists
  <2>3. CASE m[2] # Wildcard
    BY <1>1, <1>4, <2>1, <2>3, OtherMessageKeepsSubs DEF OnSucceeded, Track
  <2> QED BY <2>2, <2>3
<1>5. CASE m[1] = "event" /\ OnEvent(m[2])
  <2>1. m # Established /\ m[2] \in Events
    BY <1>2, <1>5 DEF Replies, Established, Succeeded, Event
  <2>2. ChannelOf[m[2]] \in Channels
    BY <2>1, ConsoleAssumption DEF Events
  <2> QED BY <1>1, <1>5, <2>1, <2>2, OtherMessageKeepsSubs DEF OnEvent, Track
<1> QED BY <1>1, <1>3, <1>4, <1>5

(* page.tsx:145-149: the effect lets the ref catch up with the list.       *)
LEMMA EffectKeepsSubs ==
  ASSUME SubsInv, ChannelsEffect
  PROVE  SubsInv'
<1>1. ref' = active /\ UNCHANGED <<sock, up, down, subs, active, joined>>
  BY DEF ChannelsEffect, server
<1>2. ListsInv' /\ QueuesTyped' /\ OnlyOpenTalks'
  BY <1>1 DEF SubsInv, ListsInv, QueuesTyped, OnlyOpenTalks
<1>3. WillHaveJoined' /\ WillHaveListed'
  BY <1>1 DEF SubsInv, WillHaveJoined, WillHaveListed, WillHave, Greeting
<1> QED BY <1>2, <1>3 DEF SubsInv

(* Every step keeps the invariant.                                         *)
LEMMA SubsNext ==
  SocketInv /\ SubsInv /\ [Next]_vars => SubsInv'
<1> SUFFICES ASSUME SocketInv, SubsInv, [Next]_vars PROVE SubsInv'
  OBVIOUS
<1>1. ASSUME UNCHANGED <<sock, up, down, subs, lists>> PROVE SubsInv'
  BY <1>1, SocketsMove
<1>2. CASE Mount
  BY <1>2, MountKeepsSubs
<1>3. CASE Leave
  BY <1>3, LeaveKeepsSubs
<1>4. ASSUME Connect, UNCHANGED lists PROVE SubsInv'
  <2>1. PICK s \in Sockets : /\ sock[s] = "none"
                             /\ sock' = [sock EXCEPT ![s] = "connecting"]
                             /\ UNCHANGED <<up, down, subs>>
    BY <1>4 DEF Connect
  <2>2. \A r \in Sockets : (sock[r] = "open") <=> (sock'[r] = "open")
    BY <2>1 DEF SocketInv, SocketsTyped
  <2> QED BY <1>4, <2>1, <2>2, SocketsMove
<1>5. CASE AppArrives \/ Reconnect
  BY <1>4, <1>5 DEF AppArrives, Reconnect
<1>6. ASSUME NEW s \in Sockets, Network(s) PROVE SubsInv'
  <2>1. CASE OnClose(s)
    <3>1. /\ sock[s] = "dying" /\ sock' = [sock EXCEPT ![s] = "closed"]
          /\ UNCHANGED <<up, down, subs, lists>>
      BY <2>1 DEF OnClose
    <3>2. \A r \in Sockets : (sock[r] = "open") <=> (sock'[r] = "open")
      BY <3>1 DEF SocketInv, SocketsTyped
    <3> QED BY <3>1, <3>2, SocketsMove
  <2> QED BY <1>6, <2>1, OpenKeepsSubs, DropKeepsSubs, OnMessageKeepsSubs
          DEF Network, SocketInv
<1>7. CASE \E ch \in Channels : Join(ch) \/ LeaveChannel(ch)
  BY <1>7, JoinKeepsSubs, LeaveChannelKeepsSubs
<1>8. CASE ClearLogs \/ Trigger \/ AppFails
  BY <1>1, <1>8 DEF ClearLogs, Trigger, AppFails, server
<1>9. CASE HistoryRead \/ HistoryArrives \/ HistoryFails \/ TriggerAnswered
  BY <1>1, <1>9 DEF HistoryRead, HistoryArrives, HistoryFails, TriggerAnswered,
                    server
<1>10. CASE OthersPublish \/ TriggerServed \/ \E n \in Events : Broadcast(n)
  <2>1. CASE OthersPublish \/ TriggerServed
    BY <1>1, <2>1 DEF OthersPublish, TriggerServed, server
  <2>2. ASSUME NEW n \in Events, CopyRecipients(n) PROVE SubsInv'
    BY <1>1, <2>2 DEF CopyRecipients, server
  <2> QED BY <1>10, <2>1, <2>2, SendKeepsSubs DEF Broadcast
<1>11. CASE ChannelsEffect
  BY <1>11, EffectKeepsSubs
<1>12. ASSUME NEW s \in Sockets, ServerReads(s) PROVE SubsInv'
  BY <1>12, ServerReadsKeepsSubs
<1>13. CASE UNCHANGED vars
  BY <1>1, <1>13 DEF vars, lists
<1> QED BY <1>2, <1>3, <1>5, <1>6, <1>7, <1>8, <1>9, <1>10, <1>11, <1>12, <1>13
        DEF Next, User, Answer

(* The invariant of connections and subscriptions together holds in every  *)
(* state of every execution.                                               *)
LEMMA SubsAlways == Spec => [](SocketInv /\ SubsInv)
BY SocketInit, SocketNext, SubsInit, SubsNext, PTL DEF Spec

(* With nothing under way, what the table will hold is what it holds.      *)
LEMMA QuietWillHave ==
  ASSUME NEW s \in Sockets, Quiet(s), NEW ch
  PROVE  WillHave(s, ch) <=> ch \in subs[s]
BY DEF Quiet, WillHave, EndsSubscribed

(* page.tsx:203-207, 244-282: once all is served, the server has the page  *)
(* subscribed to "*" and to every channel that was joined and not left.    *)
THEOREM JoinedSubscribed == Spec => []JoinedIsSubscribed
<1>1. SubsInv => JoinedIsSubscribed
  <2> SUFFICES ASSUME SubsInv, NEW s \in Sockets, Quiet(s)
               PROVE  joined \cup {Wildcard} \subseteq subs[s]
    BY DEF JoinedIsSubscribed
  <2>1. sock[s] = "open" /\ ~Greeting(s)
    BY DEF Quiet, Greeting
  <2> QED BY <2>1, QuietWillHave DEF SubsInv, WillHaveJoined
<1> QED BY <1>1, SubsAlways, PTL

(* page.tsx:220-226, 271-282: and to nothing that the panel does not list. *)
THEOREM SubscribedListed == Spec => []SubscribedIsListed
<1>1. SubsInv => SubscribedIsListed
  <2> SUFFICES ASSUME SubsInv, NEW s \in Sockets, Quiet(s)
               PROVE  subs[s] \subseteq active \cup {Wildcard}
    BY DEF SubscribedIsListed
  <2>1. subs[s] \subseteq Channels \cup {Wildcard}
    BY DEF SubsInv, QueuesTyped
  <2> QED BY <2>1, QuietWillHave DEF SubsInv, WillHaveListed
<1> QED BY <1>1, SubsAlways, PTL

----------------------------------------------------------------------------
(* The stream.  Nothing is listed twice, nor is an event above another that*)
(* was begun when it had been sent to everybody, because of all that is    *)
(* listed, or in the copy the next visit starts from, and all that is under*)
(* way, nothing is still to be sent.                                       *)

Entries == {Sys} \cup {"in", "out", "hist"} \X Events

(* Event k may be above event n.                                           *)
Follows(k, n) == k # n /\ k \notin before[n]

(* StreamInOrder, of any list.                                             *)
InOrder(seq) ==
  \A i, j \in DOMAIN seq : i < j /\ seq[i] # Sys =>
    /\ seq[i] # seq[j]
    /\ seq[i][1] = "in" /\ seq[j][1] = "in" => Follows(seq[i][2], seq[j][2])

Shown == ToSet(logs) \cup ToSet(cache)

(* The events in a queue, and that each may be above those before it.      *)
Held(q) == {n \in Events : \E i \in DOMAIN q : q[i] = Event(n)}
Rising(q) ==
  \A i, j \in DOMAIN q, n, k \in Events :
    i < j /\ q[i] = Event(n) /\ q[j] = Event(k) => Follows(k, n)

ListsInOrder ==
  /\ logs \in Seq(Entries) /\ InOrder(logs)
  /\ cache \in Seq(Entries) /\ InOrder(cache)

ShownPublished ==
  \A e \in Shown : e # Sys =>
    e[2] <= pubs /\ (e[1] = "in" => e[2] \in SentToAll)

(* A connection that is over has nothing under way to the page.            *)
OnlyLiveHears == \A s \in Sockets : down[s] # <<>> => Live(s)

ToComeIsNewer ==
  \A s \in Sockets :
    /\ Rising(down[s])
    /\ \A n \in Held(down[s]) :
         n \in SentToAll /\ \A e \in Shown : e[1] = "in" => Follows(n, e[2])

(* A test event accepted is not shown before its answer.                   *)
AcceptedIsNew ==
  sending = "accepted" => mine \in 1..pubs /\ <<"out", mine>> \notin Shown

(* Each event has one recipient at most, and what is over is over.         *)
CastsInv ==
  /\ copied \subseteq 1..pubs
  /\ rcpts \in [Events -> SUBSET Sockets]
  /\ \A n \in Events : /\ n \notin copied => rcpts[n] = {}
                       /\ \A r, s \in rcpts[n] : r = s
  /\ before \in [Events -> SUBSET SentToAll]

(* An answer of the history: some of the events, each of them once.        *)
Listing(q) ==
  q \in Seq(1..pubs) /\ \A i, j \in DOMAIN q : q[i] = q[j] => i = j

Counted == pubs \in 0..MaxEvents /\ Listing(stored) /\ Listing(snap)

StreamInv == /\ ListsInOrder /\ ShownPublished /\ OnlyLiveHears
             /\ ToComeIsNewer /\ AcceptedIsNew /\ CastsInv /\ Counted

(* What has been sent to everybody had begun.                              *)
LEMMA SentHasBegun ==
  ASSUME StreamInv
  PROVE  pubs \in Nat /\ SentToAll \subseteq 1..pubs /\ SentToAll \subseteq Events
<1>1. MaxEvents \in Nat /\ pubs \in 0..MaxEvents /\ copied \subseteq 1..pubs
  BY ConsoleAssumption DEF StreamInv, Counted, CastsInv
<1>2. SentToAll \subseteq copied
  BY DEF SentToAll
<1>3. pubs \in Nat /\ 1..pubs \subseteq Events
  BY <1>1 DEF Events
<1> QED BY <1>1, <1>2, <1>3

(* What without leaves, in the order it was.                               *)
LEMMA WithoutIsPart ==
  ASSUME NEW E, NEW seq \in Seq(E), NEW out
  PROVE  /\ Without(seq, out) \in Seq(E)
         /\ \E from \in [DOMAIN Without(seq, out) -> DOMAIN seq] :
              /\ \A k \in DOMAIN Without(seq, out) :
                   /\ Without(seq, out)[k] = seq[from[k]]
                   /\ seq[from[k]] \notin out
              /\ \A k, l \in DOMAIN Without(seq, out) : k < l => from[k] < from[l]
<1> DEFINE kept     == {i \in DOMAIN seq : seq[i] \notin out}
           place(i) == Cardinality({j \in kept : j <= i})
           n        == Cardinality(kept)
           at       == [k \in 1..n |-> CHOOSE i \in kept : place(i) = k]
           up_to    == [i \in kept |-> place(i)]
<1>1. Len(seq) \in Nat /\ DOMAIN seq = 1..Len(seq)
  OBVIOUS
<1>2. IsFiniteSet(kept) /\ n \in Nat /\ kept \subseteq 1..Len(seq)
  <2>1. IsFiniteSet(1..Len(seq)) /\ kept \subseteq 1..Len(seq)
    BY <1>1, FS_Interval
  <2>2. IsFiniteSet(kept)
    BY <2>1, FS_Subset
  <2> QED BY <2>1, <2>2, FS_CardinalityType
<1>3. ASSUME NEW i \in kept PROVE place(i) \in 1..n
  <2>1. /\ IsFiniteSet({j \in kept : j <= i})
        /\ place(i) \in Nat /\ place(i) <= n
    BY <1>2, FS_Subset, FS_CardinalityType
  <2>2. i \in {j \in kept : j <= i}
    BY <1>2
  <2>3. place(i) # 0
    BY <2>1, <2>2, FS_EmptySet
  <2> QED BY <1>2, <2>1, <2>3
<1>4. ASSUME NEW i \in kept, NEW j \in kept, i < j PROVE place(i) < place(j)
  <2> DEFINE I == {l \in kept : l <= i}
             J == {l \in kept : l <= j}
  <2>1. IsFiniteSet(J) /\ I \subseteq J /\ j \in J /\ j \notin I
    BY <1>2, <1>4, FS_Subset
  <2>2. Cardinality(I) <= Cardinality(J)
    BY <2>1, FS_Subset
  <2>3. Cardinality(I) # Cardinality(J)
    BY <2>1, FS_Subset
  <2>4. Cardinality(I) \in Nat /\ Cardinality(J) \in Nat
    BY <2>1, FS_Subset, FS_CardinalityType
  <2> QED BY <2>2, <2>3, <2>4
<1>5. /\ up_to \in [kept -> 1..n] /\ \A i \in kept : up_to[i] = place(i)
      /\ \A i, j \in kept : i < j => up_to[i] < up_to[j]
  BY <1>3, <1>4
<1> HIDE DEF place
<1>6. up_to \in Injection(kept, 1..n)
  <2>1. \A i, j \in kept : i # j => i < j \/ j < i
    BY <1>2
  <2>2. \A i, j \in kept : i # j => up_to[i] # up_to[j]
    BY <1>2, <1>5, <2>1
  <2> QED BY <1>5, <2>2 DEF Injection, IsInjective
<1>7. up_to \in Surjection(kept, 1..n)
  <2>1. IsFiniteSet(1..n) /\ Cardinality(1..n) = n
    BY <1>2, FS_Interval
  <2> QED BY <1>2, <1>6, <2>1, FS_Injection
<1>8. \A k \in 1..n : at[k] \in kept /\ place(at[k]) = k
  <2>1. \A k \in 1..n : \E i \in kept : place(i) = k
    BY <1>5, <1>7 DEF Surjection
  <2> QED BY <2>1
<1>9. Without(seq, out) = [k \in 1..n |-> seq[at[k]]]
  BY DEF Without, place
<1> HIDE DEF at
<1>10. \A k, l \in 1..n : k < l => at[k] < at[l]
  <2> SUFFICES ASSUME NEW k \in 1..n, NEW l \in 1..n, k < l PROVE at[k] < at[l]
    OBVIOUS
  <2>1. at[k] \in kept /\ at[l] \in kept /\ up_to[at[k]] = k /\ up_to[at[l]] = l
    BY <1>5, <1>8
  <2>2. at[k] # at[l] /\ ~(at[l] < at[k])
    BY <1>2, <1>5, <2>1
  <2> QED BY <1>2, <2>1, <2>2
<1>11. \A k \in 1..n : at[k] \in DOMAIN seq /\ seq[at[k]] \notin out
  BY <1>8
<1>12. at \in [1..n -> DOMAIN seq]
  BY <1>11 DEF at
<1>13. Without(seq, out) \in Seq(E) /\ DOMAIN Without(seq, out) = 1..n
  <2>1. \A k \in 1..n : seq[at[k]] \in E
    BY <1>11
  <2> QED BY <1>2, <1>9, <2>1
<1> QED BY <1>9, <1>10, <1>11, <1>12, <1>13

(* A part of a list that is in order is in order.                          *)
LEMMA WithoutInOrder ==
  ASSUME NEW seq \in Seq(Entries), InOrder(seq), NEW out
  PROVE  /\ Without(seq, out) \in Seq(Entries) /\ InOrder(Without(seq, out))
         /\ ToSet(Without(seq, out)) \subseteq ToSet(seq) \ out
<1> DEFINE r == Without(seq, out)
<1>1. r \in Seq(Entries)
  BY WithoutIsPart
<1>2. PICK from \in [DOMAIN r -> DOMAIN seq] :
        /\ \A k \in DOMAIN r : r[k] = seq[from[k]] /\ seq[from[k]] \notin out
        /\ \A k, l \in DOMAIN r : k < l => from[k] < from[l]
  BY WithoutIsPart
<1> HIDE DEF r
<1>3. InOrder(r)
  BY <1>2 DEF InOrder
<1>4. ToSet(r) \subseteq ToSet(seq) \ out
  BY <1>2 DEF ToSet
<1> QED BY <1>1, <1>3, <1>4 DEF r

(* And so are the first of its entries.                                    *)
LEMMA TakeInOrder ==
  ASSUME NEW seq \in Seq(Entries), InOrder(seq)
  PROVE  /\ Take(seq) \in Seq(Entries) /\ InOrder(Take(seq))
         /\ ToSet(Take(seq)) \subseteq ToSet(seq)
<1> DEFINE n == IF Len(seq) < LogLimit THEN Len(seq) ELSE LogLimit
           r == SubSeq(seq, 1, n)
<1>1. Len(seq) \in Nat /\ DOMAIN seq = 1..Len(seq) /\ n \in 0..Len(seq)
  BY ConsoleAssumption
<1>2. /\ r \in Seq(Entries) /\ DOMAIN r = 1..n
      /\ \A i \in 1..n : r[i] = seq[i]
  BY <1>1
<1>3. \A i \in DOMAIN r : i \in DOMAIN seq /\ r[i] = seq[i]
  BY <1>1, <1>2
<1> HIDE DEF r
<1>4. InOrder(r) /\ ToSet(r) \subseteq ToSet(seq)
  BY <1>3 DEF InOrder, ToSet
<1> QED BY <1>2, <1>4 DEF r, Take

(* One list on top of another.                                             *)
LEMMA OnTopInOrder ==
  ASSUME NEW p \in Seq(Entries), InOrder(p), NEW q \in Seq(Entries), InOrder(q),
         \A e \in ToSet(p), f \in ToSet(q) : e # Sys =>
           e # f /\ (e[1] = "in" /\ f[1] = "in" => Follows(e[2], f[2]))
  PROVE  /\ p \o q \in Seq(Entries) /\ InOrder(p \o q)
         /\ ToSet(p \o q) \subseteq ToSet(p) \cup ToSet(q)
<1> DEFINE r == p \o q
<1>1. /\ Len(p) \in Nat /\ DOMAIN p = 1..Len(p)
      /\ Len(q) \in Nat /\ DOMAIN q = 1..Len(q)
      /\ r \in Seq(Entries) /\ DOMAIN r = 1..(Len(p) + Len(q))
      /\ \A i \in DOMAIN p : r[i] = p[i]
      /\ \A i \in DOMAIN q : r[Len(p) + i] = q[i]
  OBVIOUS
<1> HIDE DEF r
<1>2. \A i \in DOMAIN r :
        \/ i \in DOMAIN p /\ r[i] = p[i]
        \/ i - Len(p) \in DOMAIN q /\ r[i] = q[i - Len(p)] /\ i > Len(p)
  <2> SUFFICES ASSUME NEW i \in DOMAIN r, i \notin DOMAIN p
               PROVE  i - Len(p) \in DOMAIN q /\ r[i] = q[i - Len(p)] /\ i > Len(p)
    BY <1>1
  <2>1. i - Len(p) \in 1..Len(q) /\ i > Len(p) /\ Len(p) + (i - Len(p)) = i
    BY <1>1
  <2> QED BY <1>1, <2>1
<1>3. ToSet(r) \subseteq ToSet(p) \cup ToSet(q)
  BY <1>2 DEF ToSet
<1>4. InOrder(r)
  <2> SUFFICES ASSUME NEW i \in DOMAIN r, NEW j \in DOMAIN r, i < j, r[i] # Sys
               PROVE  /\ r[i] # r[j]
                      /\ r[i][1] = "in" /\ r[j][1] = "in" =>
                           Follows(r[i][2], r[j][2])
    BY DEF InOrder
  <2>1. CASE i \in DOMAIN p /\ j \in DOMAIN p
    BY <1>1, <2>1 DEF InOrder
  <2>2. CASE i \in DOMAIN p /\ j \notin DOMAIN p
    <3>1. r[i] \in ToSet(p) /\ r[j] \in ToSet(q)
      BY <1>1, <1>2, <2>2 DEF ToSet
    <3> QED BY <3>1
  <2>3. CASE i \notin DOMAIN p
    <3>1. /\ i - Len(p) \in DOMAIN q /\ r[i] = q[i - Len(p)]
          /\ j - Len(p) \in DOMAIN q /\ r[j] = q[j - Len(p)]
          /\ i - Len(p) < j - Len(p)
      BY <1>1, <1>2, <2>3
    <3> QED BY <3>1 DEF InOrder
  <2> QED BY <2>1, <2>2, <2>3
<1> QED BY <1>1, <1>3, <1>4 DEF r

(* page.tsx:87-95: the list and its copy.                                  *)
LEMMA SetLogsInOrder ==
  ASSUME ListsInOrder, NEW new \in Seq(Entries), InOrder(new), SetLogs(new),
         UNCHANGED before
  PROVE  ListsInOrder' /\ Shown' \subseteq Shown \cup ToSet(new)
<1>1. logs' = new
      /\ cache' = IF new = <<>> THEN cache ELSE Without(new, SystemEvents)
  BY DEF SetLogs
<1>2. /\ cache' \in Seq(Entries) /\ InOrder(cache')
      /\ ToSet(cache') \subseteq ToSet(cache) \cup ToSet(new)
  BY <1>1, WithoutInOrder DEF ListsInOrder
<1>3. ListsInOrder'
  BY <1>1, <1>2 DEF ListsInOrder, InOrder, Follows
<1> QED BY <1>1, <1>2, <1>3 DEF Shown

(* page.tsx:284-297: entries of the connection on top.                     *)
LEMMA SysLogged ==
  ASSUME ListsInOrder, NEW entries \in Seq({Sys}), AddLogs(entries),
         UNCHANGED before
  PROVE  ListsInOrder' /\ Shown' \subseteq Shown \cup {Sys}
<1> DEFINE p == Reverse(entries)
<1>1. \A i \in DOMAIN p : p[i] = Sys
  BY DEF Reverse
<1>2. p \in Seq(Entries)
  BY DEF Reverse, Entries
<1> HIDE DEF p
<1>3. InOrder(p) /\ ToSet(p) \subseteq {Sys}
  BY <1>1 DEF InOrder, ToSet
<1>4. /\ p \o logs \in Seq(Entries) /\ InOrder(p \o logs)
      /\ ToSet(p \o logs) \subseteq ToSet(p) \cup ToSet(logs)
  BY <1>2, <1>3, OnTopInOrder DEF ListsInOrder
<1>5. /\ Take(p \o logs) \in Seq(Entries) /\ InOrder(Take(p \o logs))
      /\ ToSet(Take(p \o logs)) \subseteq ToSet(p \o logs)
  BY <1>4, TakeInOrder
<1>6. SetLogs(Take(p \o logs))
  BY DEF AddLogs, p
<1> QED BY <1>3, <1>4, <1>5, <1>6, SetLogsInOrder DEF Shown

(* page.tsx:284-297: one event on top.                                     *)
LEMMA EventLogged ==
  ASSUME ListsInOrder, NEW e \in Entries, e \notin Shown, AddLogs(<<e>>),
         \A f \in Shown : e[1] = "in" /\ f[1] = "in" => Follows(e[2], f[2]),
         UNCHANGED before
  PROVE  ListsInOrder' /\ Shown' \subseteq Shown \cup {e}
<1> DEFINE p == <<e>>
<1>1. Reverse(p) = p /\ p \in Seq(Entries) /\ DOMAIN p = {1} /\ p[1] = e
  BY DEF Reverse
<1> HIDE DEF p
<1>2. InOrder(p) /\ ToSet(p) = {e}
  BY <1>1 DEF InOrder, ToSet
<1>3. /\ p \o logs \in Seq(Entries) /\ InOrder(p \o logs)
      /\ ToSet(p \o logs) \subseteq ToSet(p) \cup ToSet(logs)
  BY <1>1, <1>2, OnTopInOrder DEF ListsInOrder, Shown
<1>4. /\ Take(p \o logs) \in Seq(Entries) /\ InOrder(Take(p \o logs))
      /\ ToSet(Take(p \o logs)) \subseteq ToSet(p \o logs)
  BY <1>3, TakeInOrder
<1>5. SetLogs(Take(p \o logs))
  BY <1>1 DEF AddLogs, p
<1> QED BY <1>2, <1>3, <1>4, <1>5, SetLogsInOrder DEF Shown

----------------------------------------------------------------------------
(* The events under way.                                                   *)

(* Any of the first elements of a queue, and all but the first.            *)
LEMMA QueuePart ==
  ASSUME NEW q \in Seq(Replies), Rising(q), NEW k \in 0..Len(q)
  PROVE  Rising(SubSeq(q, 1, k)) /\ Held(SubSeq(q, 1, k)) \subseteq Held(q)
<1> DEFINE r == SubSeq(q, 1, k)
<1>1. \A i \in DOMAIN r : i \in DOMAIN q /\ r[i] = q[i]
  OBVIOUS
<1> HIDE DEF r
<1>2. Rising(r) /\ Held(r) \subseteq Held(q)
  BY <1>1 DEF Rising, Held
<1> QED BY <1>2 DEF r

(* Taking the first reply of a queue: the rest may be above it.            *)
LEMMA QueueTail ==
  ASSUME NEW q \in Seq(Replies), q # <<>>, Rising(q)
  PROVE  /\ Rising(Tail(q)) /\ Held(Tail(q)) \subseteq Held(q)
         /\ \A n \in Events : Head(q) = Event(n) =>
              n \in Held(q) /\ \A k \in Held(Tail(q)) : Follows(k, n)
<1> DEFINE r == Tail(q)
<1>1. /\ Len(q) \in Nat \ {0} /\ DOMAIN q = 1..Len(q) /\ Head(q) = q[1]
      /\ DOMAIN r = 1..(Len(q) - 1)
      /\ \A i \in DOMAIN r : r[i] = q[i + 1] /\ i + 1 \in DOMAIN q
  OBVIOUS
<1> HIDE DEF r
<1>2. 1 \in DOMAIN q
  BY <1>1
<1>3. Held(r) \subseteq Held(q)
  BY <1>1 DEF Held
<1>4. Rising(r)
  <2> SUFFICES ASSUME NEW i \in DOMAIN r, NEW j \in DOMAIN r,
                      NEW n \in Events, NEW k \in Events,
                      i < j, r[i] = Event(n), r[j] = Event(k)
               PROVE  Follows(k, n)
    BY DEF Rising
  <2>1. i + 1 < j + 1
    BY <1>1
  <2> QED BY <1>1, <2>1 DEF Rising
<1>5. ASSUME NEW n \in Events, Head(q) = Event(n)
      PROVE  n \in Held(q) /\ \A k \in Held(r) : Follows(k, n)
  <2>1. \A j \in DOMAIN r : 1 < j + 1
    BY <1>1
  <2> QED BY <1>1, <1>2, <1>5, <2>1 DEF Held, Rising
<1> QED BY <1>3, <1>4, <1>5 DEF r

(* An element more.                                                        *)
LEMMA QueueMore ==
  ASSUME NEW q \in Seq(Replies), Rising(q), NEW m \in Replies,
         \A n \in Events : m = Event(n) => \A k \in Held(q) : Follows(n, k)
  PROVE  /\ Rising(Append(q, m))
         /\ Held(Append(q, m)) \subseteq Held(q) \cup {n \in Events : m = Event(n)}
<1> DEFINE r == Append(q, m)
<1>1. /\ Len(q) \in Nat /\ DOMAIN q = 1..Len(q)
      /\ DOMAIN r = 1..(Len(q) + 1) /\ r[Len(q) + 1] = m
      /\ \A i \in DOMAIN q : r[i] = q[i]
  OBVIOUS
<1>2. \A i \in DOMAIN r : i = Len(q) + 1 \/ i \in DOMAIN q
  BY <1>1
<1> HIDE DEF r
<1>3. Held(r) \subseteq Held(q) \cup {n \in Events : m = Event(n)}
  BY <1>1, <1>2 DEF Held
<1>4. Rising(r)
  <2> SUFFICES ASSUME NEW i \in DOMAIN r, NEW j \in DOMAIN r,
                      NEW n \in Events, NEW k \in Events,
                      i < j, r[i] = Event(n), r[j] = Event(k)
               PROVE  Follows(k, n)
    BY DEF Rising
  <2>1. i \in DOMAIN q
    BY <1>1, <1>2
  <2>2. CASE j \in DOMAIN q
    BY <1>1, <2>1, <2>2 DEF Rising
  <2>3. CASE j = Len(q) + 1
    <3>1. m = Event(k) /\ n \in Held(q)
      BY <1>1, <2>1, <2>3 DEF Held
    <3> QED BY <3>1
  <2> QED BY <1>2, <2>2, <2>3
<1> QED BY <1>3, <1>4 DEF r

(* A queue of no events.                                                   *)
LEMMA QueueOfNone ==
  /\ Rising(<<>>) /\ Held(<<>>) = {}
  /\ Rising(<<Established>>) /\ Held(<<Established>>) = {}
<1>1. \A n : Established # Event(n)
  BY DEF Established, Event
<1> QED BY <1>1 DEF Rising, Held

----------------------------------------------------------------------------
(* The steps.                                                              *)

(* A step of no publication that shows what is in X, which all that is     *)
(* under way may be above, and lets nothing come that was not to come      *)
(* before.                                                                 *)
LEMMA StreamStep ==
  ASSUME StreamInv, UNCHANGED casts, ListsInOrder', Listing(snap'),
         NEW X, Shown' \subseteq Shown \cup X,
         \A e \in X : e # Sys =>
           e[2] <= pubs /\ (e[1] = "in" => e[2] \in SentToAll),
         OnlyLiveHears',
         \A s \in Sockets :
           /\ Rising(down'[s]) /\ Held(down'[s]) \subseteq Held(down[s])
           /\ \A n \in Held(down'[s]), e \in X : e[1] = "in" => Follows(n, e[2]),
         sending' = "accepted" => /\ sending = "accepted" /\ mine' = mine
                                  /\ <<"out", mine>> \notin X
  PROVE  StreamInv'
<1>1. UNCHANGED <<pubs, stored, copied, rcpts, before>> /\ SentToAll' = SentToAll
  BY DEF casts, SentToAll
<1>2. ShownPublished'
  BY <1>1 DEF StreamInv, ShownPublished
<1>3. ToComeIsNewer'
  <2> SUFFICES ASSUME NEW s \in Sockets
               PROVE  /\ Rising(down[s])'
                      /\ \A n \in Held(down'[s]) : n \in SentToAll /\
                           \A e \in Shown' : e[1] = "in" => Follows(n, e[2])'
    BY <1>1 DEF ToComeIsNewer, Held
  <2>1. Rising(down[s])'
    BY <1>1 DEF Rising, Follows
  <2>2. \A n, k : Follows(n, k)' <=> Follows(n, k)
    BY <1>1 DEF Follows
  <2> QED BY <2>1, <2>2 DEF StreamInv, ToComeIsNewer
<1>4. AcceptedIsNew'
  BY <1>1 DEF StreamInv, AcceptedIsNew
<1>5. Counted' /\ CastsInv'
  BY <1>1 DEF StreamInv, Counted, Listing, CastsInv
<1> QED BY <1>2, <1>3, <1>4, <1>5 DEF StreamInv

(* Nothing but entries of the connection is shown.                         *)
LEMMA CalmStep ==
  ASSUME StreamInv, UNCHANGED casts, Listing(snap'),
         UNCHANGED stream \/ \E entries \in Seq({Sys}) : AddLogs(entries),
         OnlyLiveHears',
         \A s \in Sockets :
           Rising(down'[s]) /\ Held(down'[s]) \subseteq Held(down[s]),
         sending' = "accepted" => sending = "accepted" /\ mine' = mine
  PROVE  StreamInv'
<1>1. ListsInOrder' /\ Shown' \subseteq Shown \cup {Sys}
  <2>1. CASE UNCHANGED stream
    BY <2>1 DEF StreamInv, ListsInOrder, Shown, stream, InOrder, Follows, casts
  <2>2. CASE \E entries \in Seq({Sys}) : AddLogs(entries)
    BY <2>2, SysLogged DEF StreamInv, casts
  <2> QED BY <2>1, <2>2
<1>2. Sys[1] # "in" /\ \A n : Sys # <<"out", n>>
  BY DEF Sys
<1> DEFINE X == {Sys}
<1>3. /\ \A e \in X : e # Sys =>
           e[2] <= pubs /\ (e[1] = "in" => e[2] \in SentToAll)
      /\ <<"out", mine>> \notin X
  BY <1>2
<1>4. \A s \in Sockets :
        /\ Rising(down'[s]) /\ Held(down'[s]) \subseteq Held(down[s])
        /\ \A n \in Held(down'[s]), e \in X : e[1] = "in" => Follows(n, e[2])
  BY <1>2
<1>5. Shown' \subseteq Shown \cup X
  BY <1>1
<1> HIDE DEF X
<1> QED BY <1>1, <1>3, <1>4, <1>5, StreamStep

(* What is shown is left as it is, or is less.                             *)
LEMMA NothingShown ==
  ASSUME StreamInv, UNCHANGED <<sock, down, casts, snap, sending, mine>>,
         ListsInOrder', Shown' \subseteq Shown
  PROVE  StreamInv'
<1> DEFINE X == {}
<1>1. OnlyLiveHears' /\ Listing(snap')
  BY DEF StreamInv, OnlyLiveHears, Live, Counted
<1>2. /\ Shown' \subseteq Shown \cup X
      /\ \A e \in X : e # Sys =>
           e[2] <= pubs /\ (e[1] = "in" => e[2] \in SentToAll)
      /\ <<"out", mine>> \notin X
  OBVIOUS
<1>3. \A s \in Sockets :
        /\ Rising(down'[s]) /\ Held(down'[s]) \subseteq Held(down[s])
        /\ \A n \in Held(down'[s]), e \in X : e[1] = "in" => Follows(n, e[2])
  BY DEF StreamInv, ToComeIsNewer
<1> HIDE DEF X
<1> QED BY <1>1, <1>2, <1>3, StreamStep

(* The same where nothing happens to the queues.                           *)
LEMMA QueuesAlone ==
  ASSUME StreamInv, UNCHANGED <<casts, down, sock>>, Listing(snap'),
         UNCHANGED stream \/ \E entries \in Seq({Sys}) : AddLogs(entries),
         sending' = "accepted" => sending = "accepted" /\ mine' = mine
  PROVE  StreamInv'
<1>1. OnlyLiveHears'
  BY DEF StreamInv, OnlyLiveHears, Live
<1>2. \A s \in Sockets : Rising(down'[s]) /\ Held(down'[s]) \subseteq Held(down[s])
  BY DEF StreamInv, ToComeIsNewer
<1> QED BY <1>1, <1>2, CalmStep

(* What a sequence is, and the first of its elements are.                  *)
LEMMA SeqElements ==
  ASSUME NEW S, NEW q \in Seq(S)
  PROVE  /\ Len(q) \in Nat /\ DOMAIN q = 1..Len(q)
         /\ \A i \in DOMAIN q : q[i] \in S
OBVIOUS

LEMMA SeqFirst ==
  ASSUME NEW S, NEW q \in Seq(S), NEW n \in 0..Len(q)
  PROVE  /\ SubSeq(q, 1, n) \in Seq(S) /\ DOMAIN SubSeq(q, 1, n) = 1..n
         /\ \A i \in 1..n : SubSeq(q, 1, n)[i] = q[i] /\ i \in DOMAIN q
OBVIOUS

LEMMA SeqOfFunction ==
  ASSUME NEW S, NEW n \in Nat, NEW q \in [1..n -> S]
  PROVE  q \in Seq(S) /\ Len(q) = n /\ DOMAIN q = 1..n
OBVIOUS

(* No event, and the newest of some first.                                 *)
LEMMA ListingOfNone == Listing(<<>>)
BY DEF Listing

LEMMA NewestListing ==
  ASSUME NEW q, Listing(q)
  PROVE  Listing(Take(Reverse(q)))
<1> DEFINE rev == Reverse(q)
           n   == IF Len(rev) < LogLimit THEN Len(rev) ELSE LogLimit
           t   == SubSeq(rev, 1, n)
<1>1. q \in Seq(1..pubs) /\ \A i, j \in DOMAIN q : q[i] = q[j] => i = j
  BY DEF Listing
<1>2. /\ Len(q) \in Nat /\ DOMAIN q = 1..Len(q)
      /\ \A i \in DOMAIN q : q[i] \in 1..pubs
  BY <1>1, SeqElements
<1>3. /\ rev \in Seq(1..pubs) /\ Len(rev) = Len(q) /\ DOMAIN rev = 1..Len(q)
      /\ \A i, j \in DOMAIN rev : rev[i] = rev[j] => i = j
  <2>1. /\ rev = [i \in 1..Len(q) |-> q[(Len(q) - i) + 1]]
        /\ \A i \in 1..Len(q) : (Len(q) - i) + 1 \in DOMAIN q
    BY <1>2 DEF Reverse
  <2> HIDE DEF rev
  <2>2. rev \in [1..Len(q) -> 1..pubs]
    BY <1>2, <2>1
  <2>3. \A i, j \in 1..Len(q) : rev[i] = rev[j] => i = j
    <3> SUFFICES ASSUME NEW i \in 1..Len(q), NEW j \in 1..Len(q), rev[i] = rev[j]
                 PROVE  i = j
      OBVIOUS
    <3>1. (Len(q) - i) + 1 = (Len(q) - j) + 1
      BY <1>1, <2>1
    <3> QED BY <1>2, <3>1
  <2>4. rev \in Seq(1..pubs) /\ Len(rev) = Len(q) /\ DOMAIN rev = 1..Len(q)
    BY <1>2, <2>2, SeqOfFunction
  <2> QED BY <2>3, <2>4
<1> HIDE DEF rev
<1>4. n \in 0..Len(rev) /\ Len(rev) \in Nat
  BY <1>2, <1>3, ConsoleAssumption
<1> HIDE DEF n
<1>5. /\ t \in Seq(1..pubs) /\ DOMAIN t = 1..n
      /\ \A i \in 1..n : t[i] = rev[i] /\ i \in DOMAIN rev
  BY <1>3, <1>4, SeqFirst
<1>6. t = Take(Reverse(q))
  BY DEF Take, rev, n
<1> HIDE DEF t
<1>7. Listing(t)
  BY <1>3, <1>5 DEF Listing
<1> QED BY <1>6, <1>7

(* The page is opened with an empty stream.                                *)
LEMMA StreamInit == Init => StreamInv
<1> SUFFICES ASSUME Init PROVE StreamInv
  OBVIOUS
<1>1. /\ logs = <<>> /\ cache = <<>> /\ pubs = 0 /\ sending = "none"
      /\ snap = <<>> /\ stored = <<>> /\ copied = {}
      /\ rcpts = [n \in Events |-> {}] /\ before = [n \in Events |-> {}]
  BY DEF Init
<1>2. ListsInOrder /\ Shown = {}
  BY <1>1 DEF ListsInOrder, InOrder, Shown, ToSet
<1>3. OnlyLiveHears /\ ToComeIsNewer
  <2>1. \A s \in Sockets : down[s] = <<>>
    BY DEF Init
  <2> QED BY <2>1, QueueOfNone DEF OnlyLiveHears, ToComeIsNewer
<1>4. ShownPublished /\ AcceptedIsNew /\ Counted
  BY <1>1, <1>2, ListingOfNone, ConsoleAssumption
     DEF ShownPublished, AcceptedIsNew, Counted
<1>5. CastsInv
  BY <1>1 DEF CastsInv
<1> QED BY <1>2, <1>3, <1>4, <1>5 DEF StreamInv

(* page.tsx:73-85: the stream starts from its copy.                        *)
LEMMA MountKeepsStream ==
  ASSUME StreamInv, Mount
  PROVE  StreamInv'
<1>1. /\ SetLogs(cache) /\ UNCHANGED <<sock, down, casts, snap, sending, mine>>
  BY DEF Mount, server
<1>2. ListsInOrder' /\ Shown' \subseteq Shown
  BY <1>1, SetLogsInOrder DEF StreamInv, ListsInOrder, Shown, casts
<1> QED BY <1>1, <1>2, NothingShown

(* page.tsx:151-163: what was under way to the page is lost when it is     *)
(* left.                                                                   *)
LEMMA LeaveKeepsStream ==
  ASSUME SocketInv, QueuesTyped, StreamInv, Leave
  PROVE  StreamInv'
<1>1. /\ UNCHANGED <<logs, cache, casts>> /\ snap' = <<>> /\ sending' = "none"
      /\ sock' = IF wsRef = 0 THEN sock ELSE [sock EXCEPT ![wsRef] = "closed"]
      /\ down' = IF wsRef = 0 THEN down ELSE [down EXCEPT ![wsRef] = <<>>]
  BY DEF Leave, stream
<1>2. \A s \in Sockets : down'[s] = <<>>
  <2> SUFFICES ASSUME NEW s \in Sockets PROVE down'[s] = <<>>
    OBVIOUS
  <2>1. CASE s = wsRef /\ wsRef # 0
    BY <1>1, <2>1 DEF QueuesTyped
  <2>2. CASE s # wsRef \/ wsRef = 0
    <3>1. ~Live(s)
      BY <2>2 DEF SocketInv, SocketsFollowPage, Sockets
    <3> QED BY <1>1, <2>2, <3>1 DEF QueuesTyped, StreamInv, OnlyLiveHears
  <2> QED BY <2>1, <2>2
<1>3. \A s \in Sockets : Rising(down'[s]) /\ Held(down'[s]) \subseteq Held(down[s])
  BY <1>2, QueueOfNone
<1>4. OnlyLiveHears'
  BY <1>2 DEF OnlyLiveHears
<1>5. Listing(snap')
  BY <1>1, ListingOfNone
<1> QED BY <1>1, <1>3, <1>4, <1>5, CalmStep DEF stream

(* page.tsx:98-104: the list and its copy are emptied.                     *)
LEMMA ClearKeepsStream ==
  ASSUME StreamInv, ClearLogs
  PROVE  StreamInv'
<1>1. /\ logs' = <<>> /\ cache' = <<>>
      /\ UNCHANGED <<sock, down, casts, snap, sending, mine>>
  BY DEF ClearLogs, server, calls
<1>2. ListsInOrder' /\ Shown' \subseteq Shown
  BY <1>1 DEF ListsInOrder, InOrder, Shown, ToSet
<1> QED BY <1>1, <1>2, NothingShown

(* page.tsx:169-178: a new socket, on which nothing comes yet.             *)
LEMMA ConnectKeepsStream ==
  ASSUME SocketInv, StreamInv, Connect, UNCHANGED <<stream, calls, casts>>
  PROVE  StreamInv'
<1>1. PICK s \in Sockets : /\ sock[s] = "none"
                           /\ sock' = [sock EXCEPT ![s] = "connecting"]
                           /\ UNCHANGED down
  BY DEF Connect
<1>2. OnlyLiveHears'
  BY <1>1 DEF StreamInv, OnlyLiveHears, Live, SocketInv, SocketsTyped
<1>3. \A r \in Sockets : Rising(down'[r]) /\ Held(down'[r]) \subseteq Held(down[r])
  BY <1>1 DEF StreamInv, ToComeIsNewer
<1>4. Listing(snap') /\ UNCHANGED <<sending, mine>>
  BY DEF StreamInv, Counted, calls
<1> QED BY <1>2, <1>3, <1>4, CalmStep

(* page.tsx:184-194.                                                       *)
LEMMA OpenKeepsStream ==
  ASSUME SocketInv, QueuesTyped, StreamInv, NEW s \in Sockets, Open(s)
  PROVE  StreamInv'
<1>1. /\ sock' = [sock EXCEPT ![s] = "open"]
      /\ down' = [down EXCEPT ![s] = <<Established>>]
      /\ AddLogs(<<Sys>>) /\ UNCHANGED <<casts, snap, sending, mine>>
  BY DEF Open, calls
<1>2. /\ down'[s] = <<Established>> /\ sock'[s] = "open"
      /\ \A r \in Sockets \ {s} : down'[r] = down[r] /\ sock'[r] = sock[r]
  BY <1>1 DEF QueuesTyped, SocketInv, SocketsTyped
<1>3. OnlyLiveHears'
  BY <1>2 DEF StreamInv, OnlyLiveHears, Live
<1>4. \A r \in Sockets : Rising(down'[r]) /\ Held(down'[r]) \subseteq Held(down[r])
  BY <1>2, QueueOfNone DEF StreamInv, ToComeIsNewer
<1>5. Listing(snap') /\ <<Sys>> \in Seq({Sys})
  BY <1>1 DEF StreamInv, Counted
<1> QED BY <1>1, <1>3, <1>4, <1>5, CalmStep

(* page.tsx:234-241, client.go:141-153: part of what was under way still   *)
(* comes.                                                                  *)
LEMMA DropKeepsStream ==
  ASSUME SocketInv, QueuesTyped, StreamInv, NEW s \in Sockets, Drop(s)
  PROVE  StreamInv'
<1>1. /\ sock' = [sock EXCEPT ![s] = "dying"]
      /\ UNCHANGED <<casts, snap, sending, mine, stream>>
  BY DEF Drop, calls
<1>2. PICK k \in 0..Len(down[s]) : down' = [down EXCEPT ![s] = SubSeq(@, 1, k)]
  BY DEF Drop
<1>3. /\ down'[s] = SubSeq(down[s], 1, k) /\ sock'[s] = "dying"
      /\ \A r \in Sockets \ {s} : down'[r] = down[r] /\ sock'[r] = sock[r]
  BY <1>1, <1>2 DEF QueuesTyped, SocketInv, SocketsTyped
<1>4. OnlyLiveHears'
  BY <1>3 DEF StreamInv, OnlyLiveHears, Live
<1>5. /\ Rising(SubSeq(down[s], 1, k))
      /\ Held(SubSeq(down[s], 1, k)) \subseteq Held(down[s])
  BY QueuePart DEF QueuesTyped, StreamInv, ToComeIsNewer
<1>6. \A r \in Sockets : Rising(down'[r]) /\ Held(down'[r]) \subseteq Held(down[r])
  BY <1>3, <1>5 DEF StreamInv, ToComeIsNewer
<1>7. Listing(snap')
  BY <1>1 DEF StreamInv, Counted
<1> QED BY <1>1, <1>4, <1>6, <1>7, CalmStep

(* page.tsx:234-241: the close comes after all that came.                  *)
LEMMA CloseKeepsStream ==
  ASSUME SocketInv, StreamInv, NEW s \in Sockets, OnClose(s)
  PROVE  StreamInv'
<1>1. /\ sock' = [sock EXCEPT ![s] = "closed"] /\ down[s] = <<>>
      /\ UNCHANGED <<down, casts, snap, sending, mine>>
      /\ \E failed \in BOOLEAN :
           AddLogs(IF failed THEN <<Sys, Sys>> ELSE <<Sys>>)
  BY DEF OnClose, calls
<1>2. <<Sys>> \in Seq({Sys}) /\ <<Sys, Sys>> \in Seq({Sys})
  OBVIOUS
<1>3. \E entries \in Seq({Sys}) : AddLogs(entries)
  BY <1>1, <1>2
<1>4. OnlyLiveHears'
  BY <1>1 DEF StreamInv, OnlyLiveHears, Live, SocketInv, SocketsTyped
<1>5. \A r \in Sockets : Rising(down'[r]) /\ Held(down'[r]) \subseteq Held(down[r])
  BY <1>1 DEF StreamInv, ToComeIsNewer
<1>6. Listing(snap')
  BY <1>1 DEF StreamInv, Counted
<1> QED BY <1>1, <1>3, <1>4, <1>5, <1>6, CalmStep

(* hub.go:160-165: an acknowledgement more is no event.                    *)
LEMMA ServerReadsKeepsStream ==
  ASSUME SocketInv, SubsInv, StreamInv, NEW s \in Sockets, ServerReads(s)
  PROVE  StreamInv'
<1> DEFINE m == Head(up[s])
           ack == Succeeded(m[2])
<1>1. /\ sock[s] = "open" /\ up[s] # <<>>
      /\ UNCHANGED <<sock, stream, casts, snap, sending, mine>>
      /\ \/ down' = [down EXCEPT ![s] = Append(@, ack)]
         \/ UNCHANGED down
  BY DEF ServerReads, calls
<1>2. /\ up[s] \in Seq(Requests) /\ down[s] \in Seq(Replies)
      /\ down \in [Sockets -> Seq(Replies)]
  BY DEF SubsInv, QueuesTyped
<1>3. m \in Requests
  BY <1>1, <1>2
<1>4. ack \in Replies /\ \A n : ack # Event(n)
  <2>1. m[2] \in Channels \cup {Wildcard}
    BY <1>3 DEF Requests, Subscribe, Unsubscribe
  <2> QED BY <2>1 DEF Replies, Succeeded, Event
<1> HIDE DEF ack
<1>5. \A r \in Sockets : Rising(down[r])
  BY DEF StreamInv, ToComeIsNewer
<1>6. Rising(Append(down[s], ack)) /\ Held(Append(down[s], ack)) \subseteq Held(down[s])
  BY <1>2, <1>4, <1>5, QueueMore
<1>7. \A r \in Sockets : \/ down'[r] = down[r]
                         \/ /\ r = s
                            /\ down'[r] = Append(down[s], ack)
  BY <1>1, <1>2
<1>8. \A r \in Sockets : Rising(down'[r]) /\ Held(down'[r]) \subseteq Held(down[r])
  BY <1>5, <1>6, <1>7
<1>9. OnlyLiveHears'
  BY <1>1, <1>7 DEF StreamInv, OnlyLiveHears, Live
<1>10. Listing(snap')
  BY <1>1 DEF StreamInv, Counted
<1> QED BY <1>1, <1>8, <1>9, <1>10, CalmStep

(* page.tsx:197-232: one message has come; if it is an event, it may be    *)
(* above all the stream has, and all that is to come, on any socket, may be*)
(* above it.                                                               *)
LEMMA OnMessageKeepsStream ==
  ASSUME SocketInv, SubsInv, StreamInv, NEW s \in Sockets, OnMessage(s)
  PROVE  StreamInv'
<1> DEFINE m == Head(down[s])
<1>1. /\ down[s] # <<>> /\ down' = [down EXCEPT ![s] = Tail(@)]
      /\ UNCHANGED <<sock, casts, snap, sending, mine>>
      /\ \/ m[1] = "established" /\ OnEstablished(s)
         \/ m[1] = "succeeded" /\ OnSucceeded(m[2])
         \/ m[1] = "event" /\ OnEvent(m[2])
  BY DEF OnMessage, calls
<1>2. /\ down \in [Sockets -> Seq(Replies)] /\ down[s] \in Seq(Replies)
      /\ m \in Replies
  BY <1>1, RepliesGo DEF SubsInv, QueuesTyped
<1>3. down'[s] = Tail(down[s]) /\ \A r \in Sockets \ {s} : down'[r] = down[r]
  BY <1>1, <1>2
<1>4. /\ \A r \in Sockets : Rising(down[r])
      /\ Rising(Tail(down[s])) /\ Held(Tail(down[s])) \subseteq Held(down[s])
      /\ \A n \in Events : m = Event(n) =>
           n \in Held(down[s]) /\ \A k \in Held(Tail(down[s])) : Follows(k, n)
  BY <1>1, <1>2, QueueTail DEF StreamInv, ToComeIsNewer
<1>5. \A r \in Sockets : Rising(down'[r]) /\ Held(down'[r]) \subseteq Held(down[r])
  BY <1>3, <1>4
<1>6. OnlyLiveHears'
  BY <1>1, <1>3 DEF StreamInv, OnlyLiveHears, Live
<1>7. Listing(snap')
  BY <1>1 DEF StreamInv, Counted
<1>8. CASE UNCHANGED stream \/ \E entries \in Seq({Sys}) : AddLogs(entries)
  BY <1>1, <1>5, <1>6, <1>7, <1>8, CalmStep
<1>9. CASE m[1] = "established" /\ OnEstablished(s)
  <2> DEFINE chans == SetToSeq(ref)
             entries == <<Sys>> \o [i \in DOMAIN chans |-> Sys]
  <2>1. AddLogs(entries)
    BY <1>9 DEF OnEstablished
  <2>2. chans \in Seq(ref)
    BY SetToSeqIsOnto, FS_Subset DEF SubsInv, ListsInv
  <2>3. Len(chans) \in Nat /\ DOMAIN chans = 1..Len(chans)
    BY <2>2
  <2>4. [i \in DOMAIN chans |-> Sys] \in Seq({Sys})
    BY <2>3
  <2>5. entries \in Seq({Sys})
    BY <2>4
  <2> QED BY <1>8, <2>1, <2>5
<1>10. CASE m[1] = "succeeded" /\ OnSucceeded(m[2])
  <2>1. <<Sys>> \in Seq({Sys})
    OBVIOUS
  <2> QED BY <1>8, <1>10, <2>1 DEF OnSucceeded
<1>11. CASE m[1] = "event" /\ OnEvent(m[2])
  <2> DEFINE n == m[2]
             e == <<"in", n>>
             X == {e}
  <2>1. n \in Events /\ m = Event(n)
    BY <1>2, <1>11 DEF Replies, Established, Succeeded, Event
  <2>2. /\ n \in Held(down[s]) /\ n \in SentToAll
        /\ \A f \in Shown : f[1] = "in" => Follows(n, f[2])
    BY <1>4, <2>1 DEF StreamInv, ToComeIsNewer
  <2>21. pubs \in Nat /\ n \in 1..pubs
    BY <2>2, SentHasBegun
  <2>3. e \in Entries /\ e \notin Shown /\ e # Sys
        /\ \A k : e # <<"out", k>>
    BY <2>1, <2>2 DEF Entries, Sys, Follows
  <2>4. ListsInOrder' /\ Shown' \subseteq Shown \cup X
    <3>1. /\ AddLogs(<<e>>)
          /\ \A f \in Shown : e[1] = "in" /\ f[1] = "in" => Follows(e[2], f[2])
      BY <1>11, <2>2 DEF OnEvent
    <3> QED BY <1>1, <2>3, <3>1, EventLogged DEF StreamInv, casts
  <2>5. \A r \in Sockets \ {s} : down[r] = <<>>
    BY <1>1 DEF StreamInv, OnlyLiveHears, SocketInv, SocketsFollowPage
  <2>6. \A r \in Sockets : \A k \in Held(down'[r]) : Follows(k, n)
    <3>1. \A k \in Held(Tail(down[s])) : Follows(k, n)
      BY <1>4, <2>1
    <3>2. \A r \in Sockets \ {s} : Held(down'[r]) = {}
      BY <1>3, <2>5, QueueOfNone
    <3> QED BY <1>3, <3>1, <3>2
  <2>7. \A r \in Sockets :
          /\ Rising(down'[r]) /\ Held(down'[r]) \subseteq Held(down[r])
          /\ \A k \in Held(down'[r]), f \in X : f[1] = "in" => Follows(k, f[2])
    BY <1>5, <2>6
  <2>8. /\ \A f \in X : f # Sys =>
             f[2] <= pubs /\ (f[1] = "in" => f[2] \in SentToAll)
        /\ <<"out", mine>> \notin X
    BY <2>2, <2>3, <2>21
  <2> HIDE DEF X
  <2> QED BY <1>1, <1>6, <1>7, <2>4, <2>7, <2>8, StreamStep
<1> QED BY <1>1, <1>9, <1>10, <1>11

(* hub.go:395-403: a publication begins.  Nothing listed or under way is   *)
(* the new event, so for those all is as it was.                           *)
LEMMA SaveKeepsStream ==
  ASSUME StreamInv, Save, UNCHANGED <<sock, down, logs, cache, snap>>,
         \/ UNCHANGED <<sending, mine>>
         \/ mine' = pubs'
  PROVE  StreamInv'
<1>1. /\ pubs \in Nat /\ pubs' = pubs + 1 /\ pubs' \in Events
      /\ UNCHANGED <<copied, rcpts>> /\ SentToAll' = SentToAll
      /\ before' = [before EXCEPT ![pubs'] = SentToAll]
      /\ stored' = Append(stored, pubs') \/ stored' = stored
  BY ConsoleAssumption DEF Save, StreamInv, Counted, Events, SentToAll
<1>2. SentToAll \subseteq 1..pubs /\ SentToAll \subseteq Events
  BY SentHasBegun
<1>3. \A k : \A n \in SentToAll : Follows(k, n)' <=> Follows(k, n)
  BY <1>1, <1>2 DEF Follows, StreamInv, CastsInv
<1>4. Shown' = Shown /\ ToSet(logs) \subseteq Shown /\ ToSet(cache) \subseteq Shown
  BY DEF Shown
<1>5. \A e \in Shown : /\ e \in Entries
                       /\ e # Sys => e[2] \in Events /\ e[2] <= pubs
                       /\ e[1] = "in" => e # Sys /\ e[2] \in SentToAll
  BY DEF StreamInv, ShownPublished, ListsInOrder, Shown, ToSet, Entries, Sys
<1>6. ASSUME NEW seq \in Seq(Entries), InOrder(seq), ToSet(seq) \subseteq Shown
      PROVE  \A i, j \in DOMAIN seq : i < j /\ seq[i] # Sys =>
               /\ seq[i] # seq[j]
               /\ seq[i][1] = "in" /\ seq[j][1] = "in" =>
                    Follows(seq[i][2], seq[j][2])'
  <2>1. \A j \in DOMAIN seq : seq[j][1] = "in" => seq[j][2] \in SentToAll
    BY <1>5, <1>6 DEF ToSet
  <2> QED BY <1>3, <1>6, <2>1 DEF InOrder
<1>7. ListsInOrder'
  <2>1. InOrder(logs)'
    BY <1>4, <1>6 DEF InOrder, StreamInv, ListsInOrder
  <2>2. InOrder(cache)'
    BY <1>4, <1>6 DEF InOrder, StreamInv, ListsInOrder
  <2> QED BY <2>1, <2>2 DEF StreamInv, ListsInOrder
<1>8. OnlyLiveHears'
  BY DEF StreamInv, OnlyLiveHears, Live
<1>9. ToComeIsNewer'
  <2> SUFFICES ASSUME NEW s \in Sockets
               PROVE  /\ Rising(down[s])'
                      /\ \A n \in Held(down[s]) : n \in SentToAll /\
                           \A e \in Shown : e[1] = "in" => Follows(n, e[2])'
    BY <1>1, <1>4 DEF ToComeIsNewer, Held
  <2>1. \A n \in Events : \A i \in DOMAIN down[s] :
          down[s][i] = Event(n) => n \in SentToAll
    BY DEF StreamInv, ToComeIsNewer, Held
  <2>2. Rising(down[s])'
    BY <1>3, <2>1 DEF StreamInv, ToComeIsNewer, Rising
  <2> QED BY <1>3, <1>5, <2>2 DEF StreamInv, ToComeIsNewer
<1>10. ShownPublished'
  BY <1>1, <1>4, <1>5 DEF ShownPublished, Events
<1>11. AcceptedIsNew'
  <2>1. \A k : <<"out", k>> # Sys
    BY DEF Sys
  <2>2. <<"out", pubs'>> \notin Shown
    BY <1>1, <1>5, <2>1
  <2> QED BY <1>1, <1>4, <2>2 DEF StreamInv, AcceptedIsNew
<1>12. CastsInv'
  BY <1>1, <1>2 DEF StreamInv, CastsInv
<1>13. ASSUME NEW q, Listing(q)
       PROVE  /\ q \in Seq(1..pubs') /\ Append(q, pubs') \in Seq(1..pubs')
              /\ \A i, j \in DOMAIN q : q[i] = q[j] => i = j
              /\ \A i, j \in DOMAIN Append(q, pubs') :
                   Append(q, pubs')[i] = Append(q, pubs')[j] => i = j
  <2>0. q \in Seq(1..pubs) /\ \A i, j \in DOMAIN q : q[i] = q[j] => i = j
    BY <1>13 DEF Listing
  <2>1. /\ Len(q) \in Nat /\ DOMAIN q = 1..Len(q)
        /\ \A i \in DOMAIN q : q[i] \in 1..pubs
    BY <2>0, SeqElements
  <2>2. q \in Seq(1..pubs')
    BY <1>1, <2>1, <2>0
  <2>3. Append(q, pubs') \in Seq(1..pubs')
    BY <1>1, <2>2
  <2> DEFINE a == Append(q, pubs')
  <2>4. /\ DOMAIN a = 1..(Len(q) + 1) /\ a[Len(q) + 1] = pubs'
        /\ \A i \in DOMAIN q : a[i] = q[i] /\ a[i] # pubs'
    BY <1>1, <2>1
  <2>5. \A i \in DOMAIN a : i = Len(q) + 1 \/ i \in DOMAIN q
    BY <2>1, <2>4
  <2> HIDE DEF a
  <2>6. \A i, j \in DOMAIN a : a[i] = a[j] => i = j
    BY <2>1, <2>4, <2>5, <2>0
  <2> QED BY <2>2, <2>3, <2>6, <2>0 DEF a
<1>14. Counted'
  <2>1. Listing(stored)'
    BY <1>1, <1>13 DEF StreamInv, Counted, Listing
  <2>2. Listing(snap)'
    BY <1>13 DEF StreamInv, Counted, Listing
  <2> QED BY <1>1, <2>1, <2>2, ConsoleAssumption DEF Counted, Events
<1> QED BY <1>7, <1>8, <1>9, <1>10, <1>11, <1>12, <1>14 DEF StreamInv

(* hub.go:359-387: at most one socket is subscribed to anything, the one   *)
(* connection of the page.                                                 *)
LEMMA CopyKeepsStream ==
  ASSUME SocketInv, SubsInv, StreamInv, NEW n \in Events, CopyRecipients(n)
  PROVE  StreamInv'
<1> DEFINE R == {s \in Sockets : {ChannelOf[n], Wildcard} \cap subs[s] # {}}
<1>1. /\ n \in 1..pubs /\ n \notin copied /\ copied' = copied \cup {n}
      /\ rcpts' = [rcpts EXCEPT ![n] = R]
      /\ UNCHANGED <<sock, down, logs, cache, snap, sending, mine, pubs, stored,
                    before>>
  BY DEF CopyRecipients, server, stream, calls
<1>2. \A r, s \in R : r = s
  BY DEF SubsInv, OnlyOpenTalks, SocketInv, SocketsFollowPage, Live
<1>3. R \subseteq Sockets
  OBVIOUS
<1> HIDE DEF R
<1>4. SentToAll \subseteq SentToAll'
  BY <1>1 DEF SentToAll, StreamInv, CastsInv
<1>5. CastsInv'
  BY <1>1, <1>2, <1>3, <1>4 DEF StreamInv, CastsInv
<1>6. ListsInOrder' /\ Shown' = Shown
  BY <1>1 DEF StreamInv, ListsInOrder, InOrder, Follows, Shown
<1>7. OnlyLiveHears' /\ AcceptedIsNew' /\ Counted'
  BY <1>1, <1>6 DEF StreamInv, OnlyLiveHears, Live, AcceptedIsNew, Counted, Listing
<1>8. ShownPublished'
  BY <1>1, <1>4, <1>6 DEF StreamInv, ShownPublished
<1>9. ToComeIsNewer'
  <2>1. \A s \in Sockets : Rising(down[s])'
    BY <1>1 DEF StreamInv, ToComeIsNewer, Rising, Follows
  <2>2. \A s \in Sockets : \A k \in Held(down[s]) :
          k \in SentToAll' /\ \A e \in Shown' : e[1] = "in" => Follows(k, e[2])'
    BY <1>1, <1>4, <1>6 DEF StreamInv, ToComeIsNewer, Follows
  <2> QED BY <1>1, <2>1, <2>2 DEF ToComeIsNewer, Held
<1> QED BY <1>5, <1>6, <1>7, <1>8, <1>9 DEF StreamInv

(* hub.go:389-391: the one recipient is sent to, and everybody has been.   *)
(* What is listed or under way had been sent to all before.                *)
LEMMA SendKeepsStream ==
  ASSUME SubsInv, StreamInv, NEW n \in Events, NEW s \in Sockets,
         SendEvent(n, s)
  PROVE  StreamInv'
<1>1. /\ s \in rcpts[n] /\ rcpts' = [rcpts EXCEPT ![n] = @ \ {s}]
      /\ \/ sock[s] = "open" /\ down' = [down EXCEPT ![s] = Append(@, Event(n))]
         \/ UNCHANGED down
      /\ UNCHANGED <<sock, logs, cache, snap, sending, mine, pubs, stored, copied,
                    before>>
  BY DEF SendEvent, stream, calls
<1>2. /\ n \in copied /\ n \notin SentToAll /\ rcpts'[n] = {}
      /\ \A k \in Events \ {n} : rcpts'[k] = rcpts[k]
  BY <1>1 DEF StreamInv, CastsInv, SentToAll
<1>3. SentToAll \cup {n} \subseteq SentToAll'
  <2>1. SentToAll \subseteq Events
    BY SentHasBegun
  <2> QED BY <1>1, <1>2, <2>1 DEF SentToAll
<1>4. \A k \in SentToAll : Follows(n, k)
  <2>1. SentToAll \subseteq Events
    BY SentHasBegun
  <2> QED BY <1>2, <2>1 DEF Follows, StreamInv, CastsInv
<1>5. CastsInv'
  BY <1>1, <1>2, <1>3 DEF StreamInv, CastsInv
<1>6. ListsInOrder' /\ Shown' = Shown
  BY <1>1 DEF StreamInv, ListsInOrder, InOrder, Follows, Shown
<1>7. AcceptedIsNew' /\ Counted'
  BY <1>1, <1>6 DEF StreamInv, AcceptedIsNew, Counted, Listing
<1>8. ShownPublished'
  BY <1>1, <1>3, <1>6 DEF StreamInv, ShownPublished
<1>9. /\ down \in [Sockets -> Seq(Replies)] /\ Event(n) \in Replies
      /\ \A k : Event(n) = Event(k) => k = n
  BY DEF SubsInv, QueuesTyped, Replies, Event
<1>10. /\ Rising(Append(down[s], Event(n)))
       /\ Held(Append(down[s], Event(n))) \subseteq Held(down[s]) \cup {n}
  <2>1. down[s] \in Seq(Replies) /\ Rising(down[s])
    BY <1>9 DEF StreamInv, ToComeIsNewer
  <2>2. \A k \in Held(down[s]) : Follows(n, k)
    BY <1>4 DEF StreamInv, ToComeIsNewer
  <2> QED BY <1>9, <2>1, <2>2, QueueMore
<1>11. \A r \in Sockets :
         \/ down'[r] = down[r]
         \/ r = s /\ sock[s] = "open" /\ down'[r] = Append(down[s], Event(n))
  BY <1>1, <1>9
<1>12. OnlyLiveHears'
  BY <1>1, <1>11 DEF StreamInv, OnlyLiveHears, Live
<1>13. ToComeIsNewer'
  <2>1. \A r \in Sockets :
          Rising(down'[r]) /\ Held(down'[r]) \subseteq Held(down[r]) \cup {n}
    BY <1>10, <1>11 DEF StreamInv, ToComeIsNewer
  <2>2. \A r \in Sockets : Rising(down[r])'
    BY <1>1, <2>1 DEF Rising, Follows
  <2>3. \A e \in Shown : e[1] = "in" => Follows(n, e[2])
    BY <1>4 DEF StreamInv, ShownPublished, Sys
  <2>4. \A r \in Sockets : \A k \in Held(down'[r]) :
          k \in SentToAll' /\ \A e \in Shown : e[1] = "in" => Follows(k, e[2])
    BY <1>3, <2>1, <2>3 DEF StreamInv, ToComeIsNewer
  <2>5. \A k, m : Follows(k, m)' <=> Follows(k, m)
    BY <1>1 DEF Follows
  <2> QED BY <1>6, <2>2, <2>4, <2>5 DEF ToComeIsNewer, Held
<1> QED BY <1>5, <1>6, <1>7, <1>8, <1>12, <1>13 DEF StreamInv

(* page.tsx:299-336: the test event accepted is listed as sent.            *)
LEMMA AnsweredKeepsStream ==
  ASSUME StreamInv, TriggerAnswered
  PROVE  StreamInv'
<1>1. /\ sending' = "none" /\ UNCHANGED <<sock, down, casts, snap>>
      /\ \/ sending = "accepted" /\ AddLogs(<< <<"out", mine>> >>)
         \/ UNCHANGED stream
  BY DEF TriggerAnswered, server
<1>2. OnlyLiveHears' /\ Listing(snap')
  BY <1>1 DEF StreamInv, OnlyLiveHears, Live, Counted
<1>3. \A r \in Sockets : Rising(down'[r]) /\ Held(down'[r]) \subseteq Held(down[r])
  BY <1>1 DEF StreamInv, ToComeIsNewer
<1>4. CASE UNCHANGED stream
  BY <1>1, <1>2, <1>3, <1>4, CalmStep
<1>5. CASE sending = "accepted" /\ AddLogs(<< <<"out", mine>> >>)
  <2> DEFINE e == <<"out", mine>>
             X == {e}
  <2>1. mine \in Events /\ mine <= pubs /\ e \notin Shown
    BY <1>5, ConsoleAssumption DEF StreamInv, AcceptedIsNew, Counted, Events
  <2>2. e \in Entries /\ e[1] # "in" /\ e[2] <= pubs
    BY <2>1 DEF Entries
  <2>3. ListsInOrder' /\ Shown' \subseteq Shown \cup X
    BY <1>1, <1>5, <2>1, <2>2, EventLogged DEF StreamInv, casts
  <2>4. /\ \A f \in X : f # Sys =>
             f[2] <= pubs /\ (f[1] = "in" => f[2] \in SentToAll)
        /\ \A r \in Sockets :
             /\ Rising(down'[r]) /\ Held(down'[r]) \subseteq Held(down[r])
             /\ \A k \in Held(down'[r]), f \in X : f[1] = "in" => Follows(k, f[2])
    BY <1>3, <2>2
  <2> HIDE DEF X
  <2> QED BY <1>1, <1>2, <2>3, <2>4, StreamStep
<1> QED BY <1>1, <1>4, <1>5

(* page.tsx:120-152: what the history has of the list already is left out. *)
LEMMA HistoryKeepsStream ==
  ASSUME StreamInv, HistoryArrives
  PROVE  StreamInv'
<1> DEFINE initial == [i \in DOMAIN snap |-> <<"hist", snap[i]>>]
           known   == {e \in ToSet(initial) : KeyOf[e[2]] \in Keys(logs)}
           fresh   == Without(initial, known)
           X       == ToSet(initial)
<1>1. /\ snap' = <<>> /\ UNCHANGED <<sock, down, casts, sending, mine>>
      /\ SetLogs(Take(fresh \o logs))
  BY DEF HistoryArrives, server
<1>2. /\ pubs \in Nat /\ pubs <= MaxEvents /\ snap \in Seq(1..pubs)
      /\ \A i, j \in DOMAIN snap : snap[i] = snap[j] => i = j
  BY ConsoleAssumption DEF StreamInv, Counted, Listing
<1>3. /\ Len(snap) \in Nat /\ DOMAIN snap = 1..Len(snap)
      /\ \A i \in DOMAIN snap : snap[i] \in Events /\ snap[i] <= pubs
  BY <1>2, ConsoleAssumption DEF Events
<1>4. initial \in Seq(Entries)
  <2>1. \A i \in DOMAIN snap : <<"hist", snap[i]>> \in Entries
    BY <1>3 DEF Entries
  <2>2. initial \in [1..Len(snap) -> Entries]
    BY <1>3, <2>1
  <2> HIDE DEF initial
  <2> QED BY <1>3, <2>2
<1>5. InOrder(initial)
  BY <1>2, <1>3 DEF InOrder
<1>6. \A e \in X : e[1] = "hist" /\ e[2] <= pubs
  BY <1>3 DEF ToSet
<1>7. /\ fresh \in Seq(Entries) /\ InOrder(fresh)
      /\ ToSet(fresh) \subseteq X \ known
  BY <1>4, <1>5, WithoutInOrder
<1>8. ASSUME NEW e \in ToSet(fresh), NEW f \in ToSet(logs), e # Sys
      PROVE  e # f /\ e[1] # "in"
  <2>1. e \in X /\ KeyOf[e[2]] \notin Keys(logs)
    BY <1>7, <1>8
  <2>2. e = f => KeyOf[e[2]] \in Keys(logs)
    BY <1>8 DEF Keys, ToSet, SystemEvents
  <2> QED BY <1>6, <2>1, <2>2
<1> HIDE DEF fresh, X
<1>9. /\ fresh \o logs \in Seq(Entries) /\ InOrder(fresh \o logs)
      /\ ToSet(fresh \o logs) \subseteq ToSet(fresh) \cup ToSet(logs)
  BY <1>7, <1>8, OnTopInOrder DEF StreamInv, ListsInOrder
<1>10. /\ Take(fresh \o logs) \in Seq(Entries) /\ InOrder(Take(fresh \o logs))
       /\ ToSet(Take(fresh \o logs)) \subseteq ToSet(fresh \o logs)
  BY <1>9, TakeInOrder
<1>11. /\ ListsInOrder'
       /\ Shown' \subseteq Shown \cup ToSet(Take(fresh \o logs))
  BY <1>1, <1>10, SetLogsInOrder DEF StreamInv, casts
<1>12. Shown' \subseteq Shown \cup X
  BY <1>7, <1>9, <1>10, <1>11 DEF Shown
<1>13. OnlyLiveHears' /\ Listing(snap')
  BY <1>1, ListingOfNone DEF StreamInv, OnlyLiveHears, Live
<1>14. /\ \A e \in X : e # Sys =>
            e[2] <= pubs /\ (e[1] = "in" => e[2] \in SentToAll)
       /\ <<"out", mine>> \notin X
       /\ \A s \in Sockets :
            /\ Rising(down'[s]) /\ Held(down'[s]) \subseteq Held(down[s])
            /\ \A n \in Held(down'[s]), e \in X : e[1] = "in" => Follows(n, e[2])
  BY <1>1, <1>6 DEF StreamInv, ToComeIsNewer
<1> QED BY <1>1, <1>11, <1>12, <1>13, <1>14, StreamStep

(* Every step keeps the invariant.                                         *)
LEMMA StreamNext ==
  SocketInv /\ SubsInv /\ StreamInv /\ [Next]_vars => StreamInv'
<1> SUFFICES ASSUME SocketInv, SubsInv, StreamInv, [Next]_vars PROVE StreamInv'
  OBVIOUS
<1>1. /\ QueuesTyped /\ Listing(snap) /\ Listing(<<>>)
      /\ Listing(Take(Reverse(stored)))
  BY ListingOfNone, NewestListing DEF SubsInv, StreamInv, Counted
<1>2. CASE Mount \/ Leave \/ ClearLogs
  BY <1>1, <1>2, MountKeepsStream, LeaveKeepsStream, ClearKeepsStream
<1>3. CASE AppArrives \/ Reconnect
  BY <1>3, ConnectKeepsStream DEF AppArrives, Reconnect
<1>4. ASSUME NEW c \in Channels, Join(c) \/ LeaveChannel(c) PROVE StreamInv'
  <2>1. UNCHANGED stream \/ AddLogs(<<Sys>>)
    BY <1>4 DEF Join, LeaveChannel
  <2>2. <<Sys>> \in Seq({Sys})
    OBVIOUS
  <2>3. UNCHANGED <<casts, down, sock, snap, sending, mine>>
    BY <1>4 DEF Join, LeaveChannel, calls
  <2> QED BY <1>1, <2>1, <2>2, <2>3, QueuesAlone
<1>5. CASE Trigger \/ AppFails \/ ChannelsEffect \/ HistoryFails \/ HistoryRead
  <2>1. /\ UNCHANGED <<casts, down, sock, stream>>
        /\ snap' \in {snap, <<>>, Take(Reverse(stored))}
        /\ sending' = "accepted" => sending = "accepted" /\ mine' = mine
    BY <1>5 DEF Trigger, AppFails, ChannelsEffect, HistoryFails, HistoryRead,
                server, calls
  <2> QED BY <1>1, <2>1, QueuesAlone
<1>6. CASE OthersPublish
  BY <1>6, SaveKeepsStream DEF OthersPublish, server, stream, calls
<1>7. CASE TriggerServed
  <2>1. CASE Save /\ mine' = pubs'
    BY <1>7, <2>1, SaveKeepsStream DEF TriggerServed, server, stream
  <2>2. CASE sending' = "refused" /\ UNCHANGED <<mine, casts>>
    BY <1>1, <1>7, <2>2, QueuesAlone DEF TriggerServed, server
  <2> QED BY <1>7, <2>1, <2>2 DEF TriggerServed
<1>8. CASE TriggerAnswered \/ HistoryArrives
  BY <1>8, AnsweredKeepsStream, HistoryKeepsStream
<1>9. ASSUME NEW s \in Sockets, Network(s) \/ ServerReads(s) PROVE StreamInv'
  BY <1>1, <1>9, OpenKeepsStream, DropKeepsStream, CloseKeepsStream,
     OnMessageKeepsStream, ServerReadsKeepsStream DEF Network
<1>10. CASE \E n \in Events : Broadcast(n)
  BY <1>10, CopyKeepsStream, SendKeepsStream DEF Broadcast
<1>11. CASE UNCHANGED vars
  BY <1>1, <1>11, QueuesAlone DEF vars, stream, casts
<1> QED BY <1>2, <1>3, <1>4, <1>5, <1>6, <1>7, <1>8, <1>9, <1>10, <1>11
        DEF Next, User, Answer

(* page.tsx:63, 143-151, 198-228, 292-294, hub.go:355-423: over all        *)
(* connections and visits, and however the publications overlap, nothing is*)
(* listed twice by one route, and an event that had been sent to everybody *)
(* when another was begun is never above it.                               *)
THEOREM StreamOrdered == Spec => []StreamInOrder
<1>1. StreamInv => StreamInOrder
  BY DEF StreamInv, ListsInOrder, InOrder, Follows, StreamInOrder
<1> QED BY <1>1, SubsAlways, StreamInit, StreamNext, PTL DEF Spec
=============================================================================
