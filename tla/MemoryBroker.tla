---------------------------- MODULE MemoryBroker ----------------------------
(***************************************************************************)
(* The in-process broker (internal/pubsub/memory.go) and the parts of the  *)
(* hub (internal/ws/hub.go) that call it, at the level of their locks:     *)
(*   m.mu  the broker's RWMutex        s.mu  a subscription's mutex        *)
(*   h.mu  the hub's mutex, held around Subscription.Close                 *)
(*                                                                         *)
(* Publishers are the goroutines that call Publish.  Holders are those     *)
(* that open a channel's subscription when it gets its first local         *)
(* subscriber and close it with the last one; module Hub shows that they   *)
(* do so one after the other, which is what lease records here.  A section *)
(* that takes one lock and waits for nothing inside it is one action.      *)
(***************************************************************************)
EXTENDS Naturals, Sequences, FiniteSets, SequencesExt

CONSTANTS
  Publishers,   \* goroutines that publish
  Holders,      \* goroutines that open and close subscriptions
  Topics,
  Subs,         \* bound: the subscriptions that can be created
  None,         \* no thread, no subscription, no topic
  MaxMsgs,      \* bound: messages per publisher
  Cap,          \* capacity of a subscription's Go channel (256)
  Shutdown      \* does the process close the broker (main's defer)?

Closer == "closer"   \* the goroutine of main

Threads == Publishers \cup Holders \cup {Closer}

ASSUME ThreadKinds ==
  /\ Publishers \cap Holders = {}
  /\ Closer \notin Publishers \cup Holders
  /\ None \notin Threads \cup Subs \cup Topics

ASSUME BrokerBounds ==
  /\ MaxMsgs \in Nat /\ Cap \in Nat \ {0} /\ Shutdown \in BOOLEAN

VARIABLES
  mReaders,   \* threads holding m.mu for reading
  mWriter,    \* the thread holding it for writing, across a blocking step
  mPending,   \* threads inside m.mu.Lock(): new readers wait behind them
  sMu,        \* who holds each subscription's mutex
  hMu,        \* who holds the hub's mutex
  subs,       \* m.subs
  topicOf,    \* the topic of each subscription; None: not created yet
  closes,     \* how often close(s.ch) ran; s.closed is closes[s] > 0
  buf,        \* contents of s.ch
  got,        \* messages sent into s.ch so far
  dropped,    \* messages dropped because s.ch was full
  lease,      \* which holder keeps a topic open
  pc,
  at,         \* a holder's topic, a publisher's topic
  mine,       \* the subscription a holder opened
  left,       \* subscriptions a Publish or the broker's Close has to visit
  sent        \* messages each publisher has begun to publish

locks == <<mReaders, mWriter, mPending, sMu, hMu>>
flow  == <<buf, got, dropped>>
vars == <<mReaders, mWriter, mPending, sMu, hMu, subs, topicOf, closes, buf,
          got, dropped, lease, pc, at, mine, left, sent>>

Msgs == Publishers \X (1..MaxMsgs)

Listed == {subs[i] : i \in 1..Len(subs)}

PublishPCs == {"rlock", "visit", "check", "send"}

HolderPCs == {"joined", "subWait", "store", "in", "leaving", "removeWait", "closed"}

(* The type of every variable.                                             *)
BrokerTypeOK ==
  /\ mReaders \subseteq Publishers
  /\ mWriter \in {None, Closer}
  /\ mPending \subseteq Holders \cup {Closer}
  /\ sMu \in [Subs -> Threads \cup {None}]
  /\ hMu \in Holders \cup {None}
  /\ subs \in Seq(Subs)
  /\ topicOf \in [Subs -> Topics \cup {None}]
  /\ closes \in [Subs -> Nat]
  /\ buf \in [Subs -> Seq(Msgs)] /\ \A s \in Subs : Len(buf[s]) <= Cap
  /\ got \in [Subs -> SUBSET Msgs]
  /\ dropped \in [Subs -> SUBSET Msgs]
  /\ lease \in [Topics -> Holders \cup {None}]
  /\ pc \in [Threads -> {"idle", "closing"} \cup PublishPCs \cup HolderPCs]
  /\ at \in [Publishers \cup Holders -> Topics \cup {None}]
  /\ mine \in [Holders -> Subs \cup {None}]
  /\ left \in [Publishers \cup {Closer} -> Seq(Subs)]
  /\ sent \in [Publishers -> 0..MaxMsgs]

Init ==
  /\ mReaders = {} /\ mWriter = None /\ mPending = {}
  /\ sMu = [s \in Subs |-> None] /\ hMu = None
  /\ subs = <<>>
  /\ topicOf = [s \in Subs |-> None]
  /\ closes = [s \in Subs |-> 0]
  /\ buf = [s \in Subs |-> <<>>]
  /\ got = [s \in Subs |-> {}]
  /\ dropped = [s \in Subs |-> {}]
  /\ lease = [t \in Topics |-> None]
  /\ pc = [x \in Threads |-> "idle"]
  /\ at = [x \in Publishers \cup Holders |-> None]
  /\ mine = [h \in Holders |-> None]
  /\ left = [x \in Publishers \cup {Closer} |-> <<>>]
  /\ sent = [p \in Publishers |-> 0]

Goto(x, label) == pc' = [pc EXCEPT ![x] = label]

(* sync.RWMutex: a reader waits for the writer and for any thread already  *)
(* inside Lock; a writer waits for the writer and for all readers.         *)
CanRead == mWriter = None /\ mPending = {}
CanWrite == mWriter = None /\ mReaders = {}

----------------------------------------------------------------------------
(* Publish.                                                                *)

CallPublish(p, t) ==
  /\ pc[p] = "idle" /\ sent[p] < MaxMsgs
  /\ sent' = [sent EXCEPT ![p] = @ + 1]
  /\ at' = [at EXCEPT ![p] = t]
  /\ Goto(p, "rlock")
  /\ UNCHANGED <<locks, subs, topicOf, closes, flow, lease, mine, left>>

(* m.mu.RLock(), and the slice the range loop iterates over.               *)
PublishRLock(p) ==
  /\ pc[p] = "rlock" /\ CanRead
  /\ mReaders' = mReaders \cup {p}
  /\ left' = [left EXCEPT ![p] = subs]
  /\ Goto(p, "visit")
  /\ UNCHANGED <<mWriter, mPending, sMu, hMu, subs, topicOf, closes, flow, lease, at,
                 mine, sent>>

(* sub.mu.Lock(), waiting with m.mu read-locked.                           *)
PublishLockSub(p) ==
  /\ pc[p] = "visit" /\ left[p] # <<>>
  /\ sMu[Head(left[p])] = None
  /\ sMu' = [sMu EXCEPT ![Head(left[p])] = p]
  /\ Goto(p, "check")
  /\ UNCHANGED <<mReaders, mWriter, mPending, hMu, subs, topicOf, closes, flow, lease,
                 at, mine, left, sent>>

NextSub(p) ==
  /\ sMu' = [sMu EXCEPT ![Head(left[p])] = None]
  /\ left' = [left EXCEPT ![p] = Tail(@)]
  /\ Goto(p, "visit")

(* A closed subscription, or one to another topic, is passed over.         *)
PublishSkip(p) ==
  /\ pc[p] = "check"
  /\ closes[Head(left[p])] > 0 \/ topicOf[Head(left[p])] # at[p]
  /\ NextSub(p)
  /\ UNCHANGED <<mReaders, mWriter, mPending, hMu, subs, topicOf, closes, flow, lease,
                 at, mine, sent>>

PublishMatch(p) ==
  /\ pc[p] = "check"
  /\ closes[Head(left[p])] = 0 /\ topicOf[Head(left[p])] = at[p]
  /\ Goto(p, "send")
  /\ UNCHANGED <<locks, subs, topicOf, closes, flow, lease, at, mine, left, sent>>

(* Faulty: one message too many fits.                                      *)
PublishSendPastCap(p) ==
  /\ pc[p] = "send"
  /\ LET s == Head(left[p])
         m == <<p, sent[p]>>
     IN /\ Len(buf[s]) <= Cap
        /\ buf' = [buf EXCEPT ![s] = Append(@, m)]
        /\ got' = [got EXCEPT ![s] = @ \cup {m}]
  /\ NextSub(p)
  /\ UNCHANGED <<mReaders, mWriter, mPending, hMu, subs, topicOf, closes, dropped,
                 lease, at, mine, sent>>

(* The non-blocking send.                                                  *)
PublishSend(p) ==
  /\ pc[p] = "send"
  /\ LET s == Head(left[p])
         m == <<p, sent[p]>>
     IN \/ /\ Len(buf[s]) < Cap
           /\ buf' = [buf EXCEPT ![s] = Append(@, m)]
           /\ got' = [got EXCEPT ![s] = @ \cup {m}]
           /\ UNCHANGED dropped
        \/ /\ Len(buf[s]) = Cap
           /\ dropped' = [dropped EXCEPT ![s] = @ \cup {m}]
           /\ UNCHANGED <<buf, got>>
  /\ NextSub(p)
  /\ UNCHANGED <<mReaders, mWriter, mPending, hMu, subs, topicOf, closes,
                 lease, at, mine, sent>>

(* Faulty: m.mu stays read-locked.                                         *)
PublishDoneLocked(p) ==
  /\ pc[p] = "visit" /\ left[p] = <<>>
  /\ at' = [at EXCEPT ![p] = None]
  /\ Goto(p, "idle")
  /\ UNCHANGED <<locks, subs, topicOf, closes, flow, lease, mine, left, sent>>

PublishDone(p) ==
  /\ pc[p] = "visit" /\ left[p] = <<>>
  /\ mReaders' = mReaders \ {p}
  /\ at' = [at EXCEPT ![p] = None]
  /\ Goto(p, "idle")
  /\ UNCHANGED <<mWriter, mPending, sMu, hMu, subs, topicOf, closes, flow, lease, mine,
                 left, sent>>

----------------------------------------------------------------------------
(* Hub.Subscribe of a first local subscriber, and broker Subscribe.        *)

(* The hub's critical section: the channel had no local subscriber.  The   *)
(* bound on Subs leaves one for whoever is about to open its own.          *)
Join(h, t) ==
  /\ pc[h] = "idle" /\ hMu = None
  /\ lease[t] = None
  /\ Cardinality({s \in Subs : topicOf[s] = None})
       > Cardinality({g \in Holders : pc[g] \in {"joined", "subWait"}})
  /\ lease' = [lease EXCEPT ![t] = h]
  /\ at' = [at EXCEPT ![h] = t]
  /\ Goto(h, "joined")
  /\ UNCHANGED <<locks, subs, topicOf, closes, flow, mine, left, sent>>

SubscribeLock(h) ==
  /\ pc[h] = "joined"
  /\ mPending' = mPending \cup {h}
  /\ Goto(h, "subWait")
  /\ UNCHANGED <<mReaders, mWriter, sMu, hMu, subs, topicOf, closes, flow, lease, at,
                 mine, left, sent>>

(* Faulty: appended without waiting for the readers.                       *)
SubscribeAppendUnlocked(h, s) ==
  /\ pc[h] = "subWait"
  /\ topicOf[s] = None
  /\ topicOf' = [topicOf EXCEPT ![s] = at[h]]
  /\ subs' = Append(subs, s)
  /\ mine' = [mine EXCEPT ![h] = s]
  /\ mPending' = mPending \ {h}
  /\ Goto(h, "store")
  /\ UNCHANGED <<mReaders, mWriter, sMu, hMu, closes, flow, lease, at, left, sent>>

(* A new MemorySubscription at the end of m.subs, and the lock released.   *)
SubscribeAppend(h, s) ==
  /\ pc[h] = "subWait" /\ CanWrite
  /\ topicOf[s] = None
  /\ topicOf' = [topicOf EXCEPT ![s] = at[h]]
  /\ subs' = Append(subs, s)
  /\ mine' = [mine EXCEPT ![h] = s]
  /\ mPending' = mPending \ {h}
  /\ Goto(h, "store")
  /\ UNCHANGED <<mReaders, mWriter, sMu, hMu, closes, flow, lease, at, left, sent>>

(* h.channelSubs[key] = sub, under h.mu.                                   *)
StoreSub(h) ==
  /\ pc[h] = "store" /\ hMu = None
  /\ Goto(h, "in")
  /\ UNCHANGED <<locks, subs, topicOf, closes, flow, lease, at, mine, left, sent>>

----------------------------------------------------------------------------
(* Hub.Unsubscribe of the last local subscriber, with h.mu held throughout.*)

Leave(h) ==
  /\ pc[h] = "in" /\ hMu = None
  /\ hMu' = h
  /\ Goto(h, "leaving")
  /\ UNCHANGED <<mReaders, mWriter, mPending, sMu, subs, topicOf, closes, flow, lease,
                 at, mine, left, sent>>

(* Faulty: the Go channel is closed without taking s.mu.                   *)
CloseSubUnlocked(h) ==
  /\ pc[h] = "leaving"
  /\ IF closes[mine[h]] = 0
     THEN /\ closes' = [closes EXCEPT ![mine[h]] = @ + 1]
          /\ mPending' = mPending \cup {h}
          /\ Goto(h, "removeWait")
     ELSE /\ Goto(h, "closed")
          /\ UNCHANGED <<closes, mPending>>
  /\ UNCHANGED <<mReaders, mWriter, sMu, hMu, subs, topicOf, flow, lease, at, mine,
                 left, sent>>

(* Faulty: the hub forgets the subscription without closing it.            *)
CloseSubForgotten(h) ==
  /\ pc[h] = "leaving"
  /\ Goto(h, "closed")
  /\ UNCHANGED <<locks, subs, topicOf, closes, flow, lease, at, mine, left, sent>>

(* Subscription.Close: s.mu, then (unless closed already) close the Go     *)
(* channel and enter removeSub, which waits for m.mu with s.mu held.       *)
CloseSub(h) ==
  /\ pc[h] = "leaving"
  /\ sMu[mine[h]] = None
  /\ sMu' = [sMu EXCEPT ![mine[h]] = h]
  /\ IF closes[mine[h]] = 0
     THEN /\ closes' = [closes EXCEPT ![mine[h]] = @ + 1]
          /\ mPending' = mPending \cup {h}
          /\ Goto(h, "removeWait")
     ELSE /\ Goto(h, "closed")
          /\ UNCHANGED <<closes, mPending>>
  /\ UNCHANGED <<mReaders, mWriter, hMu, subs, topicOf, flow, lease, at, mine, left, sent>>

(* Faulty: the oldest subscription is removed.                             *)
RemoveOldestSub(h) ==
  /\ pc[h] = "removeWait" /\ CanWrite
  /\ subs' = Tail(subs)
  /\ mPending' = mPending \ {h}
  /\ Goto(h, "closed")
  /\ UNCHANGED <<mReaders, mWriter, sMu, hMu, topicOf, closes, flow, lease, at, mine,
                 left, sent>>

(* removeSub's loop takes the first entry that is the subscription.        *)
RemoveSub(h) ==
  /\ pc[h] = "removeWait" /\ CanWrite
  /\ IF mine[h] \in Listed
     THEN \E i \in 1..Len(subs) :
            /\ subs[i] = mine[h]
            /\ \A j \in 1..(i - 1) : subs[j] # mine[h]
            /\ subs' = RemoveAt(subs, i)
     ELSE UNCHANGED subs
  /\ mPending' = mPending \ {h}
  /\ Goto(h, "closed")
  /\ UNCHANGED <<mReaders, mWriter, sMu, hMu, topicOf, closes, flow, lease, at, mine,
                 left, sent>>

(* The deferred unlocks: s.mu, and h.mu after the entry is deleted.        *)
LeaveDone(h) ==
  /\ pc[h] = "closed"
  /\ sMu' = [sMu EXCEPT ![mine[h]] = None]
  /\ hMu' = None
  /\ lease' = [lease EXCEPT ![at[h]] = None]
  /\ at' = [at EXCEPT ![h] = None]
  /\ mine' = [mine EXCEPT ![h] = None]
  /\ Goto(h, "idle")
  /\ UNCHANGED <<mReaders, mWriter, mPending, subs, topicOf, closes, flow, left, sent>>

----------------------------------------------------------------------------
(* The relay goroutine ensurePubSubSubscription starts.                    *)

(* Only the hub publishes, and an in-process broker has one hub: every     *)
(* message carries the relay's own NodeID and is skipped.                  *)
RelaySkip(s) ==
  /\ buf[s] # <<>>
  /\ buf' = [buf EXCEPT ![s] = Tail(@)]
  /\ UNCHANGED <<locks, subs, topicOf, closes, got, dropped, lease, pc, at, mine, left,
                 sent>>

----------------------------------------------------------------------------
(* MemoryPubSub.Close, deferred in main.                                   *)

ShutdownCall ==
  /\ Shutdown /\ pc[Closer] = "idle"
  /\ mPending' = mPending \cup {Closer}
  /\ Goto(Closer, "subWait")
  /\ UNCHANGED <<mReaders, mWriter, sMu, hMu, subs, topicOf, closes, flow, lease, at,
                 mine, left, sent>>

ShutdownLock ==
  /\ pc[Closer] = "subWait" /\ CanWrite
  /\ mPending' = mPending \ {Closer}
  /\ mWriter' = Closer
  /\ left' = [left EXCEPT ![Closer] = subs]
  /\ Goto(Closer, "closing")
  /\ UNCHANGED <<mReaders, sMu, hMu, subs, topicOf, closes, flow, lease, at, mine, sent>>

(* One subscription: its mutex is taken with m.mu held, the other way      *)
(* round from Subscription.Close.                                          *)
ShutdownSub ==
  /\ pc[Closer] = "closing" /\ left[Closer] # <<>>
  /\ LET s == Head(left[Closer])
     IN /\ sMu[s] = None
        /\ closes' = IF closes[s] = 0 THEN [closes EXCEPT ![s] = @ + 1] ELSE closes
  /\ left' = [left EXCEPT ![Closer] = Tail(@)]
  /\ UNCHANGED <<locks, subs, topicOf, flow, lease, pc, at, mine, sent>>

ShutdownDone ==
  /\ pc[Closer] = "closing" /\ left[Closer] = <<>>
  /\ subs' = <<>>
  /\ mWriter' = None
  /\ Goto(Closer, "closed")
  /\ UNCHANGED <<mReaders, mPending, sMu, hMu, topicOf, closes, flow, lease, at, mine,
                 left, sent>>

----------------------------------------------------------------------------
PublishStep(p) ==
  \/ PublishRLock(p) \/ PublishLockSub(p) \/ PublishSkip(p) \/ PublishMatch(p)
  \/ PublishSend(p) \/ PublishDone(p)

HolderStep(h) ==
  \/ SubscribeLock(h) \/ (\E s \in Subs : SubscribeAppend(h, s)) \/ StoreSub(h)
  \/ CloseSub(h) \/ RemoveSub(h) \/ LeaveDone(h)

ShutdownStep == ShutdownLock \/ ShutdownSub \/ ShutdownDone

Next ==
  \/ \E p \in Publishers : PublishStep(p) \/ \E t \in Topics : CallPublish(p, t)
  \/ \E h \in Holders : HolderStep(h) \/ Leave(h) \/ \E t \in Topics : Join(h, t)
  \/ \E s \in Subs : RelaySkip(s)
  \/ ShutdownCall \/ ShutdownStep

(* Every goroutine that can run does.  A lock is handed on for ever only   *)
(* if somebody keeps calling, and calls are bounded here, so weak fairness *)
(* is all a waiter needs.  Nobody has to publish, join or leave.           *)
Fairness ==
  /\ \A p \in Publishers : WF_vars(PublishStep(p))
  /\ \A h \in Holders : WF_vars(HolderStep(h))
  /\ \A s \in Subs : WF_vars(RelaySkip(s))
  /\ WF_vars(ShutdownStep)

Spec == Init /\ [][Next]_vars

FairSpec == Spec /\ Fairness

----------------------------------------------------------------------------
(* Safety.                                                                 *)

(* memory.go:30-39, 74-84 and 195-202: Publish, Subscription.Close and the *)
(* broker's Close meet on the same Go channel.  None of them ever sends on *)
(* a closed channel or closes one twice, either of which would panic.      *)
NoPanic ==
  /\ \A s \in Subs : closes[s] <= 1
  /\ \A p \in Publishers : pc[p] = "send" => closes[Head(left[p])] = 0

(* hub.go:258-270, 425-452 and memory.go:68-87: when a channel empties and *)
(* fills again while a Publish is under way, the old relay goroutine and   *)
(* the new one never both get its message.                                 *)
AtMostOnceRelay ==
  \A s, r \in Subs : s # r => got[s] \cap got[r] = {}

(* memory.go:34-37, 56-66, 103 and 203: nothing is left behind in m.subs,  *)
(* and no open subscription is lost from it: a closed subscription is      *)
(* listed only while its closing is under way, and the one a holder keeps  *)
(* is listed unless it was closed.                                         *)
ListedIsLive ==
  /\ \A s \in Listed : closes[s] > 0 =>
       \/ \E h \in Holders : mine[h] = s /\ pc[h] = "removeWait"
       \/ mWriter = Closer
  /\ \A h \in Holders :
       mine[h] # None /\ closes[mine[h]] = 0 => mine[h] \in Listed

(* memory.go:68-87: when Publish returns, every open subscription to the   *)
(* topic has been sent the message, or was full.                           *)
PublishReachesEveryOpenSub ==
  [][\A p \in Publishers : pc[p] = "visit" /\ pc'[p] = "idle" =>
       \A s \in Listed : topicOf[s] = at[p] /\ closes[s] = 0 =>
         <<p, sent[p]>> \in got[s] \cup dropped[s]]_vars

----------------------------------------------------------------------------
(* Liveness, under FairSpec.                                               *)

(* Somebody closing a subscription has s.mu and waits for m.mu, while the  *)
(* one who has m.mu waits for s.mu.                                        *)
LockCycle ==
  \E h \in Holders :
    /\ pc[h] = "removeWait"
    /\ \/ \E p \in mReaders :
            pc[p] = "visit" /\ left[p] # <<>> /\ Head(left[p]) = mine[h]
       \/ mWriter = Closer /\ left[Closer] # <<>> /\ Head(left[Closer]) = mine[h]

(* memory.go:68-87 and hub.go:258-270: a Publish returns, and so does an   *)
(* Unsubscribe that closes a subscription (whose caller holds h.mu, so the *)
(* whole node waits for it), unless the two meet in that cycle: there is   *)
(* no other way for the node to hang.                                      *)
OnlyTheCycleBlocks ==
  /\ \A p \in Publishers : pc[p] # "idle" ~> (pc[p] = "idle" \/ LockCycle)
  /\ \A h \in Holders : pc[h] = "leaving" ~> (pc[h] = "idle" \/ LockCycle)

(* memory.go:80: a slow receiver has its message dropped, that is, Publish *)
(* never waits for a subscription: it returns.                             *)
PublishReturns == \A p \in Publishers : pc[p] # "idle" ~> pc[p] = "idle"
=============================================================================
