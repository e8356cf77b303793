------------------------- MODULE MemoryBrokerProofs -------------------------
(***************************************************************************)
(* Proofs about MemoryBroker, for every set of threads, topics and         *)
(* subscriptions.  No goroutine sends on a closed Go channel or closes one *)
(* twice: who holds which subscription's mutex makes it so.  A Publish     *)
(* reaches the subscriptions that are open, and of those of a channel only *)
(* one: who holds the broker's lock, and who keeps a topic open, make that *)
(* so.  And whoever waits for a lock waits for one that goes on, but for   *)
(* one cycle of two locks: OwnersInv says where the owner of each lock is. *)
(***************************************************************************)
EXTENDS MemoryBroker, TLAPS

(* Where each thread can be, and who has s.mu while it is there.           *)
Located ==
  /\ \A p \in Publishers :
       /\ pc[p] \in {"idle"} \cup PublishPCs
       /\ pc[p] # "idle" => sent[p] # 0
  /\ \A h \in Holders :
       /\ pc[h] \in {"idle"} \cup HolderPCs
       /\ pc[h] # "idle" => at[h] \in Topics
       /\ pc[h] \in HolderPCs \ {"joined", "subWait"} => mine[h] \in Subs
  /\ pc[Closer] \in {"idle", "subWait", "closing", "closed"}

SubHeld ==
  /\ \A p \in Publishers : pc[p] \in {"check", "send"} =>
       left[p] # <<>> /\ sMu[Head(left[p])] = p
  /\ \A h \in Holders : pc[h] \in {"removeWait", "closed"} => sMu[mine[h]] = h

BrokerInv == BrokerTypeOK /\ Located /\ SubHeld /\ NoPanic

USE ThreadKinds, BrokerBounds
USE DEF Threads, locks, flow, Goto

(* The rest of Publish's range loop is a list of subscriptions again.      *)
LEMMA RestIsList ==
  ASSUME NEW q \in Seq(Subs), q # <<>>
  PROVE  Head(q) \in Subs /\ Tail(q) \in Seq(Subs)
  OBVIOUS

(* removeSub's m.subs is a list again.                                     *)
LEMMA ShortenedIsList ==
  ASSUME NEW q \in Seq(Subs), NEW i \in 1..Len(q)
  PROVE  RemoveAt(q, i) \in Seq(Subs)
  BY DEF RemoveAt

(* A message put on one subscription's record keeps the record's type.     *)
LEMMA EnteredIsRecord ==
  ASSUME NEW M, NEW f \in [Subs -> SUBSET M], NEW s \in Subs, NEW m \in M
  PROVE  [f EXCEPT ![s] = @ \cup {m}] \in [Subs -> SUBSET M]
  OBVIOUS

(* Closing one subscription once more keeps the counters' type.            *)
LEMMA CountedUp ==
  ASSUME NEW f \in [Subs -> Nat], NEW s \in Subs
  PROVE  [f EXCEPT ![s] = @ + 1] \in [Subs -> Nat]
  OBVIOUS

(* Initially there are no subscriptions and no lock is held.               *)
LEMMA InitBroker == Init => BrokerInv
  BY DEF Init, BrokerInv, BrokerTypeOK, Located, SubHeld, NoPanic, HolderPCs,
         PublishPCs, Msgs

(* Every step keeps the types.                                             *)
LEMMA TypeStep ==
  ASSUME BrokerTypeOK, Located, SubHeld, Next
  PROVE  BrokerTypeOK'
<1> USE DEF BrokerTypeOK, Located, SubHeld, HolderPCs, PublishPCs
<1>1. ASSUME NEW p \in Publishers, NEW t \in Topics, CallPublish(p, t) PROVE BrokerTypeOK'
  BY <1>1 DEF CallPublish
<1>2. ASSUME NEW p \in Publishers, PublishRLock(p) PROVE BrokerTypeOK'
  BY <1>2 DEF PublishRLock
<1>3. ASSUME NEW p \in Publishers, PublishLockSub(p) PROVE BrokerTypeOK'
  BY <1>3 DEF PublishLockSub
<1>4. ASSUME NEW p \in Publishers, PublishSkip(p) PROVE BrokerTypeOK'
  <2>1. Head(left[p]) \in Subs /\ Tail(left[p]) \in Seq(Subs)
    BY <1>4, RestIsList DEF PublishSkip
  <2> QED
    BY <1>4, <2>1 DEF PublishSkip, NextSub
<1>5. ASSUME NEW p \in Publishers, PublishMatch(p) PROVE BrokerTypeOK'
  BY <1>5 DEF PublishMatch
<1>6. ASSUME NEW p \in Publishers, PublishSend(p) PROVE BrokerTypeOK'
  <2>1. Head(left[p]) \in Subs /\ Tail(left[p]) \in Seq(Subs)
    BY <1>6, RestIsList DEF PublishSend
  <2>2. <<p, sent[p]>> \in Msgs
    BY <1>6 DEF PublishSend, Msgs
  <2>3. \A q \in Seq(Msgs), m \in Msgs :
           Append(q, m) \in Seq(Msgs) /\ Len(Append(q, m)) = Len(q) + 1
    OBVIOUS
  <2>4. /\ buf' \in [Subs -> Seq(Msgs)]
        /\ \A s \in Subs : Len(buf'[s]) <= Cap
    <3> DEFINE s == Head(left[p])
               q == Append(buf[s], <<p, sent[p]>>)
    <3>1. CASE Len(buf[s]) < Cap /\ buf' = [buf EXCEPT ![s] = q]
      <4>1. q \in Seq(Msgs) /\ Len(q) <= Cap
        BY <2>1, <2>2, <2>3, <3>1
      <4> QED
        BY <2>1, <3>1, <4>1
    <3>2. CASE buf' = buf
      BY <3>2
    <3> QED
      BY <1>6, <3>1, <3>2 DEF PublishSend
  <2>5. got' \in [Subs -> SUBSET Msgs] /\ dropped' \in [Subs -> SUBSET Msgs]
    <3> DEFINE s == Head(left[p])
               m == <<p, sent[p]>>
    <3>1. \/ got' = [got EXCEPT ![s] = @ \cup {m}] /\ dropped' = dropped
          \/ dropped' = [dropped EXCEPT ![s] = @ \cup {m}] /\ got' = got
      BY <1>6 DEF PublishSend
    <3>2. m \in Msgs /\ s \in Subs
      BY <2>1, <2>2
    <3>3. got \in [Subs -> SUBSET Msgs] /\ dropped \in [Subs -> SUBSET Msgs]
      OBVIOUS
    <3> HIDE DEF m, s
    <3>4. [got EXCEPT ![s] = @ \cup {m}] \in [Subs -> SUBSET Msgs]
      BY <3>2, <3>3, EnteredIsRecord
    <3>5. [dropped EXCEPT ![s] = @ \cup {m}] \in [Subs -> SUBSET Msgs]
      BY <3>2, <3>3, EnteredIsRecord
    <3> QED
      BY ONLY <3>1, <3>3, <3>4, <3>5
  <2> QED
    BY <1>6, <2>1, <2>4, <2>5 DEF PublishSend, NextSub
<1>7. ASSUME NEW p \in Publishers, PublishDone(p) PROVE BrokerTypeOK'
  BY <1>7 DEF PublishDone
<1>8. ASSUME NEW h \in Holders, NEW t \in Topics, Join(h, t) PROVE BrokerTypeOK'
  BY <1>8 DEF Join
<1>9. ASSUME NEW h \in Holders, SubscribeLock(h) PROVE BrokerTypeOK'
  BY <1>9 DEF SubscribeLock
<1>10. ASSUME NEW h \in Holders, NEW s \in Subs, SubscribeAppend(h, s) PROVE BrokerTypeOK'
  BY <1>10 DEF SubscribeAppend
<1>11. ASSUME NEW h \in Holders, StoreSub(h) PROVE BrokerTypeOK'
  BY <1>11 DEF StoreSub
<1>12. ASSUME NEW h \in Holders, Leave(h) PROVE BrokerTypeOK'
  BY <1>12 DEF Leave
<1>13. ASSUME NEW h \in Holders, CloseSub(h) PROVE BrokerTypeOK'
  <2>1. mine[h] \in Subs
    BY <1>13 DEF CloseSub
  <2>2. /\ sMu' \in [Subs -> Threads \cup {None}]
        /\ closes' \in [Subs -> Nat]
        /\ mPending' \subseteq Holders \cup {Closer}
    <3>1. sMu' = [sMu EXCEPT ![mine[h]] = h]
      BY <1>13 DEF CloseSub
    <3>2. closes' = [closes EXCEPT ![mine[h]] = @ + 1] \/ closes' = closes
      BY <1>13 DEF CloseSub
    <3>3. mPending' = mPending \cup {h} \/ mPending' = mPending
      BY <1>13 DEF CloseSub
    <3>4. h \in Threads /\ h \in Holders
      OBVIOUS
    <3>5. sMu' \in [Subs -> Threads \cup {None}]
      BY <2>1, <3>1, <3>4
    <3>6. closes' \in [Subs -> Nat]
      <4>1. [closes EXCEPT ![mine[h]] = @ + 1] \in [Subs -> Nat]
        BY <2>1, CountedUp
      <4>2. closes \in [Subs -> Nat]
        OBVIOUS
      <4> QED
        BY ONLY <3>2, <4>1, <4>2
    <3>7. mPending' \subseteq Holders \cup {Closer}
      BY <3>3, <3>4
    <3> QED
      BY <3>5, <3>6, <3>7
  <2>3. pc' \in [Threads -> {"idle", "closing"} \cup PublishPCs \cup HolderPCs]
    <3>1. \E l \in HolderPCs : pc' = [pc EXCEPT ![h] = l]
      BY <1>13 DEF CloseSub
    <3> QED
      BY <3>1
  <2> QED
    BY <1>13, <2>2, <2>3 DEF CloseSub
<1>14. ASSUME NEW h \in Holders, RemoveSub(h) PROVE BrokerTypeOK'
  BY <1>14, ShortenedIsList DEF RemoveSub
<1>15. ASSUME NEW h \in Holders, LeaveDone(h) PROVE BrokerTypeOK'
  BY <1>15 DEF LeaveDone
<1>16. ASSUME NEW s \in Subs, RelaySkip(s) PROVE BrokerTypeOK'
  <2>1. /\ Tail(buf[s]) \in Seq(Msgs)
        /\ Len(Tail(buf[s])) <= Len(buf[s])
    BY <1>16 DEF RelaySkip
  <2>2. /\ buf' \in [Subs -> Seq(Msgs)]
        /\ \A r \in Subs : Len(buf'[r]) <= Cap
    <3>1. buf' = [buf EXCEPT ![s] = Tail(buf[s])]
      BY <1>16 DEF RelaySkip
    <3>2. Len(Tail(buf[s])) <= Cap
      <4>1. Len(buf[s]) <= Cap /\ Len(buf[s]) \in Nat /\ Len(Tail(buf[s])) \in Nat
        BY <2>1
      <4> QED
        BY <2>1, <4>1
    <3> QED
      BY <2>1, <3>1, <3>2
  <2> QED
    BY <1>16, <2>2 DEF RelaySkip
<1>17. CASE ShutdownCall
  BY <1>17 DEF ShutdownCall
<1>18. CASE ShutdownLock
  BY <1>18 DEF ShutdownLock
<1>19. CASE ShutdownSub
  <2>1. Head(left[Closer]) \in Subs /\ Tail(left[Closer]) \in Seq(Subs)
    BY <1>19, RestIsList DEF ShutdownSub
  <2>2. closes' \in [Subs -> Nat]
    BY <1>19, <2>1 DEF ShutdownSub
  <2>3. left' \in [Publishers \cup {Closer} -> Seq(Subs)]
    BY <1>19, <2>1 DEF ShutdownSub
  <2> QED
    BY <1>19, <2>2, <2>3 DEF ShutdownSub
<1>20. CASE ShutdownDone
  BY <1>20 DEF ShutdownDone
<1> QED
  BY <1>1, <1>2, <1>3, <1>4, <1>5, <1>6, <1>7, <1>8, <1>9, <1>10, <1>11,
     <1>12, <1>13, <1>14, <1>15, <1>16, <1>17, <1>18, <1>19, <1>20
     DEF Next, PublishStep, HolderStep, ShutdownStep

(* Every step leaves its thread where the next one expects it.             *)
LEMMA LocatedStep ==
  ASSUME BrokerTypeOK, Located, Next
  PROVE  Located'
<1> USE DEF BrokerTypeOK, Located, HolderPCs, PublishPCs
<1>1. ASSUME NEW p \in Publishers, NEW t \in Topics, CallPublish(p, t) PROVE Located'
  BY <1>1 DEF CallPublish
<1>2. ASSUME NEW p \in Publishers, PublishRLock(p) PROVE Located'
  BY <1>2 DEF PublishRLock
<1>3. ASSUME NEW p \in Publishers, PublishLockSub(p) PROVE Located'
  BY <1>3 DEF PublishLockSub
<1>4. ASSUME NEW p \in Publishers, PublishSkip(p) PROVE Located'
  BY <1>4 DEF PublishSkip, NextSub
<1>5. ASSUME NEW p \in Publishers, PublishMatch(p) PROVE Located'
  BY <1>5 DEF PublishMatch
<1>6. ASSUME NEW p \in Publishers, PublishSend(p) PROVE Located'
  BY <1>6 DEF PublishSend, NextSub
<1>7. ASSUME NEW p \in Publishers, PublishDone(p) PROVE Located'
  BY <1>7 DEF PublishDone
<1>8. ASSUME NEW h \in Holders, NEW t \in Topics, Join(h, t) PROVE Located'
  BY <1>8 DEF Join
<1>9. ASSUME NEW h \in Holders, SubscribeLock(h) PROVE Located'
  BY <1>9 DEF SubscribeLock
<1>10. ASSUME NEW h \in Holders, NEW s \in Subs, SubscribeAppend(h, s) PROVE Located'
  BY <1>10 DEF SubscribeAppend
<1>11. ASSUME NEW h \in Holders, StoreSub(h) PROVE Located'
  BY <1>11 DEF StoreSub
<1>12. ASSUME NEW h \in Holders, Leave(h) PROVE Located'
  BY <1>12 DEF Leave
<1>13. ASSUME NEW h \in Holders, CloseSub(h) PROVE Located'
  <2>1. mine[h] \in Subs
    BY <1>13 DEF CloseSub
  <2>2. CASE closes[mine[h]] = 0
    BY <1>13, <2>1, <2>2 DEF CloseSub
  <2>3. CASE closes[mine[h]] # 0
    BY <1>13, <2>1, <2>3 DEF CloseSub
  <2> QED
    BY <2>2, <2>3
<1>14. ASSUME NEW h \in Holders, RemoveSub(h) PROVE Located'
  BY <1>14 DEF RemoveSub
<1>15. ASSUME NEW h \in Holders, LeaveDone(h) PROVE Located'
  BY <1>15 DEF LeaveDone
<1>16. ASSUME NEW s \in Subs, RelaySkip(s) PROVE Located'
  BY <1>16 DEF RelaySkip
<1>17. CASE ShutdownCall
  BY <1>17 DEF ShutdownCall
<1>18. CASE ShutdownLock
  BY <1>18 DEF ShutdownLock
<1>19. CASE ShutdownSub
  BY <1>19 DEF ShutdownSub
<1>20. CASE ShutdownDone
  BY <1>20 DEF ShutdownDone
<1> QED
  BY <1>1, <1>2, <1>3, <1>4, <1>5, <1>6, <1>7, <1>8, <1>9, <1>10, <1>11,
     <1>12, <1>13, <1>14, <1>15, <1>16, <1>17, <1>18, <1>19, <1>20
     DEF Next, PublishStep, HolderStep, ShutdownStep

(* Releasing the mutex a publisher holds takes nobody else's away.         *)
LEMMA NextSubHeld ==
  ASSUME NEW p \in Publishers, BrokerTypeOK, Located, SubHeld,
         pc[p] \in {"check", "send"}, NextSub(p), UNCHANGED mine
  PROVE  SubHeld'
<1> USE DEF BrokerTypeOK, Located, SubHeld, HolderPCs, PublishPCs
<1>1. /\ Head(left[p]) \in Subs /\ sMu[Head(left[p])] = p
      /\ sMu' = [sMu EXCEPT ![Head(left[p])] = None]
  BY RestIsList DEF NextSub
<1>2. ASSUME NEW q \in Publishers, pc'[q] \in {"check", "send"}
      PROVE  left'[q] # <<>> /\ sMu'[Head(left'[q])] = q
  <2>1. q # p /\ pc[q] \in {"check", "send"} /\ left'[q] = left[q]
    BY <1>2 DEF NextSub
  <2>2. left[q] # <<>> /\ Head(left[q]) \in Subs /\ sMu[Head(left[q])] = q
    BY <2>1, RestIsList
  <2> QED
    BY <1>1, <2>1, <2>2
<1>3. ASSUME NEW h \in Holders, pc'[h] \in {"removeWait", "closed"}
      PROVE  sMu'[mine'[h]] = h
  <2>1. sMu[mine[h]] = h /\ mine[h] \in Subs /\ h # p
    BY <1>3 DEF NextSub
  <2> QED
    BY <1>1, <2>1
<1> QED
  BY <1>2, <1>3

(* A subscription's mutex stays with whoever has taken it.                 *)
LEMMA HeldStep ==
  ASSUME BrokerTypeOK, Located, SubHeld, Next
  PROVE  SubHeld'
<1> USE DEF BrokerTypeOK, Located, SubHeld, HolderPCs, PublishPCs
<1>1. ASSUME NEW p \in Publishers, NEW t \in Topics, CallPublish(p, t) PROVE SubHeld'
  BY <1>1 DEF CallPublish
<1>2. ASSUME NEW p \in Publishers, PublishRLock(p) PROVE SubHeld'
  BY <1>2 DEF PublishRLock
<1>3. ASSUME NEW p \in Publishers, PublishLockSub(p) PROVE SubHeld'
  <2>1. /\ left[p] # <<>> /\ Head(left[p]) \in Subs
        /\ sMu[Head(left[p])] = None
        /\ sMu' = [sMu EXCEPT ![Head(left[p])] = p]
        /\ UNCHANGED <<left, mine>> /\ pc' = [pc EXCEPT ![p] = "check"]
    BY <1>3, RestIsList DEF PublishLockSub
  <2>2. ASSUME NEW q \in Publishers, pc'[q] \in {"check", "send"}
        PROVE  left'[q] # <<>> /\ sMu'[Head(left'[q])] = q
    <3>1. CASE q = p
      BY <2>1, <3>1
    <3>2. CASE q # p
      <4>1. left[q] # <<>> /\ Head(left[q]) \in Subs /\ sMu[Head(left[q])] = q
        BY <2>1, <2>2, <3>2, RestIsList
      <4> QED
        BY <2>1, <4>1
    <3> QED
      BY <3>1, <3>2
  <2>3. ASSUME NEW h \in Holders, pc'[h] \in {"removeWait", "closed"}
        PROVE  sMu'[mine'[h]] = h
    <3>1. sMu[mine[h]] = h /\ mine[h] \in Subs
      BY <2>1, <2>3
    <3> QED
      BY <2>1, <3>1
  <2> QED
    BY <2>2, <2>3
<1>4. ASSUME NEW p \in Publishers, PublishSkip(p) PROVE SubHeld'
  BY <1>4, NextSubHeld DEF PublishSkip
<1>5. ASSUME NEW p \in Publishers, PublishMatch(p) PROVE SubHeld'
  BY <1>5 DEF PublishMatch
<1>6. ASSUME NEW p \in Publishers, PublishSend(p) PROVE SubHeld'
  BY <1>6, NextSubHeld DEF PublishSend
<1>7. ASSUME NEW p \in Publishers, PublishDone(p) PROVE SubHeld'
  BY <1>7 DEF PublishDone
<1>8. ASSUME NEW h \in Holders, NEW t \in Topics, Join(h, t) PROVE SubHeld'
  BY <1>8 DEF Join
<1>9. ASSUME NEW h \in Holders, SubscribeLock(h) PROVE SubHeld'
  BY <1>9 DEF SubscribeLock
<1>10. ASSUME NEW h \in Holders, NEW s \in Subs, SubscribeAppend(h, s) PROVE SubHeld'
  BY <1>10 DEF SubscribeAppend
<1>11. ASSUME NEW h \in Holders, StoreSub(h) PROVE SubHeld'
  BY <1>11 DEF StoreSub
<1>12. ASSUME NEW h \in Holders, Leave(h) PROVE SubHeld'
  BY <1>12 DEF Leave
<1>13. ASSUME NEW h \in Holders, CloseSub(h) PROVE SubHeld'
  <2>1. mine[h] \in Subs
    BY <1>13 DEF CloseSub
  <2>2. CASE closes[mine[h]] = 0
    BY <1>13, <2>1, <2>2 DEF CloseSub
  <2>3. CASE closes[mine[h]] # 0
    BY <1>13, <2>1, <2>3 DEF CloseSub
  <2> QED
    BY <2>2, <2>3
<1>14. ASSUME NEW h \in Holders, RemoveSub(h) PROVE SubHeld'
  BY <1>14 DEF RemoveSub
<1>15. ASSUME NEW h \in Holders, LeaveDone(h) PROVE SubHeld'
  BY <1>15 DEF LeaveDone
<1>16. ASSUME NEW s \in Subs, RelaySkip(s) PROVE SubHeld'
  BY <1>16 DEF RelaySkip
<1>17. CASE ShutdownCall
  BY <1>17 DEF ShutdownCall
<1>18. CASE ShutdownLock
  BY <1>18 DEF ShutdownLock
<1>19. CASE ShutdownSub
  BY <1>19 DEF ShutdownSub
<1>20. CASE ShutdownDone
  BY <1>20 DEF ShutdownDone
<1> QED
  BY <1>1, <1>2, <1>3, <1>4, <1>5, <1>6, <1>7, <1>8, <1>9, <1>10, <1>11,
     <1>12, <1>13, <1>14, <1>15, <1>16, <1>17, <1>18, <1>19, <1>20
     DEF Next, PublishStep, HolderStep, ShutdownStep

(* Only who has the mutex closes the Go channel or sends on it.            *)
LEMMA PanicStep ==
  ASSUME BrokerTypeOK, Located, SubHeld, NoPanic, Next
  PROVE  NoPanic'
<1> USE DEF BrokerTypeOK, Located, SubHeld, NoPanic, HolderPCs, PublishPCs
<1>1. ASSUME NEW p \in Publishers, NEW t \in Topics, CallPublish(p, t) PROVE NoPanic'
  BY <1>1 DEF CallPublish
<1>2. ASSUME NEW p \in Publishers, PublishRLock(p) PROVE NoPanic'
  BY <1>2 DEF PublishRLock
<1>3. ASSUME NEW p \in Publishers, PublishLockSub(p) PROVE NoPanic'
  BY <1>3 DEF PublishLockSub
<1>4. ASSUME NEW p \in Publishers, PublishSkip(p) PROVE NoPanic'
  BY <1>4 DEF PublishSkip, NextSub
<1>5. ASSUME NEW p \in Publishers, PublishMatch(p) PROVE NoPanic'
  BY <1>5 DEF PublishMatch
<1>6. ASSUME NEW p \in Publishers, PublishSend(p) PROVE NoPanic'
  BY <1>6 DEF PublishSend, NextSub
<1>7. ASSUME NEW p \in Publishers, PublishDone(p) PROVE NoPanic'
  BY <1>7 DEF PublishDone
<1>8. ASSUME NEW h \in Holders, NEW t \in Topics, Join(h, t) PROVE NoPanic'
  BY <1>8 DEF Join
<1>9. ASSUME NEW h \in Holders, SubscribeLock(h) PROVE NoPanic'
  BY <1>9 DEF SubscribeLock
<1>10. ASSUME NEW h \in Holders, NEW s \in Subs, SubscribeAppend(h, s) PROVE NoPanic'
  BY <1>10 DEF SubscribeAppend
<1>11. ASSUME NEW h \in Holders, StoreSub(h) PROVE NoPanic'
  BY <1>11 DEF StoreSub
<1>12. ASSUME NEW h \in Holders, Leave(h) PROVE NoPanic'
  BY <1>12 DEF Leave
<1>13. ASSUME NEW h \in Holders, CloseSub(h) PROVE NoPanic'
  <2>1. mine[h] \in Subs
    BY <1>13 DEF CloseSub
  <2>2. CASE closes[mine[h]] = 0
    <3>1. closes' = [closes EXCEPT ![mine[h]] = 1] /\ sMu[mine[h]] = None
      BY <1>13, <2>2 DEF CloseSub
    <3>2. ASSUME NEW p \in Publishers, pc'[p] = "send"
          PROVE  closes'[Head(left'[p])] = 0
      <4>1. pc[p] = "send" /\ left'[p] = left[p]
        BY <1>13, <2>2, <3>2 DEF CloseSub
      <4>2. sMu[Head(left[p])] = p /\ p # None
        BY <4>1
      <4> QED
        BY <2>1, <3>1, <4>1, <4>2
    <3> QED
      BY <2>1, <3>1, <3>2
  <2>3. CASE closes[mine[h]] # 0
    BY <1>13, <2>1, <2>3 DEF CloseSub
  <2> QED
    BY <2>2, <2>3
<1>14. ASSUME NEW h \in Holders, RemoveSub(h) PROVE NoPanic'
  BY <1>14 DEF RemoveSub
<1>15. ASSUME NEW h \in Holders, LeaveDone(h) PROVE NoPanic'
  BY <1>15 DEF LeaveDone
<1>16. ASSUME NEW s \in Subs, RelaySkip(s) PROVE NoPanic'
  BY <1>16 DEF RelaySkip
<1>17. CASE ShutdownCall
  BY <1>17 DEF ShutdownCall
<1>18. CASE ShutdownLock
  BY <1>18 DEF ShutdownLock
<1>19. CASE ShutdownSub
  <2> DEFINE s == Head(left[Closer])
  <2>1. s \in Subs
    BY <1>19, RestIsList DEF ShutdownSub
  <2>2. /\ sMu[s] = None /\ pc' = pc
        /\ left' = [left EXCEPT ![Closer] = Tail(@)]
        /\ closes' = IF closes[s] = 0 THEN [closes EXCEPT ![s] = @ + 1] ELSE closes
    BY <1>19 DEF ShutdownSub
  <2> HIDE DEF s
  <2>3. \A r \in Subs : closes'[r] <= 1 /\ (closes'[r] = closes[r] \/ r = s)
    BY <2>1, <2>2
  <2>4. ASSUME NEW p \in Publishers, pc'[p] = "send"
        PROVE  closes'[Head(left'[p])] = 0
    <3>1. p # None /\ p # Closer /\ left'[p] = left[p] /\ pc[p] = "send"
      BY <2>2, <2>4
    <3>2. /\ left[p] # <<>> /\ sMu[Head(left[p])] = p
          /\ closes[Head(left[p])] = 0 /\ left[p] \in Seq(Subs)
      BY <3>1
    <3>3. Head(left[p]) \in Subs /\ Head(left[p]) # s
      BY <2>2, <3>1, <3>2, RestIsList
    <3> QED
      BY <2>3, <3>1, <3>2, <3>3
  <2> QED
    BY <2>3, <2>4
<1>20. CASE ShutdownDone
  BY <1>20 DEF ShutdownDone
<1> QED
  BY <1>1, <1>2, <1>3, <1>4, <1>5, <1>6, <1>7, <1>8, <1>9, <1>10, <1>11,
     <1>12, <1>13, <1>14, <1>15, <1>16, <1>17, <1>18, <1>19, <1>20
     DEF Next, PublishStep, HolderStep, ShutdownStep

(* The induction step, from the four lemmas above.                         *)
LEMMA BrokerStep == BrokerInv /\ [Next]_vars => BrokerInv'
<1>1. CASE Next
  BY <1>1, TypeStep, LocatedStep, HeldStep, PanicStep DEF BrokerInv
<1>2. CASE UNCHANGED vars
  BY <1>2 DEF vars, BrokerInv, BrokerTypeOK, Located, SubHeld, NoPanic
<1> QED
  BY <1>1, <1>2

(* The inductive invariant: types, places, mutex holders, no panic.        *)
THEOREM BrokerInvariant == Spec => []BrokerInv
  BY InitBroker, BrokerStep, PTL DEF Spec

(* The variables keep their types; a subscription's buffer never holds     *)
(* more than its Go channel can.                                           *)
THEOREM BrokerTypeCorrect == Spec => []BrokerTypeOK
<1>1. BrokerInv => BrokerTypeOK
  BY DEF BrokerInv
<1> QED
  BY <1>1, BrokerInvariant, PTL

(* memory.go:30-39, 74-84 and 195-202: no send on a closed Go channel and  *)
(* no second close, for any number of publishers and subscriptions.        *)
THEOREM NeverPanics == Spec => []NoPanic
<1>1. BrokerInv => NoPanic
  BY DEF BrokerInv
<1> QED
  BY <1>1, BrokerInvariant, PTL

----------------------------------------------------------------------------
(* Who is sent what.  A Publish reads m.subs under the read lock, nobody   *)
(* changes it meanwhile, and of the subscriptions it can find there at     *)
(* most one to its topic is open: the one of whoever keeps the topic open. *)

Elements(q) == {q[i] : i \in 1..Len(q)}

Distinct(q) == \A i, j \in 1..Len(q) : q[i] = q[j] => i = j

(* The subscriptions a Publish or the broker's Close has yet to visit.     *)
Rest(x) == Elements(left[x])

ReadingPCs == {"visit", "check", "send"}

(* Who has m.mu.                                                           *)
LockInv ==
  /\ \A p \in Publishers : p \in mReaders <=> pc[p] \in ReadingPCs
  /\ mWriter = Closer <=> pc[Closer] = "closing"
  /\ mWriter = Closer => mReaders = {}

(* A topic has one holder, and every open subscription to it is its own.   *)
LeaseInv ==
  /\ \A h \in Holders : pc[h] # "idle" => lease[at[h]] = h
  /\ \A h \in Holders : mine[h] # None =>
       pc[h] \in HolderPCs \ {"joined", "subWait"} /\ topicOf[mine[h]] = at[h]
  /\ \A h \in Holders : pc[h] \in {"removeWait", "closed"} => closes[mine[h]] > 0
  /\ \A s \in Subs : topicOf[s] # None /\ closes[s] = 0 => \E h \in Holders : mine[h] = s
  /\ \A s \in Subs : topicOf[s] = None => closes[s] = 0

(* m.subs, and how much of it is left to visit.                            *)
ListInv ==
  /\ Distinct(subs)
  /\ \A s \in Listed : topicOf[s] # None
  /\ \A p \in mReaders : Rest(p) \subseteq Listed
  /\ mWriter = Closer =>
       /\ Rest(Closer) \subseteq Listed
       /\ \A s \in Listed : s \in Rest(Closer) \/ closes[s] > 0
  /\ ListedIsLive

(* The message a Publish is about is new, nobody but the one open          *)
(* subscription to its topic can have got it, and that one is still ahead  *)
(* or has been served.                                                     *)
PublishInv(p) ==
  /\ pc[p] = "rlock" => \A s \in Subs : <<p, sent[p]>> \notin got[s]
  /\ pc[p] = "send" => topicOf[Head(left[p])] = at[p]
  /\ pc[p] \in ReadingPCs => \A r \in Listed : topicOf[r] = at[p] /\ closes[r] = 0 =>
       /\ \A s \in Subs : <<p, sent[p]>> \in got[s] => r = s
       /\ r \in Rest(p) \/ <<p, sent[p]>> \in got[r] \cup dropped[r]

GotInv ==
  /\ \A s \in Subs : \A m \in got[s] : m[2] <= sent[m[1]]
  /\ \A p \in Publishers : PublishInv(p)
  /\ AtMostOnceRelay

DeliveryInv == BrokerInv /\ LockInv /\ LeaseInv /\ ListInv /\ GotInv

(* The first of a list, and those after it.                                *)
LEMMA FirstAndRest ==
  ASSUME NEW q \in Seq(Subs), q # <<>>
  PROVE  /\ Head(q) \in Elements(q) /\ Elements(Tail(q)) \subseteq Elements(q)
         /\ Elements(q) \subseteq Elements(Tail(q)) \cup {Head(q)}
<1>1. /\ Len(q) \in Nat \ {0} /\ Len(Tail(q)) = Len(q) - 1 /\ Head(q) = q[1]
      /\ \A i \in 1..Len(Tail(q)) : Tail(q)[i] = q[i + 1]
  OBVIOUS
<1>2. Head(q) \in Elements(q)
  BY <1>1 DEF Elements
<1>3. Elements(Tail(q)) \subseteq Elements(q)
  <2>1. \A i \in 1..Len(Tail(q)) : i + 1 \in 1..Len(q)
    BY <1>1
  <2> QED
    BY <1>1, <2>1 DEF Elements
<1>4. Elements(q) \subseteq Elements(Tail(q)) \cup {Head(q)}
  <2> SUFFICES ASSUME NEW i \in 1..Len(q) PROVE q[i] \in Elements(Tail(q)) \cup {Head(q)}
    BY DEF Elements
  <2>1. CASE i = 1
    BY <1>1, <2>1
  <2>2. CASE i # 1
    <3>1. i - 1 \in 1..Len(Tail(q)) /\ Tail(q)[i - 1] = q[i]
      BY <1>1, <2>2
    <3> QED
      BY <3>1 DEF Elements
  <2> QED
    BY <2>1, <2>2
<1> QED
  BY <1>2, <1>3, <1>4

(* A list with one more at its end.                                       *)
LEMMA LongerList ==
  ASSUME NEW q \in Seq(Subs), NEW s \in Subs
  PROVE  /\ Elements(Append(q, s)) = Elements(q) \cup {s}
         /\ Distinct(q) /\ s \notin Elements(q) => Distinct(Append(q, s))
<1>1. /\ Len(q) \in Nat /\ Len(Append(q, s)) = Len(q) + 1
      /\ \A i \in 1..Len(q) : Append(q, s)[i] = q[i]
      /\ Append(q, s)[Len(q) + 1] = s
  OBVIOUS
<1>2. \A n \in Nat : 1..(n + 1) = 1..n \cup {n + 1}
  OBVIOUS
<1>3. 1..Len(Append(q, s)) = 1..Len(q) \cup {Len(q) + 1}
  BY ONLY <1>1, <1>2
<1>4. Elements(Append(q, s)) = Elements(q) \cup {s}
  BY <1>1, <1>3 DEF Elements
<1>5. ASSUME Distinct(q), s \notin Elements(q) PROVE Distinct(Append(q, s))
  BY <1>1, <1>3, <1>5 DEF Distinct, Elements
<1> QED
  BY <1>4, <1>5

(* A list without one of its entries.                                      *)
LEMMA ShorterList ==
  ASSUME NEW q \in Seq(Subs), NEW k \in 1..Len(q), Distinct(q)
  PROVE  /\ Elements(RemoveAt(q, k)) = Elements(q) \ {q[k]}
         /\ Distinct(RemoveAt(q, k))
<1> DEFINE r == RemoveAt(q, k)
<1>1. /\ Len(q) \in Nat /\ k \in Nat /\ k <= Len(q) /\ 1 <= k
      /\ Len(r) = Len(q) - 1
      /\ \A i \in 1..(Len(q) - 1) : r[i] = q[IF i < k THEN i ELSE i + 1]
  <2> DEFINE a == SubSeq(q, 1, k - 1)
             b == SubSeq(q, k + 1, Len(q))
  <2>1. Len(q) \in Nat /\ k \in Nat /\ k <= Len(q) /\ 1 <= k
    OBVIOUS
  <2>2. a \in Seq(Subs) /\ Len(a) = k - 1 /\ \A i \in 1..(k - 1) : a[i] = q[i]
    BY <2>1
  <2>3. b \in Seq(Subs) /\ Len(b) = Len(q) - k /\ \A i \in 1..(Len(q) - k) : b[i] = q[k + i]
    BY <2>1
  <2>4. r = a \o b
    BY DEF RemoveAt
  <2> HIDE DEF a, b, r
  <2>5. Len(r) = Len(q) - 1
    BY <2>1, <2>2, <2>3, <2>4
  <2>6. \A i \in 1..(Len(q) - 1) : r[i] = IF i < k THEN a[i] ELSE b[i - (k - 1)]
    BY <2>1, <2>2, <2>3, <2>4
  <2>7. ASSUME NEW i \in 1..(Len(q) - 1) PROVE r[i] = q[IF i < k THEN i ELSE i + 1]
    <3>1. CASE i < k
      BY <2>1, <2>2, <2>6, <3>1
    <3>2. CASE ~(i < k)
      <4>1. i - (k - 1) \in 1..(Len(q) - k) /\ k + (i - (k - 1)) = i + 1
        BY <2>1, <3>2
      <4> QED
        BY <2>3, <2>6, <3>2, <4>1
    <3> QED
      BY <3>1, <3>2
  <2> QED
    BY <2>1, <2>5, <2>7
<1> HIDE DEF r
<1>2. \A i \in 1..Len(r) :
        /\ (IF i < k THEN i ELSE i + 1) \in 1..Len(q) \ {k}
        /\ r[i] = q[IF i < k THEN i ELSE i + 1]
  BY <1>1
<1>3. \A j \in 1..Len(q) \ {k} : \E i \in 1..Len(r) : j = IF i < k THEN i ELSE i + 1
  <2> TAKE j \in 1..Len(q) \ {k}
  <2>1. CASE j < k
    <3>1. j \in 1..Len(r)
      BY <1>1, <2>1
    <3> QED
      BY <2>1, <3>1
  <2>2. CASE j > k
    <3>1. j - 1 \in 1..Len(r) /\ ~(j - 1 < k) /\ j = (j - 1) + 1
      BY <1>1, <2>2
    <3> QED
      BY <3>1
  <2> QED
    BY <1>1, <2>1, <2>2
<1>4. Elements(r) \subseteq Elements(q) \ {q[k]}
  BY <1>2 DEF Elements, Distinct
<1>5. Elements(q) \ {q[k]} \subseteq Elements(r)
  <2> SUFFICES ASSUME NEW j \in 1..Len(q), q[j] # q[k] PROVE q[j] \in Elements(r)
    BY DEF Elements
  <2>1. PICK i \in 1..Len(r) : j = IF i < k THEN i ELSE i + 1
    BY <1>3
  <2> QED
    BY <1>2, <2>1 DEF Elements
<1>6. Distinct(r)
  <2> SUFFICES ASSUME NEW i \in 1..Len(r), NEW j \in 1..Len(r), r[i] = r[j] PROVE i = j
    BY DEF Distinct
  <2>1. (IF i < k THEN i ELSE i + 1) = (IF j < k THEN j ELSE j + 1)
    BY <1>2 DEF Distinct
  <2> QED
    BY <1>1, <2>1
<1> QED
  BY <1>4, <1>5, <1>6 DEF r

(* m.mu is passed on properly.                                             *)
LEMMA LockStep ==
  ASSUME BrokerTypeOK, Located, LockInv, Next
  PROVE  LockInv'
<1> USE DEF BrokerTypeOK, Located, LockInv, HolderPCs, PublishPCs, ReadingPCs
<1>1. ASSUME NEW p \in Publishers, NEW t \in Topics, CallPublish(p, t) PROVE LockInv'
  BY <1>1 DEF CallPublish
<1>2. ASSUME NEW p \in Publishers, PublishRLock(p) PROVE LockInv'
  BY <1>2 DEF PublishRLock, CanRead
<1>3. ASSUME NEW p \in Publishers, PublishLockSub(p) PROVE LockInv'
  BY <1>3 DEF PublishLockSub
<1>4. ASSUME NEW p \in Publishers, PublishSkip(p) PROVE LockInv'
  BY <1>4 DEF PublishSkip, NextSub
<1>5. ASSUME NEW p \in Publishers, PublishMatch(p) PROVE LockInv'
  BY <1>5 DEF PublishMatch
<1>6. ASSUME NEW p \in Publishers, PublishSend(p) PROVE LockInv'
  BY <1>6 DEF PublishSend, NextSub
<1>7. ASSUME NEW p \in Publishers, PublishDone(p) PROVE LockInv'
  BY <1>7 DEF PublishDone
<1>8. ASSUME NEW h \in Holders, NEW t \in Topics, Join(h, t) PROVE LockInv'
  BY <1>8 DEF Join
<1>9. ASSUME NEW h \in Holders, SubscribeLock(h) PROVE LockInv'
  BY <1>9 DEF SubscribeLock
<1>10. ASSUME NEW h \in Holders, NEW s \in Subs, SubscribeAppend(h, s) PROVE LockInv'
  BY <1>10 DEF SubscribeAppend, CanWrite
<1>11. ASSUME NEW h \in Holders, StoreSub(h) PROVE LockInv'
  BY <1>11 DEF StoreSub
<1>12. ASSUME NEW h \in Holders, Leave(h) PROVE LockInv'
  BY <1>12 DEF Leave
<1>13. ASSUME NEW h \in Holders, CloseSub(h) PROVE LockInv'
  <2>1. \E l \in {"removeWait", "closed"} : pc' = [pc EXCEPT ![h] = l]
    BY <1>13 DEF CloseSub
  <2> QED
    BY <1>13, <2>1 DEF CloseSub
<1>14. ASSUME NEW h \in Holders, RemoveSub(h) PROVE LockInv'
  BY <1>14 DEF RemoveSub, CanWrite
<1>15. ASSUME NEW h \in Holders, LeaveDone(h) PROVE LockInv'
  BY <1>15 DEF LeaveDone
<1>16. ASSUME NEW s \in Subs, RelaySkip(s) PROVE LockInv'
  BY <1>16 DEF RelaySkip
<1>17. CASE ShutdownCall
  BY <1>17 DEF ShutdownCall
<1>18. CASE ShutdownLock
  BY <1>18 DEF ShutdownLock, CanWrite
<1>19. CASE ShutdownSub
  BY <1>19 DEF ShutdownSub
<1>20. CASE ShutdownDone
  BY <1>20 DEF ShutdownDone
<1> QED
  BY <1>1, <1>2, <1>3, <1>4, <1>5, <1>6, <1>7, <1>8, <1>9, <1>10, <1>11,
     <1>12, <1>13, <1>14, <1>15, <1>16, <1>17, <1>18, <1>19, <1>20
     DEF Next, PublishStep, HolderStep, ShutdownStep

(* The topics stay with their holders.                                     *)
LEMMA LeaseStep ==
  ASSUME BrokerTypeOK, Located, LockInv, LeaseInv, ListInv, Next
  PROVE  LeaseInv'
<1> USE DEF BrokerTypeOK, Located, LeaseInv, HolderPCs, PublishPCs
<1>1. ASSUME NEW p \in Publishers, NEW t \in Topics, CallPublish(p, t) PROVE LeaseInv'
  BY <1>1 DEF CallPublish
<1>2. ASSUME NEW p \in Publishers, PublishRLock(p) PROVE LeaseInv'
  BY <1>2 DEF PublishRLock, CanRead
<1>3. ASSUME NEW p \in Publishers, PublishLockSub(p) PROVE LeaseInv'
  BY <1>3 DEF PublishLockSub
<1>4. ASSUME NEW p \in Publishers, PublishSkip(p) PROVE LeaseInv'
  BY <1>4 DEF PublishSkip, NextSub
<1>5. ASSUME NEW p \in Publishers, PublishMatch(p) PROVE LeaseInv'
  BY <1>5 DEF PublishMatch
<1>6. ASSUME NEW p \in Publishers, PublishSend(p) PROVE LeaseInv'
  BY <1>6 DEF PublishSend, NextSub
<1>7. ASSUME NEW p \in Publishers, PublishDone(p) PROVE LeaseInv'
  BY <1>7 DEF PublishDone
<1>8. ASSUME NEW h \in Holders, NEW t \in Topics, Join(h, t) PROVE LeaseInv'
  BY <1>8 DEF Join
<1>9. ASSUME NEW h \in Holders, SubscribeLock(h) PROVE LeaseInv'
  BY <1>9 DEF SubscribeLock
<1>10. ASSUME NEW h \in Holders, NEW s \in Subs, SubscribeAppend(h, s) PROVE LeaseInv'
  BY <1>10 DEF SubscribeAppend, CanWrite
<1>11. ASSUME NEW h \in Holders, StoreSub(h) PROVE LeaseInv'
  BY <1>11 DEF StoreSub
<1>12. ASSUME NEW h \in Holders, Leave(h) PROVE LeaseInv'
  BY <1>12 DEF Leave
<1>13. ASSUME NEW h \in Holders, CloseSub(h) PROVE LeaseInv'
  <2>1. /\ mine[h] \in Subs /\ mine[h] # None /\ lease[at[h]] = h
        /\ topicOf[mine[h]] = at[h] /\ at[h] # None /\ pc[h] = "leaving"
    BY <1>13 DEF CloseSub
  <2>2. /\ closes' = [closes EXCEPT ![mine[h]] = 1] \/ (closes' = closes /\ closes[mine[h]] > 0)
        /\ \E l \in {"removeWait", "closed"} : pc' = [pc EXCEPT ![h] = l]
        /\ UNCHANGED <<lease, at, mine, topicOf>>
    BY <1>13, <2>1 DEF CloseSub
  <2>3. closes'[mine[h]] > 0 /\ \A s \in Subs : s # mine[h] => closes'[s] = closes[s]
    BY <2>1, <2>2
  <2>4. ASSUME NEW g \in Holders, pc'[g] \in {"removeWait", "closed"}
        PROVE  closes'[mine[g]] > 0
    <3>2. CASE g # h
      <4>1. closes[mine[g]] > 0 /\ mine[g] \in Subs
        BY <2>2, <2>4, <3>2
      <4> QED
        BY <2>1, <2>3, <4>1
    <3> QED
      BY <2>3, <3>2
  <2>5. ASSUME NEW s \in Subs, closes'[s] = 0 PROVE closes[s] = 0
    BY <2>2, <2>3, <2>5
  <2>6. \A s \in Subs : topicOf[s] = None => closes'[s] = 0
    BY <2>1, <2>3
  <2> QED
    BY <2>1, <2>2, <2>4, <2>5, <2>6
<1>14. ASSUME NEW h \in Holders, RemoveSub(h) PROVE LeaseInv'
  BY <1>14 DEF RemoveSub, CanWrite
<1>15. ASSUME NEW h \in Holders, LeaveDone(h) PROVE LeaseInv'
  BY <1>15 DEF LeaveDone
<1>16. ASSUME NEW s \in Subs, RelaySkip(s) PROVE LeaseInv'
  BY <1>16 DEF RelaySkip
<1>17. CASE ShutdownCall
  BY <1>17 DEF ShutdownCall
<1>18. CASE ShutdownLock
  BY <1>18 DEF ShutdownLock, CanWrite
<1>19. CASE ShutdownSub
  <2>1. Head(left[Closer]) \in Subs
    BY <1>19, RestIsList DEF ShutdownSub
  <2>2. \A s \in Subs : closes'[s] = closes[s]
                        \/ (closes[s] = 0 /\ closes'[s] = 1 /\ s = Head(left[Closer]))
    BY <1>19, <2>1 DEF ShutdownSub
  <2>3. topicOf[Head(left[Closer])] # None
    <3>1. Head(left[Closer]) \in Rest(Closer)
      BY <1>19, FirstAndRest DEF ShutdownSub, Rest
    <3>2. mWriter = Closer
      BY <1>19 DEF ShutdownSub, LockInv
    <3> QED
      BY <3>1, <3>2 DEF ListInv
  <2> QED
    BY <1>19, <2>1, <2>2, <2>3 DEF ShutdownSub
<1>20. CASE ShutdownDone
  BY <1>20 DEF ShutdownDone
<1> QED
  BY <1>1, <1>2, <1>3, <1>4, <1>5, <1>6, <1>7, <1>8, <1>9, <1>10, <1>11,
     <1>12, <1>13, <1>14, <1>15, <1>16, <1>17, <1>18, <1>19, <1>20
     DEF Next, PublishStep, HolderStep, ShutdownStep

(* A publisher that goes on has one subscription less to visit.            *)
LEMMA HeldRest ==
  ASSUME NEW p \in Publishers, BrokerTypeOK, Located, SubHeld, pc[p] \in {"check", "send"}, NextSub(p)
  PROVE  /\ Head(left[p]) \in Rest(p) /\ Head(left[p]) \in Subs
         /\ Rest(p)' \subseteq Rest(p) /\ Rest(p) \subseteq Rest(p)' \cup {Head(left[p])}
         /\ \A q \in Publishers : q # p => Rest(q)' = Rest(q)
<1>1. /\ left[p] \in Seq(Subs) /\ left[p] # <<>>
      /\ left' = [left EXCEPT ![p] = Tail(left[p])]
  BY DEF BrokerTypeOK, SubHeld, NextSub
<1>2. left'[p] = Tail(left[p]) /\ \A q \in Publishers : q # p => left'[q] = left[q]
  BY <1>1 DEF BrokerTypeOK
<1> QED
  BY <1>1, <1>2, FirstAndRest, RestIsList DEF Rest

(* m.subs does not change, and nobody has more to visit than it lists.     *)
LEMMA SameList ==
  ASSUME ListInv, UNCHANGED <<subs, topicOf, closes, mine, mWriter>>,
         Rest(Closer)' = Rest(Closer), \A p \in mReaders' : Rest(p)' \subseteq Listed,
         \A h \in Holders : pc[h] = "removeWait" => pc'[h] = "removeWait"
  PROVE  ListInv'
<1>1. Listed' = Listed
  BY DEF Listed
<1> QED
  BY <1>1 DEF ListInv, ListedIsLive

(* What is listed and what is left to visit do not change.                 *)
LEMMA ListsUntouched ==
  ASSUME ListInv, UNCHANGED <<subs, topicOf, closes, mine, mWriter, left>>, mReaders' \subseteq mReaders,
         \A h \in Holders : pc[h] = "removeWait" => pc'[h] = "removeWait"
  PROVE  ListInv'
<1>1. \A x : Rest(x)' = Rest(x)
  BY DEF Rest
<1>2. \A p \in mReaders' : Rest(p)' \subseteq Listed
  BY <1>1 DEF ListInv
<1> QED
  BY <1>1, <1>2, SameList

(* m.subs lists what is open, and stays what it is while somebody reads.    *)
LEMMA ListStep ==
  ASSUME BrokerTypeOK, Located, SubHeld, LockInv, LeaseInv, ListInv, Next
  PROVE  ListInv'
<1> USE DEF Located, HolderPCs
<1>1. ASSUME NEW p \in Publishers, NEW t \in Topics, CallPublish(p, t) PROVE ListInv'
  BY <1>1, ListsUntouched DEF CallPublish, BrokerTypeOK
<1>2. ASSUME NEW p \in Publishers, PublishRLock(p) PROVE ListInv'
  <2>1. /\ Rest(p)' = Listed
        /\ \A x \in Publishers \cup {Closer} : x # p => Rest(x)' = Rest(x)
    BY <1>2 DEF PublishRLock, Listed, Elements, Rest, BrokerTypeOK
  <2>2. \A x \in mReaders' : Rest(x)' \subseteq Listed
    BY <1>2, <2>1 DEF PublishRLock, ListInv, BrokerTypeOK
  <2> QED
    BY <1>2, <2>1, <2>2, SameList DEF PublishRLock, BrokerTypeOK
<1>3. ASSUME NEW p \in Publishers, PublishLockSub(p) PROVE ListInv'
  BY <1>3, ListsUntouched DEF PublishLockSub, BrokerTypeOK
<1>4. ASSUME NEW p \in Publishers, PublishSkip(p) PROVE ListInv'
  <2>1. \A q \in Publishers : Rest(q)' \subseteq Rest(q)
    BY <1>4, HeldRest DEF PublishSkip
  <2>2. Rest(Closer)' = Rest(Closer)
    BY <1>4 DEF PublishSkip, NextSub, Rest, BrokerTypeOK
  <2>3. \A x \in mReaders : Rest(x)' \subseteq Listed
    BY <2>1 DEF ListInv, BrokerTypeOK
  <2> QED
    BY <1>4, <2>2, <2>3, SameList DEF PublishSkip, NextSub, BrokerTypeOK
<1>5. ASSUME NEW p \in Publishers, PublishMatch(p) PROVE ListInv'
  BY <1>5, ListsUntouched DEF PublishMatch, BrokerTypeOK
<1>6. ASSUME NEW p \in Publishers, PublishSend(p) PROVE ListInv'
  <2>1. \A q \in Publishers : Rest(q)' \subseteq Rest(q)
    BY <1>6, HeldRest DEF PublishSend
  <2>2. Rest(Closer)' = Rest(Closer)
    BY <1>6 DEF PublishSend, NextSub, Rest, BrokerTypeOK
  <2>3. \A x \in mReaders : Rest(x)' \subseteq Listed
    BY <2>1 DEF ListInv, BrokerTypeOK
  <2> QED
    BY <1>6, <2>2, <2>3, SameList DEF PublishSend, NextSub, BrokerTypeOK
<1>7. ASSUME NEW p \in Publishers, PublishDone(p) PROVE ListInv'
  BY <1>7, ListsUntouched DEF PublishDone, BrokerTypeOK
<1>8. ASSUME NEW h \in Holders, NEW t \in Topics, Join(h, t) PROVE ListInv'
  BY <1>8, ListsUntouched DEF Join, BrokerTypeOK
<1>9. ASSUME NEW h \in Holders, SubscribeLock(h) PROVE ListInv'
  BY <1>9, ListsUntouched DEF SubscribeLock, BrokerTypeOK
<1>10. ASSUME NEW h \in Holders, NEW s \in Subs, SubscribeAppend(h, s) PROVE ListInv'
  <2>1. Listed' = Listed \cup {s} /\ (Distinct(subs) /\ s \notin Listed => Distinct(subs'))
    <3>1. subs \in Seq(Subs) /\ subs' = Append(subs, s)
      BY <1>10 DEF SubscribeAppend, BrokerTypeOK
    <3>2. Listed = Elements(subs) /\ Listed' = Elements(subs')
      BY DEF Listed, Elements
    <3> QED
      BY <3>1, <3>2, LongerList
  <2>2. /\ s \notin Listed /\ closes[s] = 0 /\ at[h] # None /\ Distinct(subs)
        /\ mReaders = {} /\ mWriter # Closer
    BY <1>10 DEF SubscribeAppend, CanWrite, LeaseInv, ListInv
  <2>3. /\ \A r \in Subs : topicOf'[r] = IF r = s THEN at[h] ELSE topicOf[r]
        /\ \A g \in Holders : mine'[g] = IF g = h THEN s ELSE mine[g]
        /\ \A g \in Holders : g # h => pc'[g] = pc[g]
        /\ UNCHANGED <<closes, mReaders, mWriter>>
        /\ pc[h] = "subWait" /\ mine[h] = None
    BY <1>10 DEF SubscribeAppend, BrokerTypeOK, LeaseInv
  <2>4. Listed \subseteq Subs
    BY DEF Listed, BrokerTypeOK
  <2>5. \A r \in Listed' : topicOf'[r] # None
    BY <2>1, <2>2, <2>3, <2>4 DEF ListInv
  <2>6. ASSUME NEW r \in Listed', closes[r] > 0
        PROVE  \E g \in Holders : mine'[g] = r /\ pc'[g] = "removeWait"
    <3>1. r \in Listed /\ r # s
      BY <2>1, <2>2, <2>6
    <3>2. PICK g \in Holders : mine[g] = r /\ pc[g] = "removeWait"
      BY <2>2, <2>6, <3>1 DEF ListInv, ListedIsLive
    <3> QED
      BY <2>3, <3>2
  <2>7. \A g \in Holders : mine'[g] # None /\ closes[mine'[g]] = 0 => mine'[g] \in Listed'
    BY <2>1, <2>3 DEF ListInv, ListedIsLive
  <2> QED
    BY <2>1, <2>2, <2>3, <2>5, <2>6, <2>7 DEF ListInv, ListedIsLive
<1>11. ASSUME NEW h \in Holders, StoreSub(h) PROVE ListInv'
  BY <1>11, ListsUntouched DEF StoreSub, BrokerTypeOK
<1>12. ASSUME NEW h \in Holders, Leave(h) PROVE ListInv'
  BY <1>12, ListsUntouched DEF Leave, BrokerTypeOK
<1>13. ASSUME NEW h \in Holders, CloseSub(h) PROVE ListInv'
  <2>1. mine[h] \in Subs /\ pc[h] = "leaving"
    BY <1>13 DEF CloseSub
  <2>2. /\ UNCHANGED <<subs, topicOf, left, mReaders, mWriter, mine>>
        /\ Listed' = Listed /\ \A x : Rest(x)' = Rest(x)
    BY <1>13 DEF CloseSub, Listed, Rest
  <2>3. /\ \A s \in Subs : s # mine[h] => closes'[s] = closes[s]
        /\ \A s \in Subs : closes[s] > 0 => closes'[s] > 0
        /\ \A s \in Subs : closes'[s] = 0 => closes[s] = 0
        /\ closes'[mine[h]] = closes[mine[h]] \/ pc'[h] = "removeWait"
        /\ \A g \in Holders : pc[g] = "removeWait" => pc'[g] = "removeWait"
    <3>1. closes \in [Subs -> Nat] /\ pc \in [Threads -> {"idle", "closing"} \cup PublishPCs \cup HolderPCs]
      BY DEF BrokerTypeOK
    <3>2. CASE closes[mine[h]] = 0
      BY <1>13, <2>1, <3>1, <3>2 DEF CloseSub
    <3>3. CASE closes[mine[h]] # 0
      BY <1>13, <2>1, <3>1, <3>3 DEF CloseSub
    <3> QED
      BY <3>2, <3>3
  <2>4. Listed \subseteq Subs
    BY DEF Listed, BrokerTypeOK
  <2>5. ASSUME NEW s \in Listed, closes'[s] > 0, mWriter # Closer
        PROVE  \E g \in Holders : mine[g] = s /\ pc'[g] = "removeWait"
    <3>1. CASE closes[s] > 0
      BY <2>3, <2>5, <3>1 DEF ListInv, ListedIsLive
    <3>2. CASE ~(closes[s] > 0)
      <4>1. s = mine[h]
        BY <2>3, <2>4, <2>5, <3>2
      <4> QED
        BY <2>3, <2>5, <3>2, <4>1
    <3> QED
      BY <3>1, <3>2
  <2>6. \A g \in Holders : mine[g] # None /\ closes'[mine[g]] = 0 => mine[g] \in Listed
    BY <2>3 DEF ListInv, ListedIsLive, BrokerTypeOK
  <2>7. mWriter = Closer => \A s \in Listed : s \in Rest(Closer) \/ closes'[s] > 0
    BY <2>3, <2>4 DEF ListInv
  <2> QED
    BY <2>2, <2>5, <2>6, <2>7 DEF ListInv, ListedIsLive
<1>14. ASSUME NEW h \in Holders, RemoveSub(h) PROVE ListInv'
  <2>1. /\ mine[h] \in Subs /\ closes[mine[h]] > 0 /\ Distinct(subs) /\ subs \in Seq(Subs)
        /\ mReaders = {} /\ mWriter # Closer
    BY <1>14 DEF RemoveSub, CanWrite, LeaseInv, ListInv, BrokerTypeOK
  <2>2. Listed' = Listed \ {mine[h]} /\ Distinct(subs')
    <3>1. CASE mine[h] \in Listed
      <4>1. PICK i \in 1..Len(subs) : subs[i] = mine[h] /\ subs' = RemoveAt(subs, i)
        BY <1>14, <3>1 DEF RemoveSub
      <4>2. Listed = Elements(subs) /\ Listed' = Elements(subs')
        BY DEF Listed, Elements
      <4> QED
        BY <2>1, <4>1, <4>2, ShorterList
    <3>2. CASE mine[h] \notin Listed
      BY <1>14, <2>1, <3>2 DEF RemoveSub, Listed
    <3> QED
      BY <3>1, <3>2
  <2>3. /\ UNCHANGED <<topicOf, left, mReaders, mWriter, mine, closes>>
        /\ \A g \in Holders : g # h => pc'[g] = pc[g]
    BY <1>14 DEF RemoveSub, BrokerTypeOK
  <2>4. \A g \in Holders : mine[g] # None /\ closes[mine[g]] = 0 => mine[g] \in Listed'
    BY <2>1, <2>2 DEF ListInv, ListedIsLive
  <2>5. \A s \in Listed' : closes[s] > 0 => \E g \in Holders : mine[g] = s /\ pc'[g] = "removeWait"
    BY <2>1, <2>2, <2>3 DEF ListInv, ListedIsLive
  <2>6. \A s \in Listed' : topicOf[s] # None
    BY <2>2 DEF ListInv
  <2> QED
    BY <2>1, <2>2, <2>3, <2>4, <2>5, <2>6 DEF ListInv, ListedIsLive
<1>15. ASSUME NEW h \in Holders, LeaveDone(h) PROVE ListInv'
  <2>1. /\ UNCHANGED <<subs, topicOf, left, mReaders, mWriter, closes>>
        /\ Listed' = Listed /\ \A x : Rest(x)' = Rest(x)
        /\ pc[h] = "closed"
        /\ \A g \in Holders : g # h => pc'[g] = pc[g] /\ mine'[g] = mine[g]
        /\ mine'[h] = None
    BY <1>15 DEF LeaveDone, Listed, Rest, BrokerTypeOK
  <2>2. \A s \in Listed : closes[s] > 0 =>
          \/ \E g \in Holders : mine'[g] = s /\ pc'[g] = "removeWait"
          \/ mWriter = Closer
    BY <2>1 DEF ListInv, ListedIsLive
  <2>3. \A g \in Holders : mine'[g] # None /\ closes[mine'[g]] = 0 => mine'[g] \in Listed
    BY <2>1 DEF ListInv, ListedIsLive
  <2> QED
    BY <2>1, <2>2, <2>3 DEF ListInv, ListedIsLive
<1>16. ASSUME NEW s \in Subs, RelaySkip(s) PROVE ListInv'
  BY <1>16, ListsUntouched DEF RelaySkip, BrokerTypeOK
<1>17. CASE ShutdownCall
  BY <1>17, ListsUntouched DEF ShutdownCall, BrokerTypeOK
<1>18. CASE ShutdownLock
  <2>1. /\ mReaders' = {} /\ UNCHANGED <<subs, topicOf, mine, closes>> /\ Listed' = Listed
        /\ mWriter' = Closer
        /\ left' = [left EXCEPT ![Closer] = subs]
    BY <1>18 DEF ShutdownLock, CanWrite, Listed
  <2>2. Rest(Closer)' = Listed
    BY <2>1 DEF Listed, Elements, Rest, BrokerTypeOK
  <2> QED
    BY <2>1, <2>2 DEF ListInv, ListedIsLive
<1>19. CASE ShutdownSub
  <2>1. mWriter = Closer /\ mReaders = {}
    BY <1>19 DEF ShutdownSub, LockInv
  <2>2. /\ Head(left[Closer]) \in Subs /\ Rest(Closer)' \subseteq Rest(Closer)
        /\ Rest(Closer) \subseteq Rest(Closer)' \cup {Head(left[Closer])}
    <3>1. left[Closer] \in Seq(Subs) /\ left[Closer] # <<>> /\ left'[Closer] = Tail(left[Closer])
      BY <1>19 DEF ShutdownSub, BrokerTypeOK
    <3> QED
      BY <3>1, RestIsList, FirstAndRest DEF Rest
  <2>3. /\ UNCHANGED <<subs, topicOf, mReaders, mWriter, mine, pc>>
        /\ Listed' = Listed /\ Listed \subseteq Subs
    <3>1. Listed \subseteq Subs
      BY DEF Listed, BrokerTypeOK
    <3> QED
      BY <1>19, <3>1 DEF ShutdownSub, Listed
  <2>4. /\ closes'[Head(left[Closer])] > 0
        /\ \A s \in Subs : (closes[s] > 0 => closes'[s] > 0) /\ (closes'[s] = 0 => closes[s] = 0)
    <3>1. closes \in [Subs -> Nat]
      BY DEF BrokerTypeOK
    <3>2. CASE closes[Head(left[Closer])] = 0
      BY <1>19, <2>2, <3>1, <3>2 DEF ShutdownSub
    <3>3. CASE closes[Head(left[Closer])] # 0
      BY <1>19, <2>2, <3>1, <3>3 DEF ShutdownSub
    <3> QED
      BY <3>2, <3>3
  <2>5. \A s \in Listed : s \in Rest(Closer)' \/ closes'[s] > 0
    BY <2>1, <2>2, <2>3, <2>4 DEF ListInv
  <2>6. \A g \in Holders : mine[g] # None /\ closes'[mine[g]] = 0 => mine[g] \in Listed
    BY <2>4 DEF ListInv, ListedIsLive, BrokerTypeOK
  <2> QED
    BY <2>1, <2>2, <2>3, <2>5, <2>6 DEF ListInv, ListedIsLive
<1>20. CASE ShutdownDone
  <2>1. mWriter = Closer /\ mReaders = {} /\ Rest(Closer) = {}
    BY <1>20 DEF ShutdownDone, LockInv, Elements, Rest
  <2>2. /\ subs' = <<>> /\ Listed' = {} /\ mWriter' = None
        /\ UNCHANGED <<mine, closes, mReaders, topicOf>>
    BY <1>20 DEF ShutdownDone, Listed
  <2>3. \A s \in Listed : closes[s] > 0
    BY <2>1 DEF ListInv
  <2>4. \A g \in Holders : mine[g] # None => closes[mine[g]] # 0
    BY <2>3 DEF ListInv, ListedIsLive
  <2>5. Distinct(subs')
    BY <2>2 DEF Distinct
  <2> QED
    BY <2>1, <2>2, <2>4, <2>5 DEF ListInv, ListedIsLive
<1> QED
  BY <1>1, <1>2, <1>3, <1>4, <1>5, <1>6, <1>7, <1>8, <1>9, <1>10, <1>11,
     <1>12, <1>13, <1>14, <1>15, <1>16, <1>17, <1>18, <1>19, <1>20
     DEF Next, PublishStep, HolderStep, ShutdownStep

(* One holder keeps a topic open, so one subscription to it is open.       *)
LEMMA OneOpen ==
  ASSUME LeaseInv, ThreadKinds, NEW r \in Subs, NEW s \in Subs, topicOf[r] # None,
         topicOf[r] = topicOf[s], closes[r] = 0, closes[s] = 0
  PROVE  r = s
<1>1. PICK h \in Holders : mine[h] = r
  BY DEF LeaseInv
<1>2. PICK g \in Holders : mine[g] = s
  BY DEF LeaseInv
<1>3. lease[at[h]] = h /\ lease[at[g]] = g /\ at[h] = at[g]
  BY <1>1, <1>2, ThreadKinds DEF LeaseInv, HolderPCs
<1> QED
  BY <1>1, <1>2, <1>3

(* Nothing that matters to a publisher changes.                            *)
LEMMA SamePublish ==
  ASSUME NEW q \in Publishers, PublishInv(q),
         pc'[q] = pc[q], sent'[q] = sent[q], at'[q] = at[q], left'[q] = left[q],
         \A s \in Subs : <<q, sent[q]>> \in got'[s] <=> <<q, sent[q]>> \in got[s],
         \A s \in Subs : dropped[s] \subseteq dropped'[s],
         subs \in Seq(Subs),
         pc[q] \in ReadingPCs => UNCHANGED <<subs, topicOf>>,
         \A s \in Subs : closes'[s] = 0 => closes[s] = 0
  PROVE  PublishInv(q)'
<1>1. Listed \subseteq Subs
  BY DEF Listed
<1>2. Rest(q)' = Rest(q)
  BY DEF Rest
<1>3. pc[q] = "rlock" => \A s \in Subs : <<q, sent'[q]>> \notin got'[s]
  BY DEF PublishInv
<1>4. pc[q] = "send" => topicOf'[Head(left'[q])] = at'[q]
  BY DEF PublishInv, ReadingPCs
<1>5. ASSUME pc[q] \in ReadingPCs,
             NEW r \in Listed', topicOf'[r] = at'[q], closes'[r] = 0
      PROVE  /\ \A s \in Subs : <<q, sent'[q]>> \in got'[s] => r = s
             /\ r \in Rest(q)' \/ <<q, sent'[q]>> \in got'[r] \cup dropped'[r]
  <2>1. r \in Listed /\ r \in Subs /\ topicOf[r] = at[q] /\ closes[r] = 0
    BY <1>1, <1>5 DEF Listed
  <2>2. /\ \A s \in Subs : <<q, sent[q]>> \in got[s] => r = s
        /\ r \in Rest(q) \/ <<q, sent[q]>> \in got[r] \cup dropped[r]
    BY <1>5, <2>1 DEF PublishInv
  <2> QED
    BY <1>2, <2>1, <2>2
<1> QED
  BY <1>3, <1>4, <1>5 DEF PublishInv

(* Nobody publishes: m.subs changes only when nobody reads it, and what is *)
(* closed stays so.                                                        *)
LEMMA NotPublished ==
  ASSUME BrokerTypeOK, LockInv, GotInv, UNCHANGED <<got, dropped, sent>>,
         \A p \in Publishers : pc'[p] = pc[p] /\ at'[p] = at[p] /\ left'[p] = left[p],
         mReaders # {} => UNCHANGED <<subs, topicOf>>,
         \A s \in Subs : closes'[s] = 0 => closes[s] = 0
  PROVE  GotInv'
<1>1. ASSUME NEW p \in Publishers PROVE PublishInv(p)'
  <2>1. pc[p] \in ReadingPCs => UNCHANGED <<subs, topicOf>>
    BY DEF LockInv
  <2>2. subs \in Seq(Subs) /\ PublishInv(p)
    BY DEF BrokerTypeOK, GotInv
  <2> QED
    BY <2>1, <2>2, SamePublish
<1>2. (\A s \in Subs : \A m \in got[s] : m[2] <= sent[m[1]])'
  BY DEF GotInv
<1> QED
  BY <1>1, <1>2 DEF GotInv, AtMostOnceRelay

(* A publisher goes on without sending.                                    *)
LEMMA Unsent ==
  ASSUME NEW p \in Publishers, BrokerTypeOK, GotInv,
         UNCHANGED <<got, dropped, subs, topicOf, closes>>,
         \A q \in Publishers : q # p =>
           pc'[q] = pc[q] /\ at'[q] = at[q] /\ left'[q] = left[q] /\ sent'[q] = sent[q],
         sent'[p] \in Nat, sent'[p] >= sent[p],
         PublishInv(p)'
  PROVE  GotInv'
<1>1. ASSUME NEW q \in Publishers, q # p PROVE PublishInv(q)'
  <2>1. subs \in Seq(Subs) /\ PublishInv(q)
    BY DEF BrokerTypeOK, GotInv
  <2> QED
    BY <1>1, <2>1, SamePublish
<1>2. ASSUME NEW s \in Subs, NEW m \in got[s] PROVE m[2] <= sent'[m[1]]
  <2>1. m \in Publishers \X (1..MaxMsgs) /\ m[1] \in Publishers /\ m[2] \in Nat
    BY DEF BrokerTypeOK, Msgs
  <2>2. m[2] <= sent[m[1]] /\ sent[m[1]] \in Nat
    BY <2>1 DEF GotInv, BrokerTypeOK
  <2>3. sent'[m[1]] \in Nat /\ sent'[m[1]] >= sent[m[1]]
    BY <2>1, <2>2
  <2> QED
    BY <2>1, <2>2, <2>3
<1>3. (\A s \in Subs : \A m \in got[s] : m[2] <= sent[m[1]])'
  BY <1>2
<1> QED
  BY <1>1, <1>3 DEF GotInv, AtMostOnceRelay

(* The one open subscription to the topic is sent the message, or is full. *)
LEMMA Sent ==
  ASSUME NEW p \in Publishers, BrokerInv, LockInv, LeaseInv, ListInv, GotInv, PublishSend(p)
  PROVE  GotInv'
<1> DEFINE m == <<p, sent[p]>>
<1>1. PICK s : s = Head(left[p])
  OBVIOUS
<1>2. /\ \/ /\ got' = [got EXCEPT ![s] = @ \cup {m}]
            /\ dropped' = dropped
         \/ /\ dropped' = [dropped EXCEPT ![s] = @ \cup {m}]
            /\ got' = got
      /\ UNCHANGED <<subs, topicOf, closes, sent, at>>
      /\ pc[p] = "send" /\ pc'[p] = "visit" /\ Listed' = Listed
      /\ \A q \in Publishers : q # p => pc'[q] = pc[q] /\ left'[q] = left[q]
  BY <1>1 DEF PublishSend, NextSub, BrokerInv, BrokerTypeOK, Listed
<1>3. /\ s \in Rest(p) /\ s \in Subs /\ Rest(p) \subseteq Rest(p)' \cup {s}
      /\ topicOf[s] = at[p] /\ closes[s] = 0
  BY <1>1, <1>2, HeldRest DEF PublishSend, BrokerInv, GotInv, PublishInv, NoPanic
<1>4. s \in Listed /\ topicOf[s] # None /\ Listed \subseteq Subs
  <2>1. p \in mReaders
    BY <1>2 DEF LockInv, ReadingPCs
  <2> QED
    BY <1>3, <2>1 DEF ListInv, Listed, BrokerInv, BrokerTypeOK
<1>5. \A r \in Subs : m \in got[r] => s = r
  BY <1>2, <1>3, <1>4 DEF GotInv, PublishInv, ReadingPCs
<1>6. /\ \A r \in Subs : r # s => got'[r] = got[r] /\ dropped'[r] = dropped[r]
      /\ got[s] \subseteq got'[s] /\ got'[s] \subseteq got[s] \cup {m}
      /\ dropped[s] \subseteq dropped'[s] /\ m \in got'[s] \cup dropped'[s]
  <2>1. got \in [Subs -> SUBSET Msgs] /\ dropped \in [Subs -> SUBSET Msgs]
    BY DEF BrokerInv, BrokerTypeOK
  <2> HIDE DEF m
  <2> QED
    BY <1>2, <1>3, <2>1
<1>7. ASSUME NEW q \in Publishers PROVE PublishInv(q)'
  <2>1. CASE q # p
    <3>1. subs \in Seq(Subs) /\ PublishInv(q)
      BY DEF BrokerInv, BrokerTypeOK, GotInv
    <3>2. \A r \in Subs : <<q, sent[q]>> \in got'[r] <=> <<q, sent[q]>> \in got[r]
      BY <1>6, <2>1
    <3>3. \A r \in Subs : dropped[r] \subseteq dropped'[r]
      BY <1>6
    <3> QED
      BY <1>2, <2>1, <3>1, <3>2, <3>3, SamePublish
  <2>2. CASE q = p
    <3>1. ASSUME NEW r \in Listed, topicOf[r] = at[p], closes[r] = 0
          PROVE  r = s
      BY <1>3, <1>4, <3>1, OneOpen, ThreadKinds
    <3>2. \A r \in Subs : m \in got'[r] => s = r
      BY <1>5, <1>6
    <3> QED
      BY <1>2, <1>6, <2>2, <3>1, <3>2 DEF PublishInv
  <2> QED
    BY <2>1, <2>2
<1>8. ASSUME NEW r \in Subs, NEW n \in got'[r] PROVE n[2] <= sent[n[1]]
  <2>1. CASE n \in got[r]
    BY <2>1 DEF GotInv
  <2>2. CASE n = m
    <3>1. n[1] = p /\ n[2] = sent[p] /\ sent[p] \in Nat
      BY <2>2 DEF BrokerInv, BrokerTypeOK
    <3> QED
      BY <3>1
  <2> QED
    BY <1>6, <2>1, <2>2
<1>9. AtMostOnceRelay'
  <2> SUFFICES ASSUME NEW r \in Subs, NEW u \in Subs, r # u, NEW n \in got'[r] \cap got'[u]
               PROVE  FALSE
    BY DEF AtMostOnceRelay
  <2>1. ~(n \in got[r] /\ n \in got[u])
    BY DEF GotInv, AtMostOnceRelay
  <2>2. n = m /\ (r = s \/ u = s)
    BY <1>6, <2>1
  <2> QED
    BY <1>5, <1>6, <2>2
<1> QED
  BY <1>2, <1>7, <1>8, <1>9 DEF GotInv

(* Nobody is sent twice what is published once.                            *)
LEMMA GotStep ==
  ASSUME BrokerInv, LockInv, LeaseInv, ListInv, GotInv, Next
  PROVE  GotInv'
<1> USE DEF BrokerInv
<1>1. ASSUME NEW p \in Publishers, NEW t \in Topics, CallPublish(p, t) PROVE GotInv'
  <2>1. /\ pc' = [pc EXCEPT ![p] = "rlock"] /\ sent' = [sent EXCEPT ![p] = sent[p] + 1]
        /\ at' = [at EXCEPT ![p] = t]
        /\ UNCHANGED <<got, dropped, subs, topicOf, closes, left>>
    BY <1>1 DEF CallPublish
  <2>2. /\ pc'[p] = "rlock" /\ sent'[p] = sent[p] + 1 /\ sent[p] \in Nat
        /\ \A q \in Publishers : q # p =>
             pc'[q] = pc[q] /\ at'[q] = at[q] /\ left'[q] = left[q] /\ sent'[q] = sent[q]
    BY <2>1 DEF BrokerTypeOK
  <2>3. ASSUME NEW s \in Subs, <<p, sent[p] + 1>> \in got[s] PROVE FALSE
    <3>1. <<p, sent[p] + 1>>[2] <= sent[<<p, sent[p] + 1>>[1]]
      BY <2>3 DEF GotInv
    <3> QED
      BY <2>2, <3>1
  <2>4. PublishInv(p)'
    BY <2>1, <2>2, <2>3 DEF PublishInv, ReadingPCs
  <2> QED
    BY <2>1, <2>2, <2>4, Unsent
<1>2. ASSUME NEW p \in Publishers, PublishRLock(p) PROVE GotInv'
  <2>1. /\ UNCHANGED <<got, dropped, subs, topicOf, closes, sent>>
        /\ \A q \in Publishers : q # p =>
             pc'[q] = pc[q] /\ at'[q] = at[q] /\ left'[q] = left[q] /\ sent'[q] = sent[q]
        /\ sent[p] \in Nat
    BY <1>2 DEF PublishRLock, BrokerTypeOK
  <2>2. pc[p] = "rlock" /\ pc'[p] = "visit" /\ left'[p] = subs /\ at'[p] = at[p]
    BY <1>2 DEF PublishRLock, BrokerTypeOK
  <2>3. Rest(p)' = Listed /\ Listed' = Listed /\ Listed \subseteq Subs
    BY <2>1, <2>2 DEF Rest, Elements, Listed, BrokerTypeOK
  <2>4. PublishInv(p)'
    BY <2>1, <2>2, <2>3 DEF GotInv, PublishInv
  <2> QED
    BY <2>1, <2>4, Unsent
<1>3. ASSUME NEW p \in Publishers, PublishLockSub(p) PROVE GotInv'
  <2>1. /\ UNCHANGED <<got, dropped, subs, topicOf, closes, sent>>
        /\ \A q \in Publishers : q # p =>
             pc'[q] = pc[q] /\ at'[q] = at[q] /\ left'[q] = left[q] /\ sent'[q] = sent[q]
        /\ sent[p] \in Nat
    BY <1>3 DEF PublishLockSub, BrokerTypeOK
  <2>2. /\ pc[p] = "visit" /\ pc'[p] = "check" /\ left'[p] = left[p] /\ at'[p] = at[p]
        /\ Rest(p)' = Rest(p) /\ Listed' = Listed
    BY <1>3 DEF PublishLockSub, BrokerTypeOK, Rest, Listed
  <2>3. PublishInv(p)'
    BY <2>1, <2>2 DEF GotInv, PublishInv, ReadingPCs
  <2> QED
    BY <2>1, <2>3, Unsent
<1>4. ASSUME NEW p \in Publishers, PublishSkip(p) PROVE GotInv'
  <2>1. /\ UNCHANGED <<got, dropped, subs, topicOf, closes, sent>>
        /\ \A q \in Publishers : q # p =>
             pc'[q] = pc[q] /\ at'[q] = at[q] /\ left'[q] = left[q] /\ sent'[q] = sent[q]
        /\ sent[p] \in Nat
    BY <1>4 DEF PublishSkip, NextSub, BrokerTypeOK
  <2>2. /\ pc[p] = "check" /\ pc'[p] = "visit" /\ at'[p] = at[p] /\ Listed' = Listed
        /\ closes[Head(left[p])] > 0 \/ topicOf[Head(left[p])] # at[p]
    BY <1>4 DEF PublishSkip, NextSub, BrokerTypeOK, Listed
  <2>3. Rest(p) \subseteq Rest(p)' \cup {Head(left[p])}
    BY <1>4, HeldRest DEF PublishSkip
  <2>4. PublishInv(p)'
    BY <2>1, <2>2, <2>3 DEF GotInv, PublishInv, ReadingPCs
  <2> QED
    BY <2>1, <2>4, Unsent
<1>5. ASSUME NEW p \in Publishers, PublishMatch(p) PROVE GotInv'
  <2>1. /\ UNCHANGED <<got, dropped, subs, topicOf, closes, sent>>
        /\ \A q \in Publishers : q # p =>
             pc'[q] = pc[q] /\ at'[q] = at[q] /\ left'[q] = left[q] /\ sent'[q] = sent[q]
        /\ sent[p] \in Nat
    BY <1>5 DEF PublishMatch, BrokerTypeOK
  <2>2. /\ pc[p] = "check" /\ pc'[p] = "send" /\ left'[p] = left[p] /\ at'[p] = at[p]
        /\ Rest(p)' = Rest(p) /\ Listed' = Listed
        /\ topicOf[Head(left[p])] = at[p]
    BY <1>5 DEF PublishMatch, BrokerTypeOK, Rest, Listed
  <2>3. PublishInv(p)'
    BY <2>1, <2>2 DEF GotInv, PublishInv, ReadingPCs
  <2> QED
    BY <2>1, <2>3, Unsent
<1>6. ASSUME NEW p \in Publishers, PublishSend(p) PROVE GotInv'
  BY <1>6, Sent
<1>7. ASSUME NEW p \in Publishers, PublishDone(p) PROVE GotInv'
  <2>1. /\ UNCHANGED <<got, dropped, subs, topicOf, closes, sent>>
        /\ \A q \in Publishers : q # p =>
             pc'[q] = pc[q] /\ at'[q] = at[q] /\ left'[q] = left[q] /\ sent'[q] = sent[q]
        /\ sent[p] \in Nat
    BY <1>7 DEF PublishDone, BrokerTypeOK
  <2>2. pc'[p] = "idle"
    BY <1>7 DEF PublishDone, BrokerTypeOK
  <2>3. PublishInv(p)'
    BY <2>2 DEF PublishInv, ReadingPCs
  <2> QED
    BY <2>1, <2>3, Unsent
<1>8. ASSUME NEW h \in Holders, NEW t \in Topics, Join(h, t) PROVE GotInv'
  BY <1>8, NotPublished DEF Join, BrokerTypeOK
<1>9. ASSUME NEW h \in Holders, SubscribeLock(h) PROVE GotInv'
  BY <1>9, NotPublished DEF SubscribeLock, BrokerTypeOK
<1>10. ASSUME NEW h \in Holders, NEW s \in Subs, SubscribeAppend(h, s) PROVE GotInv'
  BY <1>10, NotPublished DEF SubscribeAppend, CanWrite, BrokerTypeOK
<1>11. ASSUME NEW h \in Holders, StoreSub(h) PROVE GotInv'
  BY <1>11, NotPublished DEF StoreSub, BrokerTypeOK
<1>12. ASSUME NEW h \in Holders, Leave(h) PROVE GotInv'
  BY <1>12, NotPublished DEF Leave, BrokerTypeOK
<1>13. ASSUME NEW h \in Holders, CloseSub(h) PROVE GotInv'
  BY <1>13, NotPublished DEF CloseSub, BrokerTypeOK
<1>14. ASSUME NEW h \in Holders, RemoveSub(h) PROVE GotInv'
  BY <1>14, NotPublished DEF RemoveSub, CanWrite, BrokerTypeOK
<1>15. ASSUME NEW h \in Holders, LeaveDone(h) PROVE GotInv'
  BY <1>15, NotPublished DEF LeaveDone, BrokerTypeOK
<1>16. ASSUME NEW s \in Subs, RelaySkip(s) PROVE GotInv'
  BY <1>16, NotPublished DEF RelaySkip, BrokerTypeOK
<1>17. CASE ShutdownCall
  BY <1>17, NotPublished DEF ShutdownCall, BrokerTypeOK
<1>18. CASE ShutdownLock
  BY <1>18, NotPublished DEF ShutdownLock, BrokerTypeOK
<1>19. CASE ShutdownSub
  BY <1>19, NotPublished DEF ShutdownSub, BrokerTypeOK
<1>20. CASE ShutdownDone
  BY <1>20, NotPublished DEF ShutdownDone, LockInv, BrokerTypeOK
<1> QED
  BY <1>1, <1>2, <1>3, <1>4, <1>5, <1>6, <1>7, <1>8, <1>9, <1>10, <1>11,
     <1>12, <1>13, <1>14, <1>15, <1>16, <1>17, <1>18, <1>19, <1>20
     DEF Next, PublishStep, HolderStep, ShutdownStep

(* Initially nothing is listed, opened or published.                       *)
LEMMA InitDelivery == Init => DeliveryInv
<1> SUFFICES ASSUME Init PROVE DeliveryInv
  OBVIOUS
<1>1. LockInv /\ LeaseInv
  BY DEF Init, LockInv, LeaseInv, ReadingPCs, HolderPCs
<1>2. subs = <<>> /\ Listed = {}
  BY DEF Init, Listed
<1>3. ListInv
  BY <1>2 DEF Init, ListInv, ListedIsLive, Distinct
<1>4. GotInv
  BY DEF Init, GotInv, PublishInv, AtMostOnceRelay, ReadingPCs
<1> QED
  BY <1>1, <1>3, <1>4, InitBroker DEF DeliveryInv

(* The induction step, from the lemmas above.                              *)
LEMMA DeliveryStep == DeliveryInv /\ [Next]_vars => DeliveryInv'
<1> SUFFICES ASSUME DeliveryInv, [Next]_vars PROVE DeliveryInv'
  OBVIOUS
<1>1. CASE Next
  BY <1>1, BrokerStep, LockStep, LeaseStep, ListStep, GotStep DEF DeliveryInv, BrokerInv
<1>2. CASE UNCHANGED vars
  <2>1. BrokerInv' /\ LockInv' /\ LeaseInv'
    BY <1>2, BrokerStep DEF vars, DeliveryInv, LockInv, LeaseInv
  <2>2. Listed' = Listed /\ \A x : Rest(x)' = Rest(x)
    BY <1>2 DEF vars, Listed, Rest
  <2>3. ListInv'
    BY <1>2, <2>2 DEF vars, DeliveryInv, ListInv, ListedIsLive
  <2>4. GotInv'
    BY <1>2, <2>2 DEF vars, DeliveryInv, GotInv, PublishInv, AtMostOnceRelay
  <2> QED
    BY <2>1, <2>3, <2>4 DEF DeliveryInv
<1> QED
  BY <1>1, <1>2

(* The inductive invariant of who is sent what.                            *)
THEOREM DeliveryInvariant == Spec => []DeliveryInv
  BY InitDelivery, DeliveryStep, PTL DEF Spec

(* hub.go:258-270, 425-452 and memory.go:68-87: two relay goroutines of    *)
(* one channel never both get a message, for any number of publishers,     *)
(* holders and subscriptions, and however often a channel empties.         *)
THEOREM RelayedAtMostOnce == Spec => []AtMostOnceRelay
<1>1. DeliveryInv => AtMostOnceRelay
  BY DEF DeliveryInv, GotInv
<1> QED
  BY <1>1, DeliveryInvariant, PTL

(* memory.go:34-37, 56-66, 103 and 203: what m.subs lists is open or being *)
(* closed, and the subscription somebody keeps open is listed.             *)
THEOREM ListIsLive == Spec => []ListedIsLive
<1>1. DeliveryInv => ListedIsLive
  BY DEF DeliveryInv, ListInv
<1> QED
  BY <1>1, DeliveryInvariant, PTL

(* memory.go:68-87: when Publish returns, every open subscription to its   *)
(* topic has been sent the message, or was full.                           *)
THEOREM PublishReaches == Spec => PublishReachesEveryOpenSub
<1> DEFINE Reaches ==
      \A p \in Publishers : pc[p] = "visit" /\ pc'[p] = "idle" =>
        \A s \in Listed : topicOf[s] = at[p] /\ closes[s] = 0 =>
          <<p, sent[p]>> \in got[s] \cup dropped[s]
<1>1. DeliveryInv /\ [Next]_vars => [Reaches]_vars
  <2> SUFFICES ASSUME DeliveryInv, Next, NEW p \in Publishers,
                      pc[p] = "visit", pc'[p] = "idle",
                      NEW s \in Listed, topicOf[s] = at[p], closes[s] = 0
               PROVE  <<p, sent[p]>> \in got[s] \cup dropped[s]
    OBVIOUS
  <2>1. left[p] = <<>>
    <3> USE DEF DeliveryInv, BrokerInv, BrokerTypeOK
    <3>1. ASSUME NEW q \in Publishers, PublishStep(q) \/ \E t \in Topics : CallPublish(q, t)
          PROVE  left[p] = <<>>
      BY <3>1 DEF PublishStep, PublishRLock, PublishLockSub, PublishSkip, PublishMatch,
                  PublishSend, PublishDone, CallPublish, NextSub
    <3>2. ASSUME NEW h \in Holders, HolderStep(h) \/ Leave(h) \/ \E t \in Topics : Join(h, t)
          PROVE  pc'[p] = pc[p]
      BY <3>2 DEF HolderStep, SubscribeLock, SubscribeAppend, StoreSub, CloseSub,
                  RemoveSub, LeaveDone, Leave, Join
    <3>3. ASSUME \/ \E r \in Subs : RelaySkip(r)
                 \/ ShutdownCall \/ ShutdownStep
          PROVE  pc'[p] = pc[p]
      BY <3>3 DEF RelaySkip, ShutdownCall, ShutdownStep, ShutdownLock, ShutdownSub,
                  ShutdownDone
    <3> QED
      BY <3>1, <3>2, <3>3 DEF Next
  <2>2. Rest(p) = {}
    BY <2>1 DEF Rest, Elements
  <2> QED
    BY <2>2 DEF DeliveryInv, GotInv, PublishInv, ReadingPCs
<1>2. [][Reaches]_vars => PublishReachesEveryOpenSub
  BY PTL DEF PublishReachesEveryOpenSub
<1> QED
  BY <1>1, <1>2, DeliveryInvariant, PTL DEF Spec

----------------------------------------------------------------------------
(* Nothing but the lock cycle stops the broker.                            *)

(* What thread x asks for next is held, or kept for somebody else.         *)
Waits(x) ==
  \/ pc[x] = "rlock" /\ ~CanRead
  \/ pc[x] \in {"subWait", "removeWait"} /\ ~CanWrite
  \/ pc[x] = "store" /\ hMu # None
  \/ pc[x] = "leaving" /\ sMu[mine[x]] # None
  \/ pc[x] \in {"visit", "closing"} /\ left[x] # <<>> /\ sMu[Head(left[x])] # None

(* It is inside a call, and waits for nothing.                             *)
GoesOn(x) ==
  /\ x \in Publishers => pc[x] \in PublishPCs
  /\ x \in Holders => pc[x] \in HolderPCs \ {"in"}
  /\ x = Closer => pc[x] \in {"subWait", "closing"}
  /\ ~Waits(x)

(* Where somebody waits for a lock, or would wait for h.mu, the lock cycle *)
(* has closed or somebody else goes on.                                    *)
OnlyTheCycleStops ==
  (\E x \in Threads : Waits(x)) \/ hMu # None =>
    LockCycle \/ \E y \in Threads : GoesOn(y)

(* Whoever has a mutex, or waits inside Lock, is in the code that does.    *)
Owns(x, s) ==
  \/ x \in Publishers /\ pc[x] \in {"check", "send"} /\ Head(left[x]) = s
  \/ x \in Holders /\ pc[x] \in {"removeWait", "closed"} /\ mine[x] = s

HubPCs == {"leaving", "removeWait", "closed"}
LockPCs == {"subWait", "removeWait"}

OwnersInv ==
  /\ \A s \in Subs : sMu[s] # None => \E x \in Threads : Owns(x, s)
  /\ hMu # None => pc[hMu] \in HubPCs
  /\ \A x \in mPending : pc[x] \in LockPCs

(* A step of one thread keeps the owners if it accounts for what it takes, *)
(* and for what was its own.                                               *)
LEMMA OwnersKept ==
  ASSUME OwnersInv, BrokerTypeOK, BrokerTypeOK', NEW x \in Threads,
         \A y \in Threads \ {x} : pc'[y] = pc[y],
         \A y \in Publishers \ {x} : left'[y] = left[y],
         \A y \in Holders \ {x} : mine'[y] = mine[y],
         \A s \in Subs : sMu'[s] # None => Owns(x, s)' \/ (sMu[s] # None /\ ~Owns(x, s)),
         \/ hMu' = hMu /\ (pc[x] \notin HubPCs \/ pc'[x] \in HubPCs)
         \/ hMu' = None
         \/ hMu' = x /\ pc'[x] \in HubPCs,
         \A y \in mPending' :
           \/ y \in mPending /\ (y # x \/ pc[x] \notin LockPCs)
           \/ y = x /\ pc'[x] \in LockPCs
  PROVE  OwnersInv'
<1>1. ASSUME NEW y \in Threads \ {x}, NEW s, Owns(y, s) PROVE Owns(y, s)'
  BY <1>1 DEF Owns
<1>2. ASSUME NEW s \in Subs, sMu'[s] # None PROVE \E y \in Threads : Owns(y, s)'
  <2>1. CASE Owns(x, s)'
    BY <2>1
  <2>2. CASE sMu[s] # None /\ ~Owns(x, s)
    BY <1>1, <2>2 DEF OwnersInv
  <2> QED
    BY <1>2, <2>1, <2>2
<1>3. hMu' # None => pc'[hMu'] \in HubPCs
  <2>1. CASE hMu' = hMu /\ (pc[x] \notin HubPCs \/ pc'[x] \in HubPCs) /\ hMu # None
    <3>1. hMu \in Threads /\ pc[hMu] \in HubPCs
      BY <2>1 DEF OwnersInv, BrokerTypeOK
    <3> QED
      BY <2>1, <3>1
  <2> QED
    BY <2>1
<1>4. \A y \in mPending' : pc'[y] \in LockPCs
  <2>1. \A y \in mPending : y \in Threads /\ pc[y] \in LockPCs
    BY DEF OwnersInv, BrokerTypeOK
  <2> QED
    BY <2>1
<1> QED
  BY <1>2, <1>3, <1>4 DEF OwnersInv

(* Every step keeps the owners.                                            *)
LEMMA OwnersStep ==
  ASSUME BrokerInv, BrokerInv', OwnersInv, Next
  PROVE  OwnersInv'
<1> USE DEF BrokerInv, HubPCs, LockPCs
<1>1. ASSUME NEW p \in Publishers,
             PublishRLock(p) \/ PublishDone(p) \/ \E t \in Topics : CallPublish(p, t)
      PROVE  OwnersInv'
  <2>1. /\ UNCHANGED <<sMu, hMu, mPending, mine>> /\ pc[p] \in {"idle", "rlock", "visit"}
        /\ \A y \in Threads \ {p} : pc'[y] = pc[y]
        /\ \A y \in Publishers \ {p} : left'[y] = left[y]
    BY <1>1 DEF PublishRLock, PublishDone, CallPublish, BrokerTypeOK
  <2>2. \A s \in Subs : ~Owns(p, s)
    BY <2>1 DEF Owns
  <2> QED
    BY <2>1, <2>2, OwnersKept
<1>2. ASSUME NEW p \in Publishers, PublishMatch(p) PROVE OwnersInv'
  <2>1. /\ UNCHANGED <<sMu, hMu, mPending, mine, left>> /\ pc[p] = "check" /\ pc'[p] = "send"
        /\ \A y \in Threads \ {p} : pc'[y] = pc[y]
    BY <1>2 DEF PublishMatch, BrokerTypeOK
  <2>2. \A s \in Subs : Owns(p, s)' \/ ~Owns(p, s)
    BY <2>1 DEF Owns
  <2> QED
    BY <2>1, <2>2, OwnersKept
<1>3. ASSUME NEW p \in Publishers, PublishLockSub(p) PROVE OwnersInv'
  <2>1. Head(left[p]) \in Subs
    BY <1>3, RestIsList DEF PublishLockSub, BrokerTypeOK
  <2>2. /\ UNCHANGED <<hMu, mPending, mine, left>> /\ pc[p] = "visit" /\ pc'[p] = "check"
        /\ \A y \in Threads \ {p} : pc'[y] = pc[y]
        /\ \A s \in Subs \ {Head(left[p])} : sMu'[s] = sMu[s]
    BY <1>3, <2>1 DEF PublishLockSub, BrokerTypeOK
  <2>3. Owns(p, Head(left[p]))' /\ \A s \in Subs : ~Owns(p, s)
    BY <2>2 DEF Owns
  <2>4. \A s \in Subs : sMu'[s] # None => Owns(p, s)' \/ (sMu[s] # None /\ ~Owns(p, s))
    <3> TAKE s \in Subs
    <3>1. CASE s = Head(left[p])
      BY <2>2, <2>3, <3>1 DEF Owns
    <3> QED
      BY <2>2, <2>3, <3>1
  <2> QED
    BY <2>2, <2>4, OwnersKept
<1>4. ASSUME NEW p \in Publishers, PublishSkip(p) \/ PublishSend(p) PROVE OwnersInv'
  <2>1. pc[p] \in {"check", "send"} /\ Head(left[p]) \in Subs
    BY <1>4, RestIsList DEF PublishSkip, PublishSend, SubHeld, BrokerTypeOK
  <2>2. /\ UNCHANGED <<hMu, mPending, mine>>
        /\ \A y \in Threads \ {p} : pc'[y] = pc[y]
        /\ \A y \in Publishers \ {p} : left'[y] = left[y]
        /\ sMu' = [sMu EXCEPT ![Head(left[p])] = None]
    BY <1>4 DEF PublishSkip, PublishSend, NextSub, BrokerTypeOK
  <2>3. sMu'[Head(left[p])] = None /\ \A s \in Subs \ {Head(left[p])} : sMu'[s] = sMu[s]
    BY <2>1, <2>2 DEF BrokerTypeOK
  <2>4. \A s \in Subs : Owns(p, s) => s = Head(left[p])
    BY DEF Owns
  <2> QED
    BY <2>1, <2>2, <2>3, <2>4, OwnersKept
<1>5. ASSUME NEW h \in Holders,
             \/ SubscribeLock(h) \/ StoreSub(h) \/ Leave(h)
             \/ \E t \in Topics : Join(h, t)
             \/ \E s \in Subs : SubscribeAppend(h, s)
      PROVE  OwnersInv'
  <2>1. /\ UNCHANGED <<sMu, left>> /\ pc[h] \in {"idle", "joined", "subWait", "store", "in"}
        /\ \A y \in Threads \ {h} : pc'[y] = pc[y]
        /\ \A y \in Holders \ {h} : mine'[y] = mine[y]
        /\ \/ hMu' = hMu
           \/ hMu' = h /\ pc'[h] = "leaving"
        /\ \/ mPending' = mPending /\ pc[h] # "subWait"
           \/ mPending' = mPending \ {h}
           \/ mPending' = mPending \cup {h} /\ pc'[h] = "subWait" /\ pc[h] = "joined"
    BY <1>5 DEF SubscribeLock, StoreSub, Leave, Join, SubscribeAppend, BrokerTypeOK
  <2>2. \A s \in Subs : ~Owns(h, s)
    BY <2>1 DEF Owns
  <2> QED
    BY <2>1, <2>2, OwnersKept
<1>6. ASSUME NEW h \in Holders, CloseSub(h) PROVE OwnersInv'
  <2>1. mine[h] \in Subs /\ pc[h] = "leaving"
    BY <1>6 DEF CloseSub, Located, HolderPCs
  <2>2. /\ sMu' = [sMu EXCEPT ![mine[h]] = h] /\ UNCHANGED <<hMu, mine, left>>
        /\ \A y \in Threads \ {h} : pc'[y] = pc[y]
        /\ \/ pc'[h] = "removeWait" /\ mPending' = mPending \cup {h}
           \/ pc'[h] = "closed" /\ mPending' = mPending
    BY <1>6 DEF CloseSub, BrokerTypeOK
  <2>3. \A s \in Subs : sMu'[s] # None => Owns(h, s)' \/ (sMu[s] # None /\ ~Owns(h, s))
    <3> TAKE s \in Subs
    <3>1. CASE s = mine[h]
      BY <2>2, <3>1 DEF Owns
    <3>2. CASE s # mine[h]
      BY <2>1, <2>2, <3>2 DEF Owns, BrokerTypeOK
    <3> QED
      BY <3>1, <3>2
  <2> QED
    BY <2>1, <2>2, <2>3, OwnersKept
<1>7. ASSUME NEW h \in Holders, RemoveSub(h) PROVE OwnersInv'
  <2>1. /\ UNCHANGED <<sMu, hMu, mine, left>> /\ mPending' = mPending \ {h}
        /\ pc[h] = "removeWait" /\ pc'[h] = "closed"
        /\ \A y \in Threads \ {h} : pc'[y] = pc[y]
    BY <1>7 DEF RemoveSub, BrokerTypeOK
  <2>2. \A s \in Subs : Owns(h, s)' \/ ~Owns(h, s)
    BY <2>1 DEF Owns
  <2> QED
    BY <2>1, <2>2, OwnersKept
<1>8. ASSUME NEW h \in Holders, LeaveDone(h) PROVE OwnersInv'
  <2>1. pc[h] = "closed" /\ mine[h] \in Subs
    BY <1>8 DEF LeaveDone, Located, HolderPCs
  <2>2. /\ sMu' = [sMu EXCEPT ![mine[h]] = None] /\ hMu' = None
        /\ UNCHANGED <<mPending, left>>
        /\ \A y \in Threads \ {h} : pc'[y] = pc[y]
        /\ \A y \in Holders \ {h} : mine'[y] = mine[y]
    BY <1>8 DEF LeaveDone, BrokerTypeOK
  <2>3. sMu'[mine[h]] = None /\ \A s \in Subs \ {mine[h]} : sMu'[s] = sMu[s]
    BY <2>1, <2>2 DEF BrokerTypeOK
  <2>4. \A s \in Subs : Owns(h, s) => s = mine[h]
    BY DEF Owns
  <2> QED
    BY <2>1, <2>2, <2>3, <2>4, OwnersKept
<1>9. ASSUME NEW s \in Subs, RelaySkip(s) PROVE OwnersInv'
  BY <1>9 DEF RelaySkip, OwnersInv, Owns
<1>10. ASSUME ShutdownCall \/ ShutdownStep PROVE OwnersInv'
  <2>1. /\ UNCHANGED <<sMu, hMu, mine>> /\ pc[Closer] \in {"idle", "subWait", "closing"}
        /\ \A y \in Threads \ {Closer} : pc'[y] = pc[y]
        /\ \A y \in Publishers \ {Closer} : left'[y] = left[y]
        /\ \/ mPending' = mPending /\ pc[Closer] = "closing"
           \/ mPending' = mPending \ {Closer}
           \/ mPending' = mPending \cup {Closer} /\ pc'[Closer] = "subWait"
    BY <1>10 DEF ShutdownCall, ShutdownStep, ShutdownLock, ShutdownSub, ShutdownDone,
                BrokerTypeOK
  <2>2. \A s \in Subs : ~Owns(Closer, s)
    BY DEF Owns
  <2> QED
    BY <2>1, <2>2, OwnersKept
<1> QED
  BY <1>1, <1>2, <1>3, <1>4, <1>5, <1>6, <1>7, <1>8, <1>9, <1>10
  DEF Next, PublishStep, HolderStep

(* A subscription's mutex is held by one that goes on, or by one that      *)
(* waits to remove that subscription.                                      *)
LEMMA WhoHasSub ==
  ASSUME BrokerInv, OwnersInv, NEW s \in Subs, sMu[s] # None
  PROVE  \/ \E y \in Threads : GoesOn(y)
         \/ \E h \in Holders : pc[h] = "removeWait" /\ mine[h] = s
<1>1. ASSUME NEW p \in Publishers, pc[p] \in {"check", "send"} PROVE GoesOn(p)
  BY <1>1 DEF GoesOn, Waits, PublishPCs
<1>2. ASSUME NEW h \in Holders, pc[h] = "closed" PROVE GoesOn(h)
  BY <1>2 DEF GoesOn, Waits, HolderPCs
<1> QED
  BY <1>1, <1>2 DEF OwnersInv, Owns

(* Whoever has m.mu goes on, or waits in the cycle.                        *)
LEMMA WhoHasBroker ==
  ASSUME BrokerInv, LockInv, OwnersInv, ~CanWrite
  PROVE  LockCycle \/ \E y \in Threads : GoesOn(y)
<1> USE DEF BrokerInv, BrokerTypeOK
<1>1. ASSUME NEW p \in mReaders PROVE LockCycle \/ \E y \in Threads : GoesOn(y)
  <2>1. p \in Publishers /\ pc[p] \in ReadingPCs
    BY DEF LockInv
  <2>2. CASE pc[p] = "visit" /\ left[p] # <<>> /\ sMu[Head(left[p])] # None
    <3>1. Head(left[p]) \in Subs
      BY <2>1, <2>2, RestIsList
    <3> QED
      BY <2>1, <2>2, <3>1, WhoHasSub DEF LockCycle
  <2>3. CASE ~(pc[p] = "visit" /\ left[p] # <<>> /\ sMu[Head(left[p])] # None)
    BY <2>1, <2>3 DEF GoesOn, Waits, ReadingPCs, PublishPCs
  <2> QED
    BY <2>2, <2>3
<1>2. ASSUME mWriter = Closer PROVE LockCycle \/ \E y \in Threads : GoesOn(y)
  <2>1. pc[Closer] = "closing"
    BY <1>2 DEF LockInv
  <2>2. CASE left[Closer] # <<>> /\ sMu[Head(left[Closer])] # None
    <3>1. Head(left[Closer]) \in Subs
      BY <2>2, RestIsList
    <3> QED
      BY <1>2, <2>2, <3>1, WhoHasSub DEF LockCycle
  <2>3. CASE ~(left[Closer] # <<>> /\ sMu[Head(left[Closer])] # None)
    BY <2>1, <2>3 DEF GoesOn, Waits
  <2> QED
    BY <2>2, <2>3
<1> QED
  BY <1>1, <1>2 DEF CanWrite

(* Whoever is at a call to Lock has it granted, or somebody else has m.mu. *)
LEMMA WhoLocks ==
  ASSUME BrokerInv, LockInv, OwnersInv,
         NEW x \in Holders \cup {Closer}, pc[x] \in LockPCs
  PROVE  LockCycle \/ \E y \in Threads : GoesOn(y)
<1>1. CASE CanWrite
  <2>1. GoesOn(x)
    BY <1>1 DEF GoesOn, Waits, HolderPCs, LockPCs, BrokerInv, Located
  <2> QED
    BY <2>1
<1> QED
  BY <1>1, WhoHasBroker

(* And so for a subscription's mutex.                                      *)
LEMMA WhoHasAnySub ==
  ASSUME BrokerInv, LockInv, OwnersInv, NEW s \in Subs, sMu[s] # None
  PROVE  LockCycle \/ \E y \in Threads : GoesOn(y)
BY WhoHasSub, WhoLocks DEF LockPCs

(* And for the hub's, whose holder may wait for either.                    *)
LEMMA WhoHasHub ==
  ASSUME BrokerInv, LockInv, OwnersInv, hMu # None
  PROVE  LockCycle \/ \E y \in Threads : GoesOn(y)
<1>1. hMu \in Holders /\ pc[hMu] \in {"leaving", "removeWait", "closed"}
  BY DEF BrokerInv, BrokerTypeOK, OwnersInv, HubPCs
<1>2. CASE pc[hMu] = "leaving"
  <2>1. mine[hMu] \in Subs
    BY <1>1, <1>2 DEF BrokerInv, Located, HolderPCs
  <2>2. CASE sMu[mine[hMu]] = None
    <3>1. GoesOn(hMu)
      BY <1>1, <1>2, <2>2 DEF GoesOn, Waits, HolderPCs
    <3> QED
      BY <1>1, <3>1
  <2> QED
    BY <2>1, <2>2, WhoHasAnySub
<1>3. CASE pc[hMu] = "removeWait"
  BY <1>1, <1>3, WhoLocks DEF LockPCs
<1>4. CASE pc[hMu] = "closed"
  <2>1. GoesOn(hMu)
    BY <1>1, <1>4 DEF GoesOn, Waits, HolderPCs
  <2> QED
    BY <1>1, <2>1
<1> QED
  BY <1>1, <1>2, <1>3, <1>4

(* memory.go:34-39, 68-103 and hub.go:258-270: for any number of           *)
(* goroutines and subscriptions, and in every state, whoever waits waits   *)
(* for one that goes on, unless Publish or Close has met Unsubscribe in    *)
(* the lock cycle: no other deadlock is possible.                          *)
THEOREM NoOtherDeadlock == Spec => []OnlyTheCycleStops
<1>1. Init => OwnersInv
  BY DEF Init, OwnersInv
<1>2. BrokerInv /\ OwnersInv /\ [Next]_vars => OwnersInv'
  <2>1. ASSUME OwnersInv, UNCHANGED vars PROVE OwnersInv'
    BY <2>1 DEF OwnersInv, Owns, vars
  <2> QED
    BY <2>1, OwnersStep, BrokerStep
<1>3. DeliveryInv /\ OwnersInv => OnlyTheCycleStops
  <2> SUFFICES ASSUME BrokerInv, LockInv, OwnersInv, hMu = None, NEW x \in Threads, Waits(x)
               PROVE  LockCycle \/ \E y \in Threads : GoesOn(y)
    BY WhoHasHub DEF DeliveryInv, OnlyTheCycleStops
  <2> USE DEF BrokerInv, BrokerTypeOK, Located, HolderPCs, PublishPCs
  <2>1. CASE pc[x] = "rlock" /\ ~CanRead
    <3>1. CASE mWriter # None
      BY <3>1, WhoHasBroker DEF CanWrite
    <3>2. CASE mPending # {}
      <4>1. PICK y \in mPending : y \in Holders \cup {Closer}
        BY <3>2
      <4> QED
        BY <4>1, WhoLocks DEF OwnersInv
    <3> QED
      BY <2>1, <3>1, <3>2 DEF CanRead
  <2>2. CASE pc[x] \in {"subWait", "removeWait"} /\ ~CanWrite
    BY <2>2, WhoHasBroker
  <2>3. CASE pc[x] = "leaving" /\ sMu[mine[x]] # None
    <3>1. x \in Holders /\ mine[x] \in Subs
      BY <2>3
    <3> QED
      BY <2>3, <3>1, WhoHasAnySub
  <2>4. CASE pc[x] \in {"visit", "closing"} /\ left[x] # <<>> /\ sMu[Head(left[x])] # None
    <3>1. x \in Publishers \cup {Closer} /\ Head(left[x]) \in Subs
      BY <2>4, RestIsList
    <3> QED
      BY <2>4, <3>1, WhoHasAnySub
  <2> QED
    BY <2>1, <2>2, <2>3, <2>4 DEF Waits
<1> QED
  BY <1>1, <1>2, <1>3, BrokerInvariant, DeliveryInvariant, PTL DEF Spec
=============================================================================
