----------------------------- MODULE TopicLease -----------------------------
(***************************************************************************)
(* What a node promises about its broker subscriptions (hub.go:31-45,      *)
(* 169-182, 258-270, 425-436), without saying how: a topic is held by the  *)
(* local subscribers of its channel; the one who finds it unheld acquires  *)
(* the lease, in two steps, and does not let go of the topic meanwhile;    *)
(* the last holder to leave releases it.                                   *)
(***************************************************************************)
EXTENDS Naturals

CONSTANTS Holder, Topic

VARIABLES
  holders,   \* who holds each topic
  lease,     \* "none", "opening" or "open"
  opener,    \* who is opening it: a subset of Holder with at most one member
  live       \* live subscriptions to the topic

leaseVars == <<holders, lease, opener, live>>

LeaseTypeOK ==
  /\ holders \in [Topic -> SUBSET Holder]
  /\ lease \in [Topic -> {"none", "opening", "open"}]
  /\ opener \in [Topic -> SUBSET Holder]
  /\ live \in [Topic -> {0, 1}]

LeaseInit ==
  /\ holders = [t \in Topic |-> {}]
  /\ lease = [t \in Topic |-> "none"]
  /\ opener = [t \in Topic |-> {}]
  /\ live = [t \in Topic |-> 0]

(* The first holder takes on the duty to open the subscription.            *)
HoldFirst(h, t) ==
  /\ lease[t] = "none"
  /\ holders' = [holders EXCEPT ![t] = {h}]
  /\ lease' = [lease EXCEPT ![t] = "opening"]
  /\ opener' = [opener EXCEPT ![t] = {h}]
  /\ UNCHANGED live

(* The others join whether or not it is open yet.                          *)
Hold(h, t) ==
  /\ lease[t] # "none"
  /\ holders' = [holders EXCEPT ![t] = @ \cup {h}]
  /\ UNCHANGED <<lease, opener, live>>

Acquire(t) ==
  /\ lease[t] = "opening" /\ live[t] = 0
  /\ live' = [live EXCEPT ![t] = 1]
  /\ UNCHANGED <<holders, lease, opener>>

Grant(t) ==
  /\ lease[t] = "opening" /\ live[t] = 1
  /\ lease' = [lease EXCEPT ![t] = "open"]
  /\ opener' = [opener EXCEPT ![t] = {}]
  /\ UNCHANGED <<holders, live>>

(* Somebody remains.                                                       *)
Release(h, t) ==
  /\ h \notin opener[t]
  /\ holders[t] # {h}
  /\ holders' = [holders EXCEPT ![t] = @ \ {h}]
  /\ UNCHANGED <<lease, opener, live>>

ReleaseLast(h, t) ==
  /\ lease[t] = "open"
  /\ holders[t] = {h}
  /\ holders' = [holders EXCEPT ![t] = {}]
  /\ lease' = [lease EXCEPT ![t] = "none"]
  /\ live' = [live EXCEPT ![t] = 0]
  /\ UNCHANGED opener

LeaseNext ==
  \E t \in Topic :
    \/ Acquire(t) \/ Grant(t)
    \/ \E h \in Holder : HoldFirst(h, t) \/ Hold(h, t) \/ Release(h, t)
                           \/ ReleaseLast(h, t)

LeaseSpec == LeaseInit /\ [][LeaseNext]_leaseVars
=============================================================================
