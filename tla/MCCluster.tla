----------------------------- MODULE MCCluster -----------------------------
EXTENDS Cluster

CONSTANTS n1, n2, c1, c2, c3, api, room, all, nobody

(* Client c1 and the caller are at the first node, the others at the       *)
(* second; the caller triggers events on behalf of c2.                     *)
AtNodes == [x \in Senders |-> IF x \in {c1, api} THEN n1 ELSE n2]

OnBehalf == [a \in Callers |-> c2]

OnBehalfOfNobody == [a \in Callers |-> Nobody]

(* How many events the senders send.                                       *)
OneByCaller == [x \in Senders |-> IF x \in Callers THEN 1 ELSE 0]

TwoByFirst == [x \in Senders |-> IF x = c1 THEN 2 ELSE IF x = api THEN 1 ELSE 0]

(* How many subscribe commands the clients send.                           *)
JoinOnce == [c \in Clients |-> 1]

SecondRejoins == [c \in Clients |-> IF c = c2 THEN 2 ELSE 1]

(* A client event in the form the code reads.                              *)
InData == [c \in Clients |-> "data"]
=============================================================================
