------------------------------ MODULE EventBus ------------------------------
(***************************************************************************)
(* What a cluster of APS nodes promises about events, without saying how:  *)
(* a client is given an event at most once, only after it was sent, and    *)
(* never an event it sent itself or is excluded from.  Events may be lost. *)
(***************************************************************************)
EXTENDS Naturals, Sequences, SequencesExt

CONSTANTS
  Client,            \* who receives
  Sender,            \* who sends
  Channel,
  ExcludedFrom(_)    \* the one client an event is not for

VARIABLES
  sent,   \* how many events each sender has begun to send
  log     \* what each client was given, in order

busVars == <<sent, log>>

BusInit ==
  /\ sent = [s \in Sender |-> 0]
  /\ log = [c \in Client |-> <<>>]

Send(s) ==
  /\ sent' = [sent EXCEPT ![s] = @ + 1]
  /\ UNCHANGED log

Deliver(c, e) ==
  /\ e.nr \in 1..sent[e.by]
  /\ c # ExcludedFrom(e)
  /\ e \notin ToSet(log[c])
  /\ log' = [log EXCEPT ![c] = Append(@, e)]
  /\ UNCHANGED sent

BusNext ==
  \/ \E s \in Sender : Send(s)
  \/ \E c \in Client, s \in Sender, k \in Channel : \E i \in 1..sent[s] :
       Deliver(c, [by |-> s, nr |-> i, on |-> k])

BusSpec == BusInit /\ [][BusNext]_busVars
=============================================================================
