------------------------------- MODULE MCHub -------------------------------
(* Instances of Hub for TLC.                                               *)
EXTENDS Hub, TLC

CONSTANTS c1, c2, c3, u1, u2, lobby, news

(* Every client keeps to one user_id; two of them share a user.            *)
OneUserEach == (c1 :> {u1}) @@ (c2 :> {u2})

(* Any client may present any user_id, and change it.                      *)
AnyUser == [c \in Clients |-> Users]

(* With AnyUser neither the clients nor the users can be told apart.       *)
Symmetry == Permutations(Clients) \cup Permutations(Users)

=============================================================================
