----------------------------- MODULE MCSession -----------------------------
(* Instances of Session for TLC.  Nothing tells accounts or apps apart.     *)
EXTENDS Session, TLC

CONSTANTS alice, bob, app1, app2

Symmetry == Permutations({alice, bob}) \cup Permutations({app1, app2})
=============================================================================
