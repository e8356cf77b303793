------------------------------ MODULE MCBeams ------------------------------
(* Instances of Beams for TLC.                                             *)
EXTENDS Beams

CONSTANTS alice, news
=============================================================================
