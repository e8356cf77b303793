--------------------------- MODULE MCMemoryBroker ---------------------------
(* Instances of MemoryBroker for TLC.                                      *)
EXTENDS MemoryBroker
=============================================================================
