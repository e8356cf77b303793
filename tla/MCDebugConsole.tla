--------------------------- MODULE MCDebugConsole ---------------------------
(* Instances of DebugConsole for TLC.                                      *)
EXTENDS DebugConsole, TLC

CONSTANTS a, b

(* The events go to different channels; all of them have the same data, so *)
(* events of one channel have the same key.                                *)
Alternating == [n \in 1..MaxEvents |-> IF n % 2 = 1 THEN b ELSE a]

(* Without is the filter of the library.                                   *)
ASSUME WithoutIsSelectSeq ==
  \A seq \in UNION {[1..n -> 1..3] : n \in 0..4}, out \in SUBSET (1..3) :
    Without(seq, out) = SelectSeq(seq, LAMBDA e : e \notin out)
=============================================================================
