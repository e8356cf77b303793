----------------------------- MODULE MCPages ------------------------------
(* Instances of Pages for TLC.                                             *)
EXTENDS Pages

CONSTANTS my, other, js, beams, missing, channels, push

(* Two articles, one in each category, and an id of the sidebar without an *)
(* article.                                                                *)
ByCategory == [doc \in {js, beams} |-> IF doc = js THEN channels ELSE push]
Listed == [c \in {channels, push} |-> IF c = channels THEN {js, missing} ELSE {beams}]
=============================================================================
