--------------------------- MODULE MCSourcesAndTables ---------------------------
(* A finite instance of SourcesAndTables for TLC. *)
EXTENDS SourcesAndTables, TLC

CONSTANTS a, b

TwoOfThem == <<a, b>>

\* One code is delisted, one listed, and one renamed, which happens on the second day.
ThreeDays == <<{1, 2}, {1, 3}, {3, 4}>>
OneRenamed == 2 :> 3
================================================================================
