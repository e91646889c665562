--------------------------- MODULE MCMovementFeed ---------------------------
(* An instance of MovementFeed for TLC. *)
EXTENDS MovementFeed

EngAndOwn  == [w \in Writers |-> IF w = "w1" THEN "eng" ELSE "own"]
OneForEach == [w \in Writers |-> IF w = "w1" THEN {1} ELSE {2}]

WholeJournal == [actor |-> None, long |-> FALSE, bounded |-> FALSE]
SomeAsks == {[WholeJournal EXCEPT !.actor = "own"],
             [WholeJournal EXCEPT !.long = TRUE, !.bounded = TRUE]}
=============================================================================
