--------------------------- MODULE MCCascadiaGame ---------------------------
(* Two seats of two turns. The box is as tight as the real one: before the *)
(* last refill eight tokens are off the boards, the four a market shows and  *)
(* the four a full wipe draws, and one species could be seven of them.       *)
EXTENDS CascadiaGame

TightSupply == [s \in Wildlife |-> IF s = "Bear" THEN 7 ELSE IF s = "Elk" THEN 4 ELSE 0]

\* Solo discards a token a turn as well: one turn leaves eight of ten. Enough of
\* both species, so that a wipe can be followed by a wipe without end.
SoloSupply == [s \in Wildlife |-> IF s = "Bear" THEN 6 ELSE IF s = "Elk" THEN 4 ELSE 0]
=============================================================================
