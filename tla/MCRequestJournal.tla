-------------------------- MODULE MCRequestJournal --------------------------
(* A click c1, a second click c2 on the same command, and a batch of two.   *)
EXTENDS RequestJournal

CONSTANTS c1, c2, c3, x, y

MCCommandOf == [c \in Call |-> IF c \in Batch THEN y ELSE x]
MCParts == [c \in Call |-> IF c \in Batch THEN 2 ELSE 1]
=============================================================================
