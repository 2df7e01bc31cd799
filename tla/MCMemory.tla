------------------------------ MODULE MCMemory ------------------------------
(* A small memory: words of two bytes, a stack of one word.                *)
EXTENDS Memory

MCSizes == {1, 2}

(* A value whose bytes differ, without the one that has them the other way *)
(* round; and one that must be cut for a store of one byte.                *)
MCValues == {1, 3}

=============================================================================
