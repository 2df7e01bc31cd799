---------------------------- MODULE MCStorage ----------------------------
(***************************************************************************)
(* Storage in a small address space, with words of two bytes: the stack    *)
(* has 10 words, 5 of them in the safe region, and the heap 11.  A module  *)
(* has up to three globals: small ones, one that does not fit in the safe  *)
(* part, one for which the difference of the offsets wraps, one of an odd  *)
(* size, and two that the heap is too small for.  The largest malloc is    *)
(* half the address space.                                                 *)
(***************************************************************************)
EXTENDS Storage, TLC

GlobalChoices ==
  {<<>>, <<3>>, <<12>>, <<22>>} \cup ({4, 6, 12} \X {3, 10}) \cup {<<30, 4>>, <<12, 12>>, <<6, 6, 8>>}

(* The callees are interchangeable.                                        *)
Symmetry == Permutations(Callees)

===========================================================================
