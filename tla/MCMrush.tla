------------------------------ MODULE MCMrush ------------------------------
(* Values for model checking module Mrush.                                  *)
EXTENDS Mrush

(* With POW_LIMIT 7, BIG_X 3 and BIG_Y 1 the search goes 6, 4, 1, 0, 2, 5   *)
(* and then 6 again, which two threads, trying 0..2 and 3..5, never find;   *)
(* 3 is its own hash.                                                       *)
Algunos == {0, 3, 4, 6}

Cualquiera == Procesos

(* An uninitialised int: the closing value or any other.                    *)
MCBasura == {-1, 0}
=============================================================================
