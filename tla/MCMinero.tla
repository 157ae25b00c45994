------------------------------ MODULE MCMinero ------------------------------
(* Values for model checking module Minero.                                 *)
EXTENDS Minero

(* With POW_LIMIT 5, BIG_X 3 and BIG_Y 1 the hash takes 0, 1, 2, 3, 4 to 1,  *)
(* 4, 2, 0, 3, so the chain of targets from 0 is 3, 4, 1, 0, 3, ...          *)

(* The ranges as the double arithmetic of minero.c:106 leaves them for 37,  *)
(* 43, 74 or 86 threads: the last value is lost.                            *)
SinUltimo == 0 .. POW_LIMIT - 2

LibreONo == BOOLEAN

(* Whom a SIGINT may be sent to: either or both.                            *)
Cualquiera == {{"minero"}, {"registrador"}, {"minero", "registrador"}}
=============================================================================
