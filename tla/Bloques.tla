------------------------------ MODULE Bloques ------------------------------
(***************************************************************************)
(* What the miner and the monitor program share: the hash of pow.c and the *)
(* Bloque record of common.h that travels through the pipe, the message    *)
(* queue and the shared-memory ring.                                       *)
(***************************************************************************)
EXTENDS Integers

CONSTANTS
  POW_LIMIT,  (* size of the hash's range, the prime of pow.c              *)
  BIG_X,      (* multiplier of the hash                                    *)
  BIG_Y       (* offset of the hash                                        *)

ASSUME PowAssumption ==
  /\ POW_LIMIT \in Nat \ {0}
  /\ BIG_X \in Nat
  /\ BIG_Y \in Nat

(* The C remainder operator: it truncates towards zero, so a negative      *)
(* dividend gives a result that is not positive.                           *)
Resto(a, b) == IF a >= 0 THEN a % b ELSE -((-a) % b)

pow_hash(x) == Resto(x * BIG_X + BIG_Y, POW_LIMIT)

(* The fields of struct Bloque that decide something or that the program   *)
(* computes.  The winner's pid is left out, and of the wallets only the    *)
(* coins of the first are kept: the code gives coins to no other.          *)
Bloque == [ id              : Int,
            monedas         : Nat,
            objetivo        : Int,
            solucion        : Int,
            votos_totales   : Nat,
            votos_positivos : Nat,
            correcto        : BOOLEAN,
            fin             : BOOLEAN ]

(* The finishing block the miner fills in before it starts.  Its wallets   *)
(* are not set; nobody looks at them.                                      *)
BloqueFin == [ id |-> -1, monedas |-> 0, objetivo |-> -1, solucion |-> -1,
               votos_totales |-> 0, votos_positivos |-> 0,
               correcto |-> FALSE, fin |-> TRUE ]

(* What the checker tests before it stamps a block.                        *)
Resuelto(b) == pow_hash(b.solucion) = b.objetivo
=============================================================================
