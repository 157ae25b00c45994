---------------------------- MODULE MCMinerRush ----------------------------
(* Values for model checking module MinerRush.                              *)
EXTENDS MinerRush

(* With POW_LIMIT 5, BIG_X 3 and BIG_Y 1 the chain of targets is 0, 3, 4, 1: *)
(* without the last value the second search finds nothing.                  *)
SinUltimo == 0 .. POW_LIMIT - 2

MCBasura == { [ id |-> 0, monedas |-> 0, objetivo |-> 0, solucion |-> 0, votos_totales |-> 0,
                votos_positivos |-> 0, correcto |-> TRUE, fin |-> TRUE ] }

(* Whom a SIGINT may be sent to: both processes of the miner program, as    *)
(* Ctrl-C does, the Comprobador alone or both of the monitor program.       *)
DelMinero  == {{"minero", "registrador"}}
DelMonitor == {{"comprobador"}, {"comprobador", "monitor"}}
=============================================================================
