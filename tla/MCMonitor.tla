----------------------------- MODULE MCMonitor -----------------------------
(* Values for model checking module Monitor.                                *)
EXTENDS Monitor

(* With POW_LIMIT 5, BIG_X 3 and BIG_Y 1, pow_hash(3) = 0 and pow_hash(1) = 4:*)
(* one right and one wrong solution, so both verdicts occur.                *)
MCPares == {<<0, 3>>, <<2, 1>>}

MCBasura == { [ id |-> 0, monedas |-> 0, objetivo |-> 0, solucion |-> 0, votos_totales |-> 0,
                votos_positivos |-> 0, correcto |-> TRUE, fin |-> TRUE ] }

(* Whom a SIGINT may be sent to: nobody, kill -INT <pid>, or any of the two.*)
Nadie       == {}
SoloPadre   == {{"comprobador"}}
Cualquiera  == {{"comprobador"}, {"monitor"}, {"comprobador", "monitor"}}

ConCola  == {TRUE}
ConOSin  == BOOLEAN
=============================================================================
