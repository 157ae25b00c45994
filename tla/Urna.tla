-------------------------------- MODULE Urna --------------------------------
(***************************************************************************)
(* What a voting program promises: in each round every voter may vote once,*)
(* the verdict goes with the majority of the votes cast by then, and no    *)
(* round begins while a voter has not voted in the last one.               *)
(***************************************************************************)
EXTENDS Integers, FiniteSets

CONSTANT n_procs

VARIABLES emitidos, veredicto

urna == <<emitidos, veredicto>>

Papeleta == [votante : 1 .. n_procs, voto : {0, 1}]

Init == emitidos = {} /\ veredicto = "no"

(* A vote may come too late for the verdict of its round.                   *)
Votar(b) ==
  /\ \A e \in emitidos : e.votante # b.votante
  /\ emitidos' = emitidos \cup {b}
  /\ UNCHANGED veredicto

Mayoria(E) == Cardinality({e \in E : e.voto = 1}) > n_procs \div 2

Dictar ==
  /\ veredicto = "no" /\ emitidos # {}
  /\ veredicto' = IF Mayoria(emitidos) THEN "Accepted" ELSE "Rejected"
  /\ UNCHANGED emitidos

Nueva ==
  /\ veredicto # "no"
  /\ {e.votante : e \in emitidos} = 1 .. n_procs
  /\ emitidos' = {} /\ veredicto' = "no"

Next == Dictar \/ Nueva \/ \E b \in Papeleta : Votar(b)

Spec == Init /\ [][Next]_urna
=============================================================================
